--------------------------- MODULE ThreadTheorems ---------------------------
(***************************************************************************)
(* What threads do to each other, for every program and every bound: they  *)
(* never wait in a circle and never follow a pointer that was not checked, *)
(* a disciplined program never ends the process, and no update made under  *)
(* a lock is lost.                                                         *)
(***************************************************************************)
EXTENDS VirtualMachineProofs, FiniteSetTheorems

-----------------------------------------------------------------------------
(* Joins.                                                                  *)

\* Threads are started in the order of their numbers and appended in it.
InOrder ==
    /\ \A i \in 1..Len(threads) : threads[i] = i
    /\ th # None => th = Len(threads) + 1
    /\ \A u \in Child : phase[u] = "unborn" <=> u > Len(threads) /\ th # u

\* What a barrier() has passed is joined, and no thread joins itself.
JoinOK ==
    /\ \A t \in Thread : \A i \in 1..(bar[t].j - 1) : i \in joined
    /\ \A t \in Thread : bar[t].in => bar[t].j \in 1..Len(threads) /\ bar[t].j # t

JoinInv == InOrder /\ JoinOK

LEMMA JoinInit == Init => JoinInv
<1> SUFFICES ASSUME Init PROVE JoinInv  OBVIOUS
<1>1. InOrder
  BY Threads DEF Init, InOrder, Main, Child, None
<1>2. JoinOK
  BY DEF Init, JoinOK, Idle
<1> QED BY <1>1, <1>2 DEF JoinInv

\* A step that starts, appends and joins nothing.
LEMMA OrderKept ==
    ASSUME InOrder, UNCHANGED <<threads, th>>,
           \A u \in Child : phase[u] = "unborn" <=> phase'[u] = "unborn"
    PROVE  InOrder'
BY DEF InOrder

LEMMA CreateOrdered ==
    ASSUME IInv, InOrder, NEW t \in Thread, Create(t)
    PROVE  InOrder'
<1>1. PICK u \in Child : /\ phase[u] = "unborn" /\ \A w \in 1..(u - 1) : phase[w] # "unborn"
                         /\ phase' = [phase EXCEPT ![u] = "live"] /\ th' = u
  BY DEF Create
<1>2. th = None /\ threads' = threads
  BY DEF Create
<1>3. Len(threads) \in Nat /\ MaxThreads \in Nat /\ phase \in [Thread -> Phases]
  BY BoundsAssumption DEF IInv, TypeOK
<1>4. \A w \in Child : phase[w] = "unborn" <=> w > Len(threads)
  BY <1>2, <1>3 DEF InOrder, Child, None
<1>5. u = Len(threads) + 1
  <2>1. u > Len(threads)
    BY <1>1, <1>4
  <2>2. ASSUME u > Len(threads) + 1 PROVE FALSE
    <3>1. Len(threads) + 1 \in 1..(u - 1) /\ Len(threads) + 1 \in Child
      BY <2>2, <1>3 DEF Child
    <3> QED BY <3>1, <1>1, <1>3, <1>4
  <2> QED BY <2>1, <2>2, <1>3 DEF Child
<1>6. \A w \in Child : phase'[w] = IF w = u THEN "live" ELSE phase[w]
  BY <1>1, <1>3, Threads
<1> QED BY <1>1, <1>2, <1>3, <1>4, <1>5, <1>6 DEF InOrder

LEMMA PushBackOrdered ==
    ASSUME IInv, InOrder, NEW t \in Thread, PushBack(t)
    PROVE  InOrder'
<1>1. /\ th # None /\ threads' = Append(threads, th) /\ th' = None
      /\ phase' = phase
  BY DEF PushBack
<1>2. threads \in Seq(Child) /\ th \in Child /\ Len(threads) \in Nat
  BY <1>1 DEF IInv, TypeOK
<1>3. /\ Len(threads') = Len(threads) + 1
      /\ \A i \in 1..Len(threads) : threads'[i] = threads[i]
      /\ threads'[Len(threads) + 1] = th
  BY <1>1, <1>2
<1>4. th = Len(threads) + 1 /\ th' \notin Child
  BY <1>1, Threads DEF InOrder
<1>5. \A i \in 1..Len(threads') : threads'[i] = i
  BY <1>2, <1>3, <1>4 DEF InOrder
<1>6. \A u \in Child : (phase[u] = "unborn") <=> (u > Len(threads'))
  BY <1>2, <1>3, <1>4 DEF InOrder, Child
<1> QED BY <1>1, <1>4, <1>5, <1>6 DEF InOrder

LEMMA OrderStep == IInv /\ InOrder /\ [Next]_vars => InOrder'
<1> SUFFICES ASSUME IInv, InOrder, [Next]_vars PROVE InOrder'  OBVIOUS
<1>1. CASE \E t \in Thread : Create(t)
  BY <1>1, CreateOrdered
<1>2. CASE \E t \in Thread : PushBack(t)
  BY <1>2, PushBackOrdered
<1>3. CASE ~(\E t \in Thread : Create(t) \/ PushBack(t))
  <2>1. UNCHANGED <<threads, th>>
    BY <1>3, StepKinds, OtherKinds DEF Next, family
  <2>2. phase \in [Thread -> Phases]
    BY DEF IInv, TypeOK
  <2>3. phase' = phase \/ \E t \in Thread, p \in Phases \ {"unborn"} :
                             phase[t] # "unborn" /\ phase' = [phase EXCEPT ![t] = p]
    BY <1>3, PhaseStep, OtherKinds DEF Next
  <2>4. \A u \in Child : phase[u] = "unborn" <=> phase'[u] = "unborn"
    BY <2>2, <2>3, Threads
  <2> QED BY <2>1, <2>4, OrderKept
<1> QED BY <1>1, <1>2, <1>3

LEMMA PassedJoined ==
    ASSUME IInv, JoinInv, NEW t \in Thread, JoinReturn(t)
    PROVE  JoinOK'
<1>1. /\ joined' = joined \cup {bar[t].j} /\ threads' = threads
      /\ bar' = [bar EXCEPT ![t] = [j |-> bar[t].j + 1, lim |-> bar[t].lim, in |-> FALSE]]
  BY DEF JoinReturn, Joinee, JoinInv, InOrder, JoinOK
<1>2. bar \in [Thread -> [j : Nat, lim : Nat, in : BOOLEAN]]
  BY DEF IInv, TypeOK
<1>3. bar'[t].j = bar[t].j + 1 /\ bar'[t].in = FALSE
  BY <1>1, <1>2
<1>4. \A u \in Thread : u # t => bar'[u] = bar[u]
  BY <1>1, <1>2
<1>5. ASSUME NEW u \in Thread, NEW i \in 1..(bar'[u].j - 1) PROVE i \in joined'
  <2>1. CASE u = t
    BY <1>1, <1>2, <1>3, <1>5, <2>1 DEF JoinInv, JoinOK
  <2>2. CASE u # t
    BY <1>1, <1>4, <1>5, <2>2 DEF JoinInv, JoinOK
  <2> QED BY <2>1, <2>2
<1>6. ASSUME NEW u \in Thread, bar'[u].in
      PROVE  bar'[u].j \in 1..Len(threads') /\ bar'[u].j # u
  BY <1>1, <1>3, <1>4, <1>6 DEF JoinInv, JoinOK
<1> QED BY <1>5, <1>6 DEF JoinOK

LEMMA EntryKept ==
    ASSUME IInv, JoinInv, NEW t \in Thread, JoinEnter(t)
    PROVE  JoinOK'
<1>1. UNCHANGED <<threads, joined>> /\ bar[t].j \in 1..bar[t].lim
  BY DEF JoinEnter, AtJoin
<1>2. bar \in [Thread -> [j : Nat, lim : Nat, in : BOOLEAN]] /\ bar[t].lim <= Len(threads)
  BY DEF IInv, TypeOK, BarOK
<1>3. CASE bar' = bar
  BY <1>1, <1>3 DEF JoinInv, JoinOK
<1>4. CASE bar' # bar
  <2>1. Joinee(t) # t /\ bar' = [bar EXCEPT ![t].in = TRUE]
    BY <1>4 DEF JoinEnter
  <2>2. threads \in Seq(Child) /\ bar[t].j \in 1..Len(threads)
    BY <1>1, <1>2 DEF IInv, TypeOK
  <2>3. bar[t].j # t
    BY <2>1, <2>2 DEF Joinee, JoinInv, InOrder
  <2>4. /\ bar'[t].j = bar[t].j
        /\ \A u \in Thread : u # t => bar'[u] = bar[u]
    BY <1>2, <2>1
  <2> QED BY <1>1, <2>2, <2>3, <2>4 DEF JoinInv, JoinOK
<1> QED BY <1>3, <1>4

LEMMA JoinStep == IInv /\ JoinInv /\ [Next]_vars => JoinInv'
<1> SUFFICES ASSUME IInv, JoinInv, [Next]_vars PROVE JoinOK'
  BY OrderStep DEF JoinInv
<1>1. CASE \E t \in Thread : JoinReturn(t) \/ JoinEnter(t)
  BY <1>1, PassedJoined, EntryKept
<1>2. ASSUME NEW t \in Thread, NEW J \in {0, 1}, NEW L,
             bar' = [bar EXCEPT ![t] = [j |-> J, lim |-> L, in |-> FALSE]],
             UNCHANGED <<threads, joined>>
      PROVE  JoinOK'
  <2>1. bar \in [Thread -> [j : Nat, lim : Nat, in : BOOLEAN]]
    BY DEF IInv, TypeOK
  <2>2. /\ bar'[t].j = J /\ bar'[t].in = FALSE
        /\ \A u \in Thread : u # t => bar'[u] = bar[u]
    BY <1>2, <2>1
  <2>3. 1..(bar'[t].j - 1) = {}
    BY <2>2
  <2> QED BY <1>2, <2>2, <2>3 DEF JoinInv, JoinOK
<1>3. CASE \E t \in Thread : BarrierBegin(t) \/ BarrierEnd(t)
  <2>1. PICK t \in Thread : BarrierBegin(t) \/ BarrierEnd(t)
    BY <1>3
  <2>2. CASE BarrierBegin(t)
    <3>1. /\ bar' = [bar EXCEPT ![t] = [j |-> 1, lim |-> Len(threads), in |-> FALSE]]
          /\ UNCHANGED <<threads, joined>>
      BY <2>2 DEF BarrierBegin
    <3> QED BY <3>1, <1>2
  <2>3. CASE BarrierEnd(t)
    <3>1. /\ bar' = [bar EXCEPT ![t] = [j |-> 0, lim |-> 0, in |-> FALSE]]
          /\ UNCHANGED <<threads, joined>>
      BY <2>3 DEF BarrierEnd, Idle
    <3> QED BY <3>1, <1>2
  <2> QED BY <2>1, <2>2, <2>3
<1>4. CASE UNCHANGED <<bar, joined>>
  <2>1. threads \in Seq(Child) /\ threads' \in Seq(Child) /\ Len(threads') >= Len(threads)
    <3>1. threads \in Seq(Child) /\ (th # None => th \in Child)
      BY DEF IInv, TypeOK
    <3>2. threads' = threads \/ (th # None /\ threads' = Append(threads, th))
      BY StepKinds, OtherKinds DEF Next, family, Create, PushBack
    <3> QED BY <3>1, <3>2
  <2>2. 1..Len(threads) \subseteq 1..Len(threads')
    BY <2>1
  <2> QED BY <1>4, <2>2 DEF JoinInv, JoinOK
<1>5. \/ \E t \in Thread : JoinReturn(t) \/ JoinEnter(t)
      \/ \E t \in Thread : BarrierBegin(t) \/ BarrierEnd(t)
      \/ UNCHANGED <<bar, joined>>
  BY StepKinds, OtherKinds DEF Next, family
<1> QED BY <1>1, <1>3, <1>4, <1>5

\* No threads wait in join() for each other, in a circle of any length
\* (VirtualMachine.cpp:99-102).  Of two threads in one, each waits for the
\* first that is not joined: for the same one, which would wait for itself.
THEOREM NoCircle == Spec => []NoJoinCycle
<1>1. IInv /\ JoinInv => NoJoinCycle
  <2> SUFFICES ASSUME IInv, JoinInv, NEW W \in (SUBSET Thread) \ {{}},
                      \A t \in W : \E u \in W : Waits(t, u)
               PROVE  FALSE
    BY DEF NoJoinCycle
  <2>1. PICK t \in W : TRUE
    OBVIOUS
  <2>2. PICK u \in W : Waits(t, u)
    BY <2>1
  <2>3. PICK v \in W : Waits(u, v)
    BY <2>2
  <2>4. ASSUME NEW w \in W PROVE w \notin joined
    <3>1. phase[w] = "live"
      BY <2>4 DEF Waits, AtStep, InWork
    <3> QED BY <3>1 DEF IInv, FamilyOK
  <2>5. ASSUME NEW w \in W, NEW x \in W, Waits(w, x)
        PROVE  bar[w].in /\ bar[w].j = x /\ x \in 1..Len(threads)
    <3>1. w \in Thread /\ bar[w].in /\ threads[bar[w].j] = x
      BY <2>5 DEF Waits, JoinsNow, Joinee
    <3>2. bar[w].j \in 1..Len(threads)
      BY <3>1 DEF JoinInv, JoinOK
    <3> QED BY <3>1, <3>2 DEF JoinInv, InOrder
  <2>6. bar[t].j = u /\ bar[u].j = v /\ bar[u].in /\ t \in Thread /\ u \in Thread
    BY <2>2, <2>3, <2>5
  <2>7. u \in 1..Len(threads) /\ v \in 1..Len(threads) /\ u \in Nat /\ v \in Nat
    <3>1. u \in 1..Len(threads) /\ v \in 1..Len(threads)
      BY <2>1, <2>2, <2>3, <2>5
    <3>2. Len(threads) \in Nat
      BY DEF IInv, TypeOK
    <3> QED BY <3>1, <3>2
  <2>8. ~(v < u)
    <3>1. v < u => v \in 1..(bar[t].j - 1)
      BY <2>6, <2>7
    <3> QED BY <2>4, <2>6, <3>1 DEF JoinInv, JoinOK
  <2>9. ~(u < v)
    <3>1. u < v => u \in 1..(bar[u].j - 1)
      BY <2>6, <2>7
    <3> QED BY <2>4, <2>6, <3>1 DEF JoinInv, JoinOK
  <2>10. u = v
    BY <2>7, <2>8, <2>9
  <2> QED BY <2>6, <2>10 DEF JoinInv, JoinOK
<1> QED BY <1>1, Invariant, JoinInit, JoinStep, PTL DEF Spec

-----------------------------------------------------------------------------
(* Pointers.                                                               *)

\* The pool names objects that exist.  A thread that has passed a  target  of
\* its work holds an object, and so does one whose last step was a  lookup.
PoolOK == used \in Nat /\ \A x \in Names : pool[x] \in 0..used
RegsOK(t) ==
    \A j \in 1..(pc[t].step - 1) :
        /\ Work(t)[j].kind = "target" => regs[t].ptr \in 1..used
        /\ j = pc[t].step - 1 /\ Work(t)[j].kind = "lookup" => regs[t].src \in 1..used
PointerInv == PoolOK /\ \A t \in Thread : RegsOK(t)

\* What the steps that dereference follow.
LEMMA FollowsItsLookup ==
    ASSUME IInv, NEW t \in Thread, InWork(t)
    PROVE  /\ pc[t].step \in Nat
           /\ Cur(t).kind = "copy" => /\ pc[t].step > 1
                                      /\ Work(t)[pc[t].step - 1].kind = "lookup"
           /\ Cur(t).kind \in {"load", "store"} =>
                \E j \in 1..(pc[t].step - 1) : Work(t)[j].kind = "target"
<1> DEFINE g == pc[t].seg  i == pc[t].itr  k == pc[t].step  s == Cur(t)
<1>1. /\ IsCode(code) /\ g \in 1..Len(code) /\ i \in 1..Len(code[g])
      /\ k \in 1..Len(code[g][i]) /\ s = code[g][i][k] /\ k \in Nat
  BY DEF IInv, PcOK, InCode, InWork, TypeOK, Work, Cur
<1>2. Work(t) = code[g][i]
  BY DEF Work
<1> HIDE DEF g, i, k, s
<1>3. /\ s.kind = "copy" => k > 1 /\ code[g][i][k - 1].kind = "lookup"
      /\ s.kind \in {"load", "store"} => \E j \in 1..(k - 1) : code[g][i][j].kind = "target"
  BY <1>1, StepShape
<1> QED BY <1>1, <1>2, <1>3 DEF k, s

\* The three ways an iterator and the registers of its thread change.
LEMMA RegsKept ==
    ASSUME NEW t \in Thread, RegsOK(t), code' = code, used \in Nat, used' \in Nat,
           used' >= used, pc'[t] = pc[t], regs'[t] = regs[t]
    PROVE  RegsOK(t)'
BY DEF RegsOK, Work

LEMMA RegsFresh ==
    ASSUME NEW t \in Thread, pc'[t].step = 1
    PROVE  RegsOK(t)'
<1>1. 1..(pc'[t].step - 1) = {}
  OBVIOUS
<1> QED BY <1>1 DEF RegsOK

LEMMA RegsGoOn ==
    ASSUME IInv, NEW t \in Thread, InWork(t), GoOn(t), RegsOK(t), code' = code,
           used \in Nat, used' \in Nat, used' >= used,
           regs'[t].ptr = regs[t].ptr \/ regs'[t].ptr \in 1..used',
           Cur(t).kind = "target" => regs'[t].ptr \in 1..used',
           Cur(t).kind = "lookup" => regs'[t].src \in 1..used'
    PROVE  RegsOK(t)'
<1>1. pc \in [Thread -> [seg : Nat, itr : Nat, step : Nat]]
  BY DEF IInv, TypeOK
<1>2. CASE pc[t].step < Len(Work(t))
  <2>1. pc'[t] = [pc[t] EXCEPT !.step = pc[t].step + 1]
    BY <1>1, <1>2 DEF GoOn, NextStep
  <2>2. /\ pc'[t].step = pc[t].step + 1 /\ pc[t].step \in Nat
        /\ pc'[t].seg = pc[t].seg /\ pc'[t].itr = pc[t].itr
    BY <1>1, <2>1
  <2>3. Work(t)' = Work(t)
    BY <2>2 DEF Work
  <2>4. ASSUME NEW j \in 1..(pc'[t].step - 1)
        PROVE  /\ Work(t)[j].kind = "target" => regs'[t].ptr \in 1..used'
               /\ (j = pc'[t].step - 1 /\ Work(t)[j].kind = "lookup") => regs'[t].src \in 1..used'
    <3>1. CASE j = pc[t].step
      BY <3>1 DEF Cur
    <3>2. CASE j # pc[t].step
      <4>1. j \in 1..(pc[t].step - 1) /\ j # pc'[t].step - 1
        BY <2>2, <3>2
      <4> QED BY <4>1 DEF RegsOK
    <3> QED BY <3>1, <3>2
  <2> QED BY <2>3, <2>4 DEF RegsOK
<1>3. CASE ~(pc[t].step < Len(Work(t)))
  <2>1. pc'[t].step = 1
    BY <1>1, <1>3 DEF GoOn, NextWork
  <2> QED BY <2>1, RegsFresh
<1> QED BY <1>2, <1>3

LEMMA PointerInit == Init => PointerInv
<1> SUFFICES ASSUME Init PROVE PointerInv  OBVIOUS
<1>1. PoolOK
  BY DEF Init, PoolOK, Null
<1>2. ASSUME NEW t \in Thread PROVE RegsOK(t)
  <2>1. 1..(pc[t].step - 1) = {}
    BY DEF Init, Start
  <2> QED BY <2>1 DEF RegsOK
<1> QED BY <1>1, <1>2 DEF PointerInv

\* Objects are only added to the pool.
LEMMA PoolStep ==
    ASSUME IInv, PointerInv, NEW t \in Thread, ThreadStep(t)
    PROVE  PoolOK' /\ used' >= used
<1>1. used \in Nat /\ pool \in [Names -> Object]
  BY DEF PointerInv, PoolOK, IInv, TypeOK
<1>2. CASE Allocate(t)
  <2>1. /\ used' = used + 1 /\ pool' = [pool EXCEPT ![Cur(t).name] = used']
    BY <1>2 DEF Allocate
  <2>2. \A x \in Names : pool'[x] = pool[x] \/ pool'[x] = used'
    BY <1>1, <2>1
  <2> QED BY <1>1, <2>1, <2>2 DEF PointerInv, PoolOK
<1>3. CASE ~Allocate(t)
  <2>1. UNCHANGED <<used, pool>>
    BY <1>3 DEF ThreadStep, memory, Target, Lookup, Copy, Immediate, Load,
         Store, Jump, Nop, Finish, Lock, Unlock, Write, Report, Create, PushBack,
         BarrierBegin, JoinEnter, JoinReturn, BarrierEnd, FreePools, DeleteThreads
  <2> QED BY <2>1, <1>1 DEF PointerInv, PoolOK
<1> QED BY <1>2, <1>3

\* The registers of the thread that takes the step.
LEMMA OwnRegs ==
    ASSUME IInv, PointerInv, NEW t \in Thread, ThreadStep(t), ~Create(t)
    PROVE  RegsOK(t)'
<1>1. /\ PoolOK' /\ used' >= used /\ used \in Nat /\ used' \in Nat
      /\ RegsOK(t) /\ code' = code
  <2>1. code' = code
    BY DEF ThreadStep, Allocate, Target, Lookup, Copy, Immediate, Load,
         Store, Jump, Nop, Finish, Lock, Unlock, Write, Report, Create, PushBack,
         BarrierBegin, JoinEnter, JoinReturn, BarrierEnd, FreePools, DeleteThreads
  <2> QED BY <2>1, PoolStep DEF PointerInv, PoolOK
<1>2. /\ pc \in [Thread -> [seg : Nat, itr : Nat, step : Nat]]
      /\ regs \in [Thread -> Registers]
  BY DEF IInv, TypeOK, Registers
<1>3. CASE Target(t)
  <2>1. InWork(t) /\ Cur(t).kind = "target" /\ used' = used
    BY <1>3 DEF Target, AtStep, memory
  <2>2. pool[Cur(t).name] \in 0..used
    BY <2>1, CurTyped DEF Naming, PointerInv, PoolOK
  <2>3. CASE pool[Cur(t).name] # Null /\ regs' = [regs EXCEPT ![t].ptr = pool[Cur(t).name]]
             /\ GoOn(t)
    <3>1. regs'[t].ptr = pool[Cur(t).name] /\ pool[Cur(t).name] \in 1..used'
      BY <1>1, <1>2, <2>1, <2>2, <2>3 DEF Null
    <3> QED BY <1>1, <2>1, <2>3, <3>1, RegsGoOn
  <2>4. CASE UNCHANGED <<pc, regs>>
    BY <1>1, <2>4, RegsKept
  <2>5. CASE pc' = [pc EXCEPT ![t] = NextWork(pc[t])]
    BY <1>2, <2>5, RegsFresh DEF NextWork
  <2> QED BY <1>3, <2>3, <2>4, <2>5 DEF Target, Throw
<1>4. CASE Lookup(t)
  <2>1. InWork(t) /\ Cur(t).kind = "lookup" /\ used' = used
    BY <1>4 DEF Lookup, AtStep, memory
  <2>2. pool[Cur(t).name] \in 0..used
    BY <2>1, CurTyped DEF Naming, PointerInv, PoolOK
  <2>3. CASE pool[Cur(t).name] # Null /\ regs' = [regs EXCEPT ![t].src = pool[Cur(t).name]]
             /\ GoOn(t)
    <3>1. /\ regs'[t].src = pool[Cur(t).name] /\ pool[Cur(t).name] \in 1..used'
          /\ regs'[t].ptr = regs[t].ptr
      BY <1>1, <1>2, <2>1, <2>2, <2>3 DEF Null, Registers
    <3> QED BY <1>1, <2>1, <2>3, <3>1, RegsGoOn
  <2>4. CASE UNCHANGED <<pc, regs>>
    BY <1>1, <2>4, RegsKept
  <2> QED BY <1>4, <2>3, <2>4 DEF Lookup, Throw
<1>5. CASE Copy(t) \/ Immediate(t) \/ Load(t)
  <2>1. InWork(t) /\ Cur(t).kind \notin {"target", "lookup"} /\ GoOn(t)
    BY <1>5 DEF Copy, Immediate, Load, AtStep
  <2>2. regs'[t].ptr = regs[t].ptr
    BY <1>2, <1>5 DEF Copy, Immediate, Load, Operand, Registers
  <2> QED BY <1>1, <2>1, <2>2, RegsGoOn
<1>6. CASE Allocate(t) \/ Store(t) \/ Nop(t) \/ Lock(t) \/ Unlock(t) \/ Write(t)
           \/ PushBack(t) \/ BarrierEnd(t)
  <2>1. InWork(t) /\ Cur(t).kind \notin {"target", "lookup"} /\ GoOn(t) /\ regs' = regs
    BY <1>6 DEF Allocate, Store, Nop, Lock, Unlock, Write, PushBack, BarrierEnd, AtStep
  <2> QED BY <1>1, <2>1, RegsGoOn
<1>7. CASE Jump(t)
  <2>1. InWork(t) /\ Cur(t).kind \notin {"target", "lookup"} /\ regs' = regs
    BY <1>7 DEF Jump, AtStep
  <2>2. GoOn(t) \/ pc' = [pc EXCEPT ![t] = Landing(Cur(t).at[2])]
    BY <1>7 DEF Jump
  <2>3. CASE GoOn(t)
    BY <1>1, <2>1, <2>3, RegsGoOn
  <2>4. CASE pc' = [pc EXCEPT ![t] = Landing(Cur(t).at[2])]
    BY <1>2, <2>4, RegsFresh DEF Landing
  <2> QED BY <2>2, <2>3, <2>4
<1>8. CASE UNCHANGED <<pc, regs>>
  BY <1>1, <1>8, RegsKept
<1>9. UNCHANGED <<pc, regs>> \/ Target(t) \/ Lookup(t) \/ Copy(t) \/ Immediate(t) \/ Load(t)
      \/ Allocate(t) \/ Store(t) \/ Nop(t) \/ Lock(t) \/ Unlock(t) \/ Write(t)
      \/ PushBack(t) \/ BarrierEnd(t) \/ Jump(t)
  BY DEF ThreadStep, Finish, Report, BarrierBegin, JoinEnter, JoinReturn, FreePools,
         DeleteThreads
<1> QED BY <1>3, <1>4, <1>5, <1>6, <1>7, <1>8, <1>9

\* The registers of the others.
LEMMA OtherRegs ==
    ASSUME IInv, PointerInv, NEW t \in Thread, ThreadStep(t), NEW u \in Thread,
           u # t \/ Create(t)
    PROVE  RegsOK(u)'
<1>1. /\ used' >= used /\ used \in Nat /\ used' \in Nat /\ RegsOK(u) /\ code' = code
  <2>1. code' = code
    BY DEF ThreadStep, Allocate, Target, Lookup, Copy, Immediate, Load,
         Store, Jump, Nop, Finish, Lock, Unlock, Write, Report, Create, PushBack,
         BarrierBegin, JoinEnter, JoinReturn, BarrierEnd, FreePools, DeleteThreads
  <2> QED BY <2>1, PoolStep DEF PointerInv, PoolOK
<1>2. /\ pc \in [Thread -> [seg : Nat, itr : Nat, step : Nat]]
      /\ regs \in [Thread -> Registers]
  BY DEF IInv, TypeOK, Registers
<1>3. CASE Create(t)
  <2>1. PICK w \in Child : pc' = [pc EXCEPT ![w] = Start(Cur(t).at[1])] /\ regs' = regs
    BY <1>3 DEF Create
  <2>2. CASE u = w
    BY <1>2, <2>1, <2>2, Threads, RegsFresh DEF Start
  <2>3. CASE u # w
    BY <1>1, <1>2, <2>1, <2>3, RegsKept
  <2> QED BY <2>2, <2>3
<1>4. CASE ~Create(t)
  <2>1. pc'[u] = pc[u] /\ regs'[u] = regs[u]
    BY <1>2, <1>4 DEF ThreadStep, Allocate, Target, Lookup, Copy, Immediate, Load,
         Store, Jump, Nop, Finish, Lock, Unlock, Write, Report, PushBack,
         BarrierBegin, JoinEnter, JoinReturn, BarrierEnd, FreePools, DeleteThreads,
         GoOn, Throw, Operand
  <2> QED BY <1>1, <2>1, RegsKept
<1> QED BY <1>3, <1>4

LEMMA PointerStep == IInv /\ PointerInv /\ [Next]_vars => PointerInv'
<1> SUFFICES ASSUME IInv, PointerInv, [Next]_vars PROVE PointerInv'  OBVIOUS
<1>1. CASE \E t \in Thread : ThreadStep(t)
  <2>1. PICK t \in Thread : ThreadStep(t)
    BY <1>1
  <2>2. ASSUME NEW u \in Thread PROVE RegsOK(u)'
    BY <2>1, OwnRegs, OtherRegs
  <2> QED BY <2>1, <2>2, PoolStep DEF PointerInv
<1>2. CASE Crash \/ Halted \/ UNCHANGED vars
  <2>1. UNCHANGED <<code, pc, regs, pool, used>>
    BY <1>2 DEF Crash, Halted, vars, memory
  <2> QED BY <2>1 DEF PointerInv, PoolOK, RegsOK, Work
<1> QED BY <1>1, <1>2 DEF Next

\* A pointer is dereferenced only after the null check of its own lookup, and
\* to an object that exists (WorkMath.cpp:27-33, instruction_impl.cpp:36-40).
THEOREM NoNull == Spec => []NoNullDereference
<1>1. IInv /\ PointerInv => NoNullDereference
  <2> SUFFICES ASSUME IInv, PointerInv, NEW t \in Thread
               PROVE  /\ AtStep(t, "copy") => regs[t].src \in 1..used
                      /\ AtStep(t, "load") \/ AtStep(t, "store") => regs[t].ptr \in 1..used
    BY DEF NoNullDereference
  <2>1. RegsOK(t)
    BY DEF PointerInv
  <2>2. ASSUME AtStep(t, "copy") PROVE regs[t].src \in 1..used
    <3>1. /\ pc[t].step \in Nat /\ pc[t].step > 1 /\ Work(t)[pc[t].step - 1].kind = "lookup"
      BY <2>2, FollowsItsLookup DEF AtStep
    <3>2. pc[t].step - 1 \in 1..(pc[t].step - 1)
      BY <3>1
    <3> QED BY <2>1, <3>1, <3>2 DEF RegsOK
  <2>3. ASSUME AtStep(t, "load") \/ AtStep(t, "store") PROVE regs[t].ptr \in 1..used
    <3>1. PICK j \in 1..(pc[t].step - 1) : Work(t)[j].kind = "target"
      BY <2>3, FollowsItsLookup DEF AtStep
    <3> QED BY <2>1, <3>1 DEF RegsOK
  <2> QED BY <2>2, <2>3
<1> QED BY <1>1, Invariant, PointerInit, PointerStep, PTL DEF Spec

-----------------------------------------------------------------------------
(* Iterators.                                                              *)

\* The only ways an iterator moves: forward in its work, to the next work, to
\* a work of the main program, or to the first work of a thread that starts.
Moves(t, u) ==
    \/ pc'[u] = pc[u]
    \/ u = t /\ InWork(t) /\ pc[t].step < Len(Work(t)) /\ pc'[t] = NextStep(pc[t])
    \/ u = t /\ InWork(t) /\ pc'[t] = NextWork(pc[t])
    \/ u = t /\ u = Main /\ pc'[u].seg = 1 /\ pc'[u].step = 1
    \/ u \in Child /\ phase[u] = "unborn" /\ phase'[u] = "live" /\ pc'[u].step = 1

LEMMA StepMoves ==
    ASSUME IInv, NEW t \in Thread, ThreadStep(t), NEW u \in Thread
    PROVE  Moves(t, u)
<1>1. pc \in [Thread -> [seg : Nat, itr : Nat, step : Nat]] /\ phase \in [Thread -> Phases]
  BY DEF IInv, TypeOK
<1>2. ASSUME InWork(t), GoOn(t) PROVE Moves(t, u)
  BY <1>1, <1>2 DEF GoOn, Moves
<1>3. CASE Create(t)
  <2>1. PICK w \in Child : /\ phase[w] = "unborn" /\ phase' = [phase EXCEPT ![w] = "live"]
                           /\ pc' = [pc EXCEPT ![w] = Start(Cur(t).at[1])]
    BY <1>3 DEF Create
  <2>2. CASE u = w
    BY <1>1, <2>1, <2>2, Threads DEF Moves, Start
  <2>3. CASE u # w
    BY <1>1, <2>1, <2>3 DEF Moves
  <2> QED BY <2>2, <2>3
<1>4. CASE Jump(t)
  <2>1. InWork(t) /\ Cur(t).kind = "jump"
    BY <1>4 DEF Jump, AtStep
  <2>2. CASE GoOn(t)
    BY <1>2, <2>1, <2>2
  <2>3. CASE ~GoOn(t)
    <3>1. pc' = [pc EXCEPT ![t] = Landing(Cur(t).at[2])] /\ Cur(t).at[1] # 0
      BY <1>4, <2>3 DEF Jump
    <3>2. pc[t].seg = 1 /\ phase[t] = "live"
      BY <2>1, <3>1, CurTyped DEF InWork
    <3>3. t = Main
      BY <3>2, Threads DEF IInv, PcOK
    <3>4. CASE u = t
      BY <1>1, <3>1, <3>3, <3>4 DEF Moves, Landing
    <3>5. CASE u # t
      BY <1>1, <3>1, <3>5 DEF Moves
    <3> QED BY <3>4, <3>5
  <2> QED BY <2>2, <2>3
<1>5. CASE Target(t)
  <2>1. InWork(t)
    BY <1>5 DEF Target, AtStep
  <2>2. GoOn(t) \/ pc' = pc \/ pc' = [pc EXCEPT ![t] = NextWork(pc[t])]
    BY <1>5 DEF Target, Throw
  <2> QED BY <1>1, <1>2, <2>1, <2>2 DEF Moves
<1>6. CASE ~Create(t) /\ ~Jump(t) /\ ~Target(t)
  <2>1. pc' = pc \/ (InWork(t) /\ GoOn(t))
    BY <1>6 DEF ThreadStep, AtStep, Allocate, Lookup, Throw, Copy, Immediate, Load, Store, Nop,
       Finish, Lock, Unlock, Write, Report, PushBack, BarrierBegin, JoinEnter, JoinReturn,
       BarrierEnd, FreePools, DeleteThreads
  <2> QED BY <1>2, <2>1 DEF Moves
<1> QED BY <1>3, <1>4, <1>5, <1>6

\* Every thread that was started stays started, in the segment it runs.
LEMMA ChildForward ==
    ASSUME IInv, NEW t \in Thread, ThreadStep(t), NEW u \in Child, phase[u] # "unborn"
    PROVE  /\ phase'[u] # "unborn" /\ pc'[u].seg = pc[u].seg
           /\ \/ pc'[u].itr = pc[u].itr + 1
              \/ pc'[u].itr = pc[u].itr /\ pc'[u].step >= pc[u].step
<1>1. pc \in [Thread -> [seg : Nat, itr : Nat, step : Nat]] /\ phase \in [Thread -> Phases]
  BY DEF IInv, TypeOK
<1>2. u \in Thread /\ u # Main
  BY Threads
<1>3. Moves(t, u)
  BY <1>2, StepMoves
<1>4. phase'[u] # "unborn"
  BY <1>1, <1>2 DEF ThreadStep, Allocate, Target, Throw, Lookup, Copy,
       Immediate, Load, Store, Jump, Nop, Finish, Lock, Unlock, Write, Report, Create, PushBack,
       BarrierBegin, JoinEnter, JoinReturn, BarrierEnd, FreePools, DeleteThreads
<1> QED BY <1>1, <1>2, <1>3, <1>4 DEF Moves, NextStep, NextWork

-----------------------------------------------------------------------------
(* OUT.                                                                    *)

\* A thread is in an OUT work from its lock to its unlock.
IsOut(g, i) == g \in 1..Len(code) /\ i \in 1..Len(code[g]) /\ Writes(code[g][i])
InOut(t) == IsOut(pc[t].seg, pc[t].itr) /\ pc[t].step > 1
Place(t) == <<pc[t].seg, pc[t].itr>>

OneInOut ==
    /\ \A t \in Thread : InOut(t) => Place(t) \in locked
    /\ \A t, u \in Thread : InOut(t) /\ InOut(u) /\ Place(t) = Place(u) => t = u

\* Where the writer of a chunk is by now: the main thread anywhere, a child
\* still in that OUT, or past it.
ChunkOK(c) ==
    \/ c.by = Main /\ c.seg = 1
    \/ /\ c.by \in Child /\ phase[c.by] # "unborn" /\ c.seg # 1 /\ pc[c.by].seg = c.seg
       /\ c.itr < pc[c.by].itr \/ (c.itr = pc[c.by].itr /\ InOut(c.by))

\* A thread after whose chunk another one has written is past that OUT.
HandedOn ==
    \A i, j \in 1..Len(out) :
        i < j /\ SameOut(out[i], out[j]) /\ out[i].by # out[j].by
            => out[i].itr < pc[out[i].by].itr

OutInv == OneInOut /\ (\A k \in 1..Len(out) : ChunkOK(out[k])) /\ HandedOn /\ OutNotInterleaved

\* The shape of an OUT work, and of any other.
LEMMA MutexShape ==
    ASSUME IsCode(code), NEW g \in 1..Len(code), NEW i \in 1..Len(code[g])
    PROVE  IF Writes(code[g][i]) THEN OwnMutex(code[g][i], <<g, i>>)
           ELSE OthersMutex(code, code[g][i])
BY DEF IsCode

LEMMA AtOut ==
    ASSUME IInv, NEW t \in Thread, InWork(t)
    PROVE  LET out_work == IsOut(pc[t].seg, pc[t].itr)
           IN /\ pc[t].step \in 1..Len(Work(t)) /\ Len(Work(t)) \in Nat
              /\ Cur(t).kind = "write" => out_work
              /\ out_work =>
                   /\ pc[t].step = 1 <=> Cur(t).kind = "lock"
                   /\ pc[t].step = Len(Work(t)) <=> Cur(t).kind = "unlock"
                   /\ Cur(t).kind \in {"lock", "unlock"} => Cur(t).at = Place(t)
                   /\ Cur(t).kind \in {"lock", "unlock", "lookup", "copy", "imm", "write"}
              /\ ~out_work /\ Cur(t).kind \in {"lock", "unlock"} =>
                   \A g, i : IsOut(g, i) => Cur(t).at # <<g, i>>
<1> DEFINE g == pc[t].seg  i == pc[t].itr  k == pc[t].step  s == Cur(t)
<1>1. /\ IsCode(code) /\ g \in 1..Len(code) /\ i \in 1..Len(code[g])
      /\ k \in 1..Len(code[g][i]) /\ s = code[g][i][k] /\ k \in Nat
  BY DEF IInv, PcOK, InCode, InWork, TypeOK, Work, Cur
<1>2. Work(t) = code[g][i] /\ Place(t) = <<g, i>>
  BY DEF Work, Place
<1> HIDE DEF g, i, k, s
<1>3. code[g][i] \in Seq(Step) /\ Len(code[g][i]) \in Nat \ {0}
  BY <1>1, WorkShape
<1>4. IF Writes(code[g][i]) THEN OwnMutex(code[g][i], <<g, i>>) ELSE OthersMutex(code, code[g][i])
  BY <1>1, MutexShape
<1>5. s.kind = "write" => IsOut(g, i)
  BY <1>1 DEF IsOut, Writes
<1>6. ASSUME IsOut(g, i)
      PROVE  /\ k = 1 <=> s.kind = "lock"
             /\ k = Len(code[g][i]) <=> s.kind = "unlock"
             /\ s.kind \in {"lock", "unlock"} => s.at = <<g, i>>
             /\ s.kind \in {"lock", "unlock", "lookup", "copy", "imm", "write"}
  <2>1. OwnMutex(code[g][i], <<g, i>>)
    BY <1>4, <1>6 DEF IsOut
  <2>2. k = 1 \/ k = Len(code[g][i]) \/ k \in 2..(Len(code[g][i]) - 1)
    BY <1>1, <1>3
  <2> QED BY <1>1, <1>3, <2>1, <2>2 DEF OwnMutex
<1>7. ASSUME ~IsOut(g, i), s.kind \in {"lock", "unlock"}, NEW h, NEW j, IsOut(h, j)
      PROVE  s.at # <<h, j>>
  BY <1>1, <1>4, <1>7 DEF IsOut, OthersMutex
<1> QED BY <1>1, <1>2, <1>3, <1>5, <1>6, <1>7 DEF g, i, k, s

\* A thread enters an OUT only by locking the mutex of that OUT.
LEMMA EntersByLock ==
    ASSUME IInv, NEW t \in Thread, ThreadStep(t), NEW u \in Thread, InOut(u)'
    PROVE  /\ Place(u)' = Place(u)
           /\ \/ InOut(u)
              \/ u = t /\ Lock(t) /\ Cur(t).at = Place(t)
<1>1. /\ pc \in [Thread -> [seg : Nat, itr : Nat, step : Nat]] /\ code' = code
  BY DEF IInv, TypeOK, ThreadStep, Allocate, Target, Lookup, Copy, Immediate, Load,
         Store, Jump, Nop, Finish, Lock, Unlock, Write, Report, Create, PushBack,
         BarrierBegin, JoinEnter, JoinReturn, BarrierEnd, FreePools, DeleteThreads
<1>2. \A g, i : IsOut(g, i)' = IsOut(g, i)
  BY <1>1 DEF IsOut
<1>3. pc'[u].step > 1 /\ IsOut(pc'[u].seg, pc'[u].itr)
  BY <1>1 DEF InOut, IsOut
<1>4. Moves(t, u)
  BY StepMoves
<1>5. CASE pc'[u] = pc[u]
  BY <1>3, <1>5 DEF InOut, Place
<1>6. CASE u = t /\ InWork(t) /\ pc[t].step < Len(Work(t)) /\ pc'[t] = NextStep(pc[t])
  <2>1. /\ pc'[t].seg = pc[t].seg /\ pc'[t].itr = pc[t].itr /\ pc[t].step \in Nat
        /\ pc'[t].step = pc[t].step + 1
    BY <1>1, <1>6 DEF NextStep
  <2>2. IsOut(pc[t].seg, pc[t].itr) /\ Place(t)' = Place(t)
    BY <1>3, <1>6, <2>1 DEF Place
  <2>3. ASSUME ~InOut(t) PROVE Lock(t) /\ Cur(t).at = Place(t)
    <3>1. pc[t].step = 1
      BY <2>1, <2>2, <2>3, <1>6, AtOut DEF InOut
    <3>2. Cur(t).kind = "lock" /\ Cur(t).at = Place(t)
      BY <1>6, <2>2, <3>1, AtOut
    <3>3. phase[t] = "live" /\ pc' # pc
      BY <1>6, <2>1 DEF InWork
    <3>4. Lock(t)
      BY <3>2, <3>3 DEF ThreadStep, AtStep, AtJoin, Allocate, Target, Lookup, Copy, Immediate, Load,
         Store, Jump, Nop, Finish, Unlock, Write, Report, Create, PushBack,
         BarrierBegin, JoinEnter, JoinReturn, BarrierEnd, FreePools, DeleteThreads
    <3> QED BY <3>2, <3>4
  <2> QED BY <1>6, <2>2, <2>3
<1>7. CASE pc'[u].step = 1
  BY <1>3, <1>7
<1> QED BY <1>3, <1>4, <1>5, <1>6, <1>7 DEF Moves, NextWork

\* No unlock takes the mutex of an OUT from a thread that stays in it.
LEMMA StaysLocked ==
    ASSUME IInv, OneInOut, NEW t \in Thread, ThreadStep(t), NEW u \in Thread, InOut(u), InOut(u)'
    PROVE  Place(u) \in locked'
<1>1. Place(u) \in locked /\ \A v \in Thread : InOut(v) /\ Place(v) = Place(u) => v = u
  BY DEF OneInOut
<1>2. CASE Unlock(t)
  <2>1. InWork(t) /\ Cur(t).kind = "unlock" /\ locked' = locked \ {Cur(t).at} /\ GoOn(t)
    BY <1>2 DEF Unlock, AtStep
  <2>2. pc \in [Thread -> [seg : Nat, itr : Nat, step : Nat]] /\ code' = code
    BY <1>2 DEF IInv, TypeOK, Unlock
  <2>3. CASE IsOut(pc[t].seg, pc[t].itr)
    <3>1. pc[t].step = Len(Work(t)) /\ pc[t].step # 1 /\ Cur(t).at = Place(t)
          /\ pc[t].step \in 1..Len(Work(t)) /\ Len(Work(t)) \in Nat
      BY <2>1, <2>3, AtOut
    <3>2. InOut(t)
      <4>1. pc[t].step \in Nat
        BY <2>2
      <4>2. pc[t].step # 0 /\ pc[t].step # 1
        <5> HIDE DEF Work
        <5> QED BY <3>1
      <4>3. pc[t].step > 1
        BY <4>1, <4>2
      <4> QED BY <2>3, <4>3 DEF InOut
    <3>3. pc'[t].step = 1
      BY <2>1, <2>2, <3>1 DEF GoOn, NextWork
    <3>4. t # u
      BY <3>3 DEF InOut
    <3> QED BY <1>1, <2>1, <3>1, <3>2, <3>4
  <2>4. CASE ~IsOut(pc[t].seg, pc[t].itr)
    <3>1. \A g, i : IsOut(g, i) => Cur(t).at # <<g, i>>
      BY <2>1, <2>4, AtOut
    <3>2. Cur(t).at # Place(u)
      BY <3>1 DEF InOut, Place
    <3> QED BY <1>1, <2>1, <3>2
  <2> QED BY <2>3, <2>4
<1>3. CASE ~Unlock(t)
  <2>1. locked \subseteq locked'
    BY <1>3 DEF ThreadStep, mutexes, Allocate, Target, Lookup, Copy, Immediate, Load,
         Store, Jump, Nop, Finish, Lock, Write, Report, Create, PushBack,
         BarrierBegin, JoinEnter, JoinReturn, BarrierEnd, FreePools, DeleteThreads
  <2> QED BY <1>1, <2>1
<1> QED BY <1>2, <1>3

LEMMA OneInOutStep ==
    ASSUME IInv, OneInOut, NEW t \in Thread, ThreadStep(t)
    PROVE  OneInOut'
<1>1. ASSUME NEW u \in Thread, InOut(u)' PROVE Place(u)' \in locked'
  <2>1. CASE InOut(u)
    BY <1>1, <2>1, EntersByLock, StaysLocked
  <2>2. CASE ~InOut(u)
    <3>1. Lock(t) /\ Cur(t).at = Place(u)'
      BY <1>1, <2>2, EntersByLock
    <3> QED BY <3>1 DEF Lock
  <2> QED BY <2>1, <2>2
<1>2. ASSUME NEW u \in Thread, NEW v \in Thread, InOut(u)', InOut(v)', Place(u)' = Place(v)'
      PROVE  u = v
  <2>1. Place(u) = Place(v)
    BY <1>2, EntersByLock
  <2>2. ASSUME NEW a \in Thread, NEW b \in Thread, InOut(a), ~InOut(b), InOut(b)', Place(a) = Place(b)
        PROVE  FALSE
    <3>1. b = t /\ Lock(t) /\ Cur(t).at = Place(b)
      BY <2>2, EntersByLock
    <3> QED BY <2>2, <3>1 DEF Lock, OneInOut
  <2>3. CASE InOut(u) /\ InOut(v)
    BY <2>1, <2>3 DEF OneInOut
  <2>4. CASE ~InOut(u) /\ ~InOut(v)
    BY <1>2, <2>4, EntersByLock
  <2> QED BY <1>2, <2>1, <2>2, <2>3, <2>4
<1> QED BY <1>1, <1>2 DEF OneInOut

\* What was written by a child is still before its iterator, or at it.
LEMMA ChunkKept ==
    ASSUME IInv, NEW t \in Thread, ThreadStep(t), NEW c \in Chunk, ChunkOK(c)
    PROVE  /\ ChunkOK(c)'
           /\ c.by \in Child => pc[c.by].itr <= pc'[c.by].itr
<1>1. CASE c.by = Main
  BY <1>1, Threads DEF ChunkOK
<1>2. CASE c.by \in Child
  <2> DEFINE u == c.by
  <2>1. /\ pc \in [Thread -> [seg : Nat, itr : Nat, step : Nat]] /\ code' = code
        /\ pc' \in [Thread -> [seg : Nat, itr : Nat, step : Nat]]
    <3>1. IInv'
      BY NextIInv DEF Next
    <3> QED BY <3>1, StepKinds DEF IInv, TypeOK
  <2>2. /\ u \in Thread /\ u # Main /\ phase[u] # "unborn" /\ c.seg # 1 /\ pc[u].seg = c.seg
        /\ c.itr < pc[u].itr \/ (c.itr = pc[u].itr /\ InOut(u))
    BY <1>2, Threads DEF ChunkOK
  <2>3. /\ phase'[u] # "unborn" /\ pc'[u].seg = pc[u].seg
        /\ \/ pc'[u].itr = pc[u].itr + 1
           \/ pc'[u].itr = pc[u].itr /\ pc'[u].step >= pc[u].step
    BY <1>2, <2>2, ChildForward
  <2>4. c.itr \in Nat /\ pc[u].itr \in Nat /\ pc'[u].itr \in Nat /\ pc[u].step \in Nat
        /\ pc'[u].step \in Nat
    BY <2>1, <2>2 DEF Chunk
  <2>5. pc'[u].itr = pc[u].itr /\ InOut(u) => InOut(u)'
    <3>1. \A g, i : IsOut(g, i)' = IsOut(g, i)
      BY <2>1 DEF IsOut
    <3>2. pc'[u].itr = pc[u].itr => pc'[u].step >= pc[u].step
      BY <2>3, <2>4
    <3> QED BY <2>3, <2>4, <3>1, <3>2 DEF InOut
  <2> HIDE DEF u
  <2>6. c.itr < pc'[u].itr \/ (c.itr = pc'[u].itr /\ InOut(u)')
    BY <2>2, <2>3, <2>4, <2>5
  <2>7. /\ u \in Child /\ c.seg # 1 /\ phase'[u] # "unborn" /\ pc'[u].seg = c.seg
        /\ pc[u].itr <= pc'[u].itr
    BY <1>2, <2>2, <2>3, <2>4 DEF u
  <2> QED BY <2>6, <2>7 DEF ChunkOK, u
<1> QED BY <1>1, <1>2 DEF ChunkOK

\* The output grows by one chunk at a time, of the thread that takes the step:
\* an error message of the main thread, or an operand of the OUT it is in.
LEMMA OutGrows ==
    ASSUME IInv, NEW t \in Thread, ThreadStep(t), out' # out
    PROVE  \E c \in Chunk :
             /\ out' = Append(out, c) /\ c.by = t
             /\ \/ t = Main /\ c.seg = 1
                \/ InOut(t) /\ InOut(t)' /\ Place(t) = <<c.seg, c.itr>> /\ pc'[t].itr = c.itr
                   /\ pc'[t].seg = c.seg /\ phase[t] = "live" /\ phase'[t] = "live"
<1>1. /\ pc \in [Thread -> [seg : Nat, itr : Nat, step : Nat]] /\ phase \in [Thread -> Phases]
      /\ regs \in [Thread -> Registers]
  BY DEF IInv, TypeOK, Registers
<1>2. Write(t) \/ Report(t)
  BY DEF ThreadStep, Allocate, Target, Lookup, Copy, Immediate, Load,
         Store, Jump, Nop, Finish, Lock, Unlock, Create, PushBack,
         BarrierBegin, JoinEnter, JoinReturn, BarrierEnd, FreePools, DeleteThreads
<1>3. CASE Write(t)
  <2> DEFINE c == [by |-> t, seg |-> pc[t].seg, itr |-> pc[t].itr,
                   step |-> pc[t].step, val |-> regs[t].last]
  <2>1. /\ InWork(t) /\ Cur(t).kind = "write" /\ GoOn(t) /\ UNCHANGED <<code, phase>>
        /\ out' = Append(out, c)
    BY <1>3 DEF Write, AtStep, Emit
  <2>2. c \in Chunk
    BY <1>1 DEF Chunk, Registers
  <2>3. /\ IsOut(pc[t].seg, pc[t].itr) /\ pc[t].step # 1 /\ pc[t].step # Len(Work(t))
        /\ pc[t].step \in 1..Len(Work(t)) /\ Len(Work(t)) \in Nat
    BY <2>1, AtOut
  <2>4. pc'[t] = NextStep(pc[t]) /\ pc[t].step > 1
    BY <1>1, <2>1, <2>3 DEF GoOn
  <2>5. /\ pc'[t].seg = pc[t].seg /\ pc'[t].itr = pc[t].itr /\ pc'[t].step > 1
    BY <1>1, <2>4 DEF NextStep
  <2>6. InOut(t) /\ InOut(t)'
    BY <2>1, <2>3, <2>4, <2>5 DEF InOut, IsOut
  <2> QED BY <2>1, <2>2, <2>5, <2>6 DEF Place, InWork
<1>4. CASE Report(t)
  <2> DEFINE c == [by |-> t, seg |-> 1, itr |-> 0, step |-> 0, val |-> 0]
  <2>1. t = Main
    BY <1>4, Threads DEF Report, IInv, PhaseOK
  <2>2. 0 \in Word
    BY HalfAssumption DEF Word
  <2>3. c \in Chunk /\ out' = Append(out, c)
    BY <1>4, <2>2 DEF Report, Emit, Chunk
  <2> QED BY <2>1, <2>3
<1> QED BY <1>2, <1>3, <1>4

LEMMA ChunksOfChildren ==
    ASSUME NEW c \in Chunk, NEW d \in Chunk, ChunkOK(c), ChunkOK(d),
           SameOut(c, d), c.by # d.by
    PROVE  c.by \in Child /\ d.by \in Child
BY DEF ChunkOK, SameOut

LEMMA OutInit == Init => OutInv
BY DEF Init, OutInv, OneInOut, InOut, Start, HandedOn, OutNotInterleaved

\* What was written stays as it was; how far its writers are.
LEMMA ChunksKept ==
    ASSUME IInv, OutInv, NEW t \in Thread, ThreadStep(t)
    PROVE  \A k \in 1..Len(out) :
             /\ out[k] \in Chunk /\ ChunkOK(out[k])
             /\ \A c \in Chunk : c = out[k] => ChunkOK(c)'
             /\ out[k].by \in Child => pc[out[k].by].itr <= pc'[out[k].by].itr
<1>1. out \in Seq(Chunk) /\ \A k \in 1..Len(out) : ChunkOK(out[k])
  BY DEF OutInv, IInv, TypeOK, Chunk
<1>2. \A k \in 1..Len(out) : out[k] \in Chunk
  BY <1>1
<1> QED BY <1>1, <1>2, ChunkKept

LEMMA StillPast ==
    ASSUME IInv, OutInv, NEW t \in Thread, ThreadStep(t),
           NEW i \in 1..Len(out), NEW c \in Chunk, ChunkOK(c), SameOut(out[i], c),
           out[i].by # c.by, out[i].itr < pc[out[i].by].itr
    PROVE  out[i].itr < pc'[out[i].by].itr
<1>1. /\ out[i] \in Chunk /\ ChunkOK(out[i])
      /\ out[i].by \in Child => pc[out[i].by].itr <= pc'[out[i].by].itr
  BY ChunksKept
<1>2. out[i].by \in Child /\ out[i].itr \in Nat
  BY <1>1, ChunksOfChildren DEF Chunk
<1>3. IInv'
  BY NextIInv DEF Next
<1>4. pc[out[i].by].itr \in Nat /\ pc'[out[i].by].itr \in Nat
  BY <1>2, <1>3, Threads DEF IInv, TypeOK
<1> QED BY <1>1, <1>2, <1>4

\* A step that writes nothing.
LEMMA NothingWritten ==
    ASSUME IInv, OutInv, NEW t \in Thread, ThreadStep(t), out' = out
    PROVE  OutInv'
<1>1. OneInOut'
  BY OneInOutStep DEF OutInv
<1>2. ASSUME NEW k \in 1..Len(out) PROVE ChunkOK(out[k])'
  BY ChunksKept
<1>3. HandedOn'
  <2> SUFFICES ASSUME NEW i \in 1..Len(out), NEW j \in 1..Len(out), i < j,
                      SameOut(out[i], out[j]), out[i].by # out[j].by
               PROVE  out[i].itr < pc'[out[i].by].itr
    BY DEF HandedOn, SameOut
  <2>1. out[i].itr < pc[out[i].by].itr
    BY DEF OutInv, HandedOn
  <2> QED BY <2>1, ChunksKept, StillPast
<1>4. OutNotInterleaved'
  BY DEF OutInv, OutNotInterleaved, SameOut
<1> QED BY <1>1, <1>2, <1>3, <1>4 DEF OutInv

\* A step that writes a chunk: no other thread is in the OUT it belongs to.
LEMMA OneWritten ==
    ASSUME IInv, OutInv, NEW t \in Thread, ThreadStep(t), out' # out
    PROVE  OutInv'
<1>1. PICK c \in Chunk :
        /\ out' = Append(out, c) /\ c.by = t
        /\ \/ t = Main /\ c.seg = 1
           \/ InOut(t) /\ InOut(t)' /\ Place(t) = <<c.seg, c.itr>> /\ pc'[t].itr = c.itr
              /\ pc'[t].seg = c.seg /\ phase[t] = "live" /\ phase'[t] = "live"
  BY OutGrows
<1>2. /\ Len(out) \in Nat /\ Len(out') = Len(out) + 1
      /\ \A k \in 1..Len(out) : out'[k] = out[k]
      /\ out'[Len(out) + 1] = c
  <2>1. out \in Seq(Chunk)
    BY DEF IInv, TypeOK, Chunk
  <2> QED BY <1>1, <2>1
<1>3. \A k \in 1..Len(out') : k \in 1..Len(out) \/ k = Len(out) + 1
  BY <1>2
<1>4. OneInOut'
  BY OneInOutStep DEF OutInv
<1>5. ChunkOK(c) /\ ChunkOK(c)'
  <2> USE Threads
  <2>1. IInv'
    BY NextIInv DEF Next
  <2>2. CASE t = Main
    <3>1. pc[t].seg = 1
      BY <2>2 DEF IInv, PcOK
    <3>2. c.seg = 1
      BY <1>1, <2>2, <3>1 DEF Place
    <3> QED BY <1>1, <2>2, <3>2 DEF ChunkOK
  <2>3. CASE t \in Child
    <3>1. /\ InOut(t) /\ InOut(t)' /\ Place(t) = <<c.seg, c.itr>> /\ pc'[t].itr = c.itr
          /\ pc'[t].seg = c.seg /\ phase[t] = "live" /\ phase'[t] = "live"
      BY <1>1, <2>3, Threads
    <3>2. pc[t].seg # 1
      BY <2>3, <3>1 DEF IInv, PcOK
    <3>3. pc[t].seg = c.seg /\ pc[t].itr = c.itr
      BY <3>1 DEF Place
    <3> QED BY <1>1, <2>3, <3>1, <3>2, <3>3 DEF ChunkOK
  <2> QED BY <2>2, <2>3
<1>6. ASSUME NEW k \in 1..Len(out') PROVE ChunkOK(out[k])'
  <2>1. CASE k \in 1..Len(out)
    BY <1>2, <2>1, ChunksKept
  <2>2. CASE k = Len(out) + 1
    BY <1>2, <1>5, <2>2
  <2> QED BY <1>3, <2>1, <2>2
<1>7. ASSUME NEW i \in 1..Len(out), SameOut(out[i], c), out[i].by # t
      PROVE  c.itr = pc[t].itr /\ out[i].itr < pc[out[i].by].itr
  <2> DEFINE u == out[i].by
  <2>1. /\ out[i] \in Chunk /\ ChunkOK(out[i])
    BY ChunksKept
  <2>2. CASE t = Main /\ c.seg = 1
    BY <1>7, <2>1, <2>2, Threads DEF ChunkOK, SameOut
  <2>3. CASE InOut(t) /\ Place(t) = <<c.seg, c.itr>> /\ phase[t] = "live"
    <3>1. pc[t].seg = c.seg /\ pc[t].itr = c.itr
      BY <2>3 DEF Place
    <3>2. CASE u = Main
      <4>1. c.seg = 1
        BY <1>7, <2>1, <3>2, Threads DEF ChunkOK, SameOut
      <4>2. t \in Child /\ phase[t] # "unborn"
        BY <1>7, <2>3, <3>2, Threads
      <4> QED BY <3>1, <4>1, <4>2 DEF IInv, PcOK
    <3>3. CASE u \in Child
      <4>1. /\ pc[u].seg = c.seg
            /\ out[i].itr < pc[u].itr \/ (c.itr = pc[u].itr /\ InOut(u))
        BY <1>7, <2>1, <3>3, Threads DEF ChunkOK, SameOut
      <4>2. ASSUME c.itr = pc[u].itr, InOut(u) PROVE FALSE
        <5>1. Place(u) = Place(t)
          BY <3>1, <4>1, <4>2 DEF Place
        <5> QED BY <1>7, <2>3, <3>3, <4>2, <5>1, Threads DEF OutInv, OneInOut
      <4> QED BY <3>1, <4>1, <4>2
    <3> QED BY <2>1, <3>2, <3>3, Threads DEF Chunk
  <2> QED BY <1>1, <2>2, <2>3
<1>8. HandedOn'
  <2> SUFFICES ASSUME NEW i \in 1..Len(out'), NEW j \in 1..Len(out'), i < j,
                      SameOut(out'[i], out'[j]), out'[i].by # out'[j].by
               PROVE  out'[i].itr < pc'[out'[i].by].itr
    BY DEF HandedOn, SameOut
  <2>1. i \in 1..Len(out) /\ out'[i] = out[i]
    BY <1>2, <1>3
  <2>2. CASE j \in 1..Len(out)
    <3>1. out[i].itr < pc[out[i].by].itr
      BY <1>2, <2>1, <2>2 DEF OutInv, HandedOn
    <3> QED BY <1>2, <2>1, <2>2, <3>1, ChunksKept, StillPast
  <2>3. CASE j = Len(out) + 1
    <3>1. out[i].itr < pc[out[i].by].itr
      BY <1>1, <1>2, <1>7, <2>1, <2>3
    <3> QED BY <1>1, <1>2, <1>5, <2>1, <2>3, <3>1, StillPast
  <2> QED BY <1>3, <2>2, <2>3
<1>9. OutNotInterleaved'
  <2> SUFFICES ASSUME NEW i \in 1..Len(out'), NEW j \in 1..Len(out'), NEW k \in 1..Len(out'),
                      i < j, j < k, SameOut(out'[i], out'[j]), SameOut(out'[j], out'[k]),
                      out'[i].by = out'[k].by
               PROVE  out'[j].by = out'[i].by
    BY DEF OutNotInterleaved, SameOut
  <2>1. /\ i \in 1..Len(out) /\ out'[i] = out[i] /\ j \in 1..Len(out) /\ out'[j] = out[j]
    BY <1>2, <1>3
  <2>2. CASE k \in 1..Len(out)
    BY <1>2, <2>1, <2>2 DEF OutInv, OutNotInterleaved
  <2>3. CASE k = Len(out) + 1
    <3> SUFFICES ASSUME out[j].by # t PROVE FALSE
      BY <1>1, <1>2, <2>1, <2>3
    <3>1. out[i].itr < pc[t].itr
      BY <1>1, <1>2, <2>1, <2>3 DEF OutInv, HandedOn
    <3>2. SameOut(out[j], c) /\ SameOut(out[i], out[j])
      BY <1>2, <2>1, <2>3
    <3>3. c.itr = pc[t].itr
      BY <1>7, <2>1, <3>2
    <3> QED BY <3>1, <3>2, <3>3 DEF SameOut, Chunk
  <2> QED BY <1>3, <2>2, <2>3
<1> QED BY <1>4, <1>6, <1>8, <1>9 DEF OutInv

LEMMA OutStep == IInv /\ OutInv /\ [Next]_vars => OutInv'
<1> SUFFICES ASSUME IInv, OutInv, [Next]_vars PROVE OutInv'
  OBVIOUS
<1>1. ASSUME NEW t \in Thread, ThreadStep(t) PROVE OutInv'
  BY <1>1, NothingWritten, OneWritten
<1>2. CASE UNCHANGED <<code, phase, pc, locked, out>>
  <2>1. \A u \in Thread : InOut(u)' = InOut(u) /\ Place(u)' = Place(u)
    BY <1>2 DEF InOut, IsOut, Place
  <2>2. OneInOut'
    BY <1>2, <2>1 DEF OutInv, OneInOut
  <2>3. \A k \in 1..Len(out) : ChunkOK(out[k])' = ChunkOK(out[k])
    BY <1>2, <2>1, Threads DEF ChunkOK
  <2>4. HandedOn' /\ OutNotInterleaved'
    BY <1>2 DEF OutInv, HandedOn, OutNotInterleaved, SameOut
  <2> QED BY <1>2, <2>2, <2>3, <2>4 DEF OutInv
<1> QED BY <1>1, <1>2, OtherKinds DEF Next, mutexes

\* The operands of an OUT that one thread writes come out together, whatever
\* the others write by the same OUT (WorkOut.cpp:15-18).
THEOREM OutContiguous == Spec => []OutNotInterleaved
<1>1. OutInv => OutNotInterleaved
  BY DEF OutInv
<1> QED BY <1>1, Invariant, OutInit, OutStep, PTL DEF Spec

-----------------------------------------------------------------------------
(* A disciplined program: what the discipline of RunProperties buys at     *)
(* each step.                                                              *)

-----------------------------------------------------------------------------
(* The invariant.                                                          *)

InPool(x) == x \in Names /\ pool[x] # Null
Straight(j) == \A k \in Those(1, "jump") : j < k

\* The main program has thrown nothing and left its works only by their end;
\* no child is lost or in barrier().
Calm ==
    /\ phase[Main] \in {"live", "destroy", "freed", "ended"}
    /\ phase[Main] # "live" => pc[Main].itr > Len(code[1])
    /\ \A u \in Child : phase[u] # "wild" /\ bar[u] = Idle

\* The declarations no jump can skip are made in their order, and a thread
\* was started after those its block needs.
Passed(j, k) == j < pc[Main].itr \/ (j = pc[Main].itr /\ k < pc[Main].step)
DeclaredInOrder ==
    \A j \in MainWorks : Straight(j) =>
        \A k \in 1..Len(code[1][j]) :
            code[1][j][k].kind = "alloc" /\ Passed(j, k) => InPool(code[1][j][k].name)
Ready(u) ==
    \A k \in 1..Len(code[pc[u].seg]) : \A x \in NeededBy(pc[u].seg, k) : InPool(x)
BlocksReady == \A u \in Child : phase[u] # "unborn" => Ready(u)

\* Up to the BARRIER nothing is joined but what its loop has passed; after
\* it every thread is.
Stage(b) ==
    /\ pc[Main].itr <= b => joined \subseteq 1..(bar[Main].j - 1)
    /\ pc[Main].itr > b => \A i \in 1..Len(threads) : i \in joined
Staged ==
    /\ Those(1, "thread") = {} => threads = <<>> /\ th = None
    /\ \A b \in MainWorks : JoinsAt(b) => Stage(b)

Safe == status \in {"running", "done"} /\ ub \subseteq {"unlock"}

Kept == Calm /\ DeclaredInOrder /\ BlocksReady /\ Staged /\ Safe
DInv == Disciplined => Kept

-----------------------------------------------------------------------------
(* What the operators of the discipline say of a step.                     *)

LEMMA HasStep ==
    ASSUME NEW g, NEW i \in 1..Len(code[g]), NEW k \in 1..Len(code[g][i])
    PROVE  i \in Those(g, code[g][i][k].kind)
BY DEF Those, Has, StepsOf

LEMMA StepOfThose ==
    ASSUME NEW g, NEW kind, NEW i \in Those(g, kind)
    PROVE  i \in 1..Len(code[g]) /\ \E k \in 1..Len(code[g][i]) : code[g][i][k].kind = kind
BY DEF Those, Has, StepsOf

LEMMA NeededHere ==
    ASSUME NEW g, NEW i, NEW k \in 1..Len(code[g][i]),
           code[g][i][k].kind \in {"target", "lookup"}
    PROVE  code[g][i][k].name \in NeededBy(g, i)
BY DEF NeededBy, StepsOf

\* What is declared on every path to a work is declared by a work before it
\* that no jump precedes.
LEMMA DeclaredEarlier ==
    ASSUME NEW i, NEW x \in DeclaredAt(i)
    PROVE  \E j \in 1..(i - 1) :
             /\ Straight(j)
             /\ \E k \in 1..Len(code[1][j]) : code[1][j][k].kind = "alloc" /\ code[1][j][k].name = x
<1> DEFINE straight == {j \in 1..(i - 1) : \A k \in Those(1, "jump") : j < k}
<1>1. PICK s \in UNION {StepsOf(1, j) : j \in straight} : s.kind = "alloc" /\ s.name = x
  BY DEF DeclaredAt
<1>2. PICK j \in straight : s \in StepsOf(1, j)
  BY <1>1
<1>3. PICK k \in 1..Len(code[1][j]) : s = code[1][j][k]
  BY <1>2 DEF StepsOf
<1> QED BY <1>1, <1>2, <1>3 DEF Straight

\* The work and the step a thread is at.
LEMMA AtStepOf ==
    ASSUME IInv, NEW t \in Thread, InWork(t)
    PROVE  LET g == pc[t].seg  i == pc[t].itr  k == pc[t].step
           IN /\ g \in 1..Len(code) /\ i \in 1..Len(code[g]) /\ k \in 1..Len(code[g][i])
              /\ Cur(t) = code[g][i][k] /\ Work(t) = code[g][i]
              /\ i \in Those(g, Cur(t).kind)
              /\ t = Main => g = 1
              /\ t \in Child => g \in Blocks
<1>1. pc[t] \in [seg : Nat, itr : Nat, step : Nat] /\ InCode(pc[t]) /\ phase[t] = "live"
      /\ pc[t].itr <= Len(code[pc[t].seg])
  BY DEF IInv, TypeOK, PcOK, InWork
<1>2. t = Main => pc[t].seg = 1
  BY DEF IInv, PcOK
<1>3. t \in Child => pc[t].seg # 1
  BY <1>1 DEF IInv, PcOK
<1>4. code \in Seq(Seq(Seq(Step)))
  BY DEF IInv, TypeOK, IsCode
<1>5. /\ pc[t].seg \in 1..Len(code) /\ pc[t].itr \in 1..Len(code[pc[t].seg])
      /\ pc[t].step \in 1..Len(code[pc[t].seg][pc[t].itr])
  <2>1. code[pc[t].seg] \in Seq(Seq(Step))
    BY <1>1, <1>4 DEF InCode
  <2> QED BY <1>1, <2>1 DEF InCode
<1>6. /\ Cur(t) = code[pc[t].seg][pc[t].itr][pc[t].step]
      /\ Work(t) = code[pc[t].seg][pc[t].itr]
  BY DEF Cur, Work
<1>7. pc[t].itr \in Those(pc[t].seg, Cur(t).kind)
  BY <1>5, <1>6, HasStep
<1>8. t \in Child => pc[t].seg \in Blocks
  BY <1>3, <1>5 DEF Blocks
<1> QED BY <1>2, <1>5, <1>6, <1>7, <1>8

-----------------------------------------------------------------------------
(* What no thread of a disciplined program does.                           *)

\* Every variable a thread looks up is in the pool.
LEMMA NotNull ==
    ASSUME IInv, Disciplined, Kept, NEW t \in Thread, InWork(t),
           Cur(t).kind \in {"target", "lookup"}
    PROVE  pool[Cur(t).name] # Null
<1> DEFINE g == pc[t].seg  i == pc[t].itr
<1>1. Cur(t).name \in NeededBy(g, i) /\ i \in 1..Len(code[g])
  BY AtStepOf, NeededHere
<1>2. CASE t = Main
  <2>1. g = 1 /\ i \in MainWorks
    BY <1>1, <1>2, AtStepOf DEF MainWorks
  <2>2. Cur(t).name \in DeclaredAt(i)
    BY <1>1, <2>1 DEF Disciplined, Declares
  <2>3. PICK j \in 1..(i - 1) :
          /\ Straight(j)
          /\ \E k \in 1..Len(code[1][j]) : /\ code[1][j][k].kind = "alloc"
                                          /\ code[1][j][k].name = Cur(t).name
    BY <2>2, DeclaredEarlier
  <2>4. i \in Nat /\ j \in 1..Len(code[1]) /\ j < i
    BY <1>1, <2>1, <2>3 DEF IInv, TypeOK
  <2> QED BY <1>2, <2>3, <2>4 DEF Kept, DeclaredInOrder, Passed, InPool, MainWorks
<1>3. CASE t \in Child
  <2>1. phase[t] # "unborn"
    BY DEF InWork
  <2> QED BY <1>1, <1>3, <2>1 DEF Kept, BlocksReady, Ready, InPool
<1> QED BY <1>2, <1>3, Threads

LEMMA PlainChild ==
    ASSUME IInv, Disciplined, NEW u \in Child, InWork(u)
    PROVE  Cur(u).kind \notin {"jump", "barrier", "thread"}
<1>1. u \in Thread /\ pc[u].seg \in Blocks /\ pc[u].itr \in Those(pc[u].seg, Cur(u).kind)
  BY AtStepOf, Threads
<1>2. pc[u].seg # 1
  BY <1>1 DEF Blocks
<1> QED BY <1>1, <1>2, CurTyped DEF Disciplined, PlainBlocks

\* A barrier() is a work of its own.
LEMMA BarrierAlone ==
    ASSUME IInv, NEW b \in MainWorks, JoinsAt(b), InWork(Main)
    PROVE  /\ pc[Main].itr = b <=> Cur(Main).kind = "barrier"
           /\ Cur(Main).kind = "thread" => pc[Main].itr < b
<1>1. /\ pc[Main].itr \in Those(1, Cur(Main).kind) /\ pc[Main].itr \in 1..Len(code[1])
      /\ pc[Main].step \in 1..Len(code[1][pc[Main].itr])
      /\ Cur(Main) = code[1][pc[Main].itr][pc[Main].step]
  BY AtStepOf, Threads
<1>2. ASSUME pc[Main].itr = b PROVE Cur(Main).kind = "barrier"
  <2>1. b \in Those(1, "barrier")
    BY DEF JoinsAt
  <2>2. PICK k \in 1..Len(code[1][b]) : code[1][b][k].kind = "barrier"
    BY <2>1, StepOfThose
  <2>3. IsCode(code) /\ 1 \in 1..Len(code)
    <3>1. IsCode(code)
      BY DEF IInv, TypeOK
    <3>2. code \in Seq(Seq(Seq(Step))) /\ Len(code) > 0
      BY <3>1 DEF IsCode
    <3> QED BY <3>1, <3>2
  <2>4. Len(code[1][b]) = 1
    <3>1. 1 \in 1..Len(code) /\ b \in 1..Len(code[1])
      BY <2>3 DEF MainWorks
    <3> QED BY <2>2, <2>3, <3>1, StepShape
  <2>5. k = 1 /\ pc[Main].step = 1
    BY <1>1, <1>2, <2>4
  <2> QED BY <1>1, <1>2, <2>2, <2>5
<1> QED BY <1>1, <1>2 DEF JoinsAt

\* Once the main program is past its BARRIER, or at its end, every thread that
\* was started has ended and is joined.
LEMMA AllJoined ==
    ASSUME IInv, JoinInv, Disciplined, Kept,
           \/ phase[Main] # "live"
           \/ \E b \in MainWorks : JoinsAt(b) /\ pc[Main].itr > b
    PROVE  /\ \A u \in Child : phase[u] \in Over
           /\ \A i \in 1..Len(threads) : threads[i] \in joined
           /\ th = None
<1>1. CASE Those(1, "thread") = {}
  <2>1. threads = <<>> /\ th = None
    BY <1>1 DEF Kept, Staged
  <2> QED BY <2>1, Threads DEF JoinInv, InOrder, Over, Child
<1>2. CASE Those(1, "thread") # {}
  <2>1. PICK b \in MainWorks : JoinsAt(b) /\ pc[Main].itr > b
    <3>1. CASE phase[Main] # "live"
      <4>1. pc[Main].itr > Len(code[1])
        BY <3>1 DEF Kept, Calm
      <4>2. PICK b \in MainWorks : JoinsAt(b)
        BY <1>2 DEF Disciplined, JoinsOnce
      <4>3. pc[Main].itr \in Nat /\ Len(code[1]) \in Nat
        <5>1. code \in Seq(Seq(Seq(Step))) /\ Len(code) > 0
          BY DEF IInv, TypeOK, IsCode
        <5>2. code[1] \in Seq(Seq(Step))
          BY <5>1
        <5>3. pc[Main].itr \in Nat
          BY Threads DEF IInv, TypeOK
        <5> QED BY <5>2, <5>3
      <4> QED BY <4>1, <4>2, <4>3 DEF MainWorks
    <3> QED BY <3>1
  <2>2. \A i \in 1..Len(threads) : i \in joined /\ threads[i] = i
    BY <2>1 DEF Kept, Staged, Stage, JoinInv, InOrder
  <2>3. th = None
    <3> SUFFICES ASSUME th # None PROVE FALSE
      OBVIOUS
    <3>1. InWork(Main) /\ Cur(Main).kind = "thread"
      BY DEF IInv, FamilyOK
    <3>2. pc[Main].itr < b
      BY <2>1, <3>1, BarrierAlone
    <3> QED BY <2>1, <3>2, Threads DEF IInv, TypeOK, MainWorks
  <2>4. \A u \in Child : phase[u] # "unborn" => u \in joined
    BY <2>2, <2>3, Threads DEF IInv, FamilyOK, Known
  <2> QED BY <2>2, <2>3, <2>4 DEF IInv, FamilyOK, Over
<1> QED BY <1>1, <1>2

\* No two threads are about to write.
LEMMA OneWrites ==
    ASSUME IInv, OneInOut, Disciplined, Kept, NEW t \in Thread, Writing(t)
    PROVE  /\ InWork(t) /\ Cur(t).kind = "write" /\ InOut(t)
           /\ pc[t].itr \in Those(pc[t].seg, "write")
           /\ t \in Child => Place(t) \in BlockOuts
<1>1. phase[t] # "catch"
  BY Threads DEF Kept, Calm, IInv, PhaseOK
<1>2. InWork(t) /\ Cur(t).kind = "write"
  BY <1>1 DEF Writing
<1>3. InOut(t)
  <2>1. IsOut(pc[t].seg, pc[t].itr) /\ pc[t].step # 1 /\ pc[t].step \in 1..Len(Work(t))
    BY <1>2, AtOut
  <2>2. pc[t].step \in Nat
    BY DEF IInv, TypeOK
  <2>3. pc[t].step # 0
    BY <2>1
  <2>4. pc[t].step > 1
    BY <2>1, <2>2, <2>3
  <2> QED BY <2>1, <2>4 DEF InOut
<1>4. pc[t].itr \in Those(pc[t].seg, "write") /\ (t \in Child => pc[t].seg \in Blocks)
  BY <1>2, AtStepOf
<1> QED BY <1>2, <1>3, <1>4 DEF BlockOuts, Place

LEMMA NoRace ==
    ASSUME IInv, JoinInv, OneInOut, Disciplined, Kept,
           NEW t \in Thread, NEW u \in Thread, t # u, Writing(t), Writing(u)
    PROVE  FALSE
<1>1. ASSUME NEW v \in Child, NEW w \in Child, v # w, Writing(v), Writing(w) PROVE FALSE
  <2>1. Place(v) \in BlockOuts /\ Place(w) \in BlockOuts /\ InOut(v) /\ InOut(w)
    BY <1>1, OneWrites, Threads
  <2>2. Place(v) = Place(w)
    BY <2>1 DEF Disciplined, OneWriter
  <2> QED BY <1>1, <2>1, <2>2, Threads DEF OneInOut
<1>2. ASSUME NEW v \in Child, Writing(v), Writing(Main) PROVE FALSE
  <2>1. /\ Place(v) \in BlockOuts /\ phase[v] = "live"
        /\ pc[Main].itr \in Those(1, "write")
    BY <1>2, OneWrites, Threads DEF InWork, IInv, PcOK
  <2>2. CASE Those(1, "thread") = {}
    BY <2>1, <2>2, Threads DEF Kept, Staged, JoinInv, InOrder, Child
  <2>3. CASE Those(1, "thread") # {}
    <3>1. PICK b \in MainWorks : JoinsAt(b)
      BY <2>3 DEF Disciplined, JoinsOnce
    <3>2. pc[Main].itr > b
      BY <2>1, <3>1 DEF Disciplined, OneWriter, JoinsAt
    <3> QED BY <2>1, <3>1, <3>2, AllJoined DEF Over
  <2> QED BY <2>2, <2>3
<1> QED BY <1>1, <1>2, Threads

-----------------------------------------------------------------------------
(* The steps of a disciplined program.                                     *)

LEMMA DisciplinedStep ==
    ASSUME IInv, Disciplined, Kept, NEW t \in Thread, ThreadStep(t)
    PROVE  /\ code' = code
           /\ ~Report(t)
           /\ Target(t) \/ Lookup(t) => GoOn(t) /\ UNCHANGED <<status, phase>>
           /\ Jump(t) => /\ t = Main /\ UNCHANGED <<phase, ub>>
                         /\ GoOn(t) \/ pc' = [pc EXCEPT ![t] = Landing(Cur(t).at[2])]
           /\ t # Main => /\ UNCHANGED family
                          /\ ~Create(t) /\ ~FreePools(t) /\ ~DeleteThreads(t)
<1>1. code' = code
  BY DEF ThreadStep, Allocate, Target, Lookup, Copy, Immediate, Load,
         Store, Jump, Nop, Finish, Lock, Unlock, Write, Report, Create, PushBack,
         BarrierBegin, JoinEnter, JoinReturn, BarrierEnd, FreePools, DeleteThreads
<1>2. ~Report(t)
  BY Threads DEF Report, Kept, Calm, IInv, PhaseOK
<1>3. Target(t) \/ Lookup(t) => GoOn(t) /\ UNCHANGED <<status, phase>>
  BY NotNull DEF Target, Lookup, AtStep
<1>4. ASSUME t # Main PROVE ~AtStep(t, "jump") /\ ~AtStep(t, "barrier") /\ ~AtStep(t, "thread")
  BY <1>4, PlainChild, Threads DEF AtStep
<1>5. ASSUME t # Main PROVE ~FreePools(t) /\ ~DeleteThreads(t)
  BY <1>5, Threads DEF FreePools, DeleteThreads, IInv, PhaseOK
<1>6. ASSUME Jump(t) PROVE t = Main /\ Cur(t).at[1] # 0
  <2>1. t = Main
    BY <1>4, <1>6 DEF Jump
  <2>2. InWork(t) /\ Cur(t).kind = "jump" /\ pc[t].seg = 1
    BY <1>6, <2>1, AtStepOf DEF Jump, AtStep
  <2> QED BY <2>1, <2>2, CurTyped
<1>7. Jump(t) => /\ UNCHANGED <<phase, ub>>
                 /\ GoOn(t) \/ pc' = [pc EXCEPT ![t] = Landing(Cur(t).at[2])]
  BY <1>6 DEF Jump, Note
<1>8. ASSUME t # Main PROVE UNCHANGED family /\ ~Create(t)
  BY <1>4, <1>5, <1>8 DEF ThreadStep, Allocate, Target, Lookup, Copy, Immediate, Load,
         Store, Jump, Nop, Finish, Lock, Unlock, Write, Report, Create, PushBack,
         BarrierBegin, JoinEnter, JoinReturn, BarrierEnd, AtJoin
<1> QED BY <1>1, <1>2, <1>3, <1>5, <1>6, <1>7, <1>8

LEMMA CalmStep ==
    ASSUME IInv, Disciplined, Kept, NEW t \in Thread, ThreadStep(t)
    PROVE  Calm'
<1>1. /\ phase \in [Thread -> Phases] /\ pc \in [Thread -> [seg : Nat, itr : Nat, step : Nat]]
      /\ bar \in [Thread -> [j : Nat, lim : Nat, in : BOOLEAN]]
      /\ Main \in Thread /\ Calm /\ code' = code /\ pc[Main].seg = 1
  BY Threads, DisciplinedStep DEF IInv, TypeOK, PcOK, Kept
<1>2. CASE t # Main
  <2>1. /\ pc'[Main] = pc[Main] /\ phase'[Main] = phase[Main] /\ UNCHANGED family
    BY <1>2, Threads, ChildStep, DisciplinedStep
  <2>2. ASSUME NEW u \in Child PROVE phase'[u] # "wild"
    BY <1>1, <1>2, DisciplinedStep, Threads DEF Calm, ThreadStep, Allocate, Target, Lookup, Copy,
       Immediate, Load, Store, Nop, Finish, Lock, Unlock, Write, PushBack,
       BarrierBegin, JoinEnter, JoinReturn, BarrierEnd
  <2> QED BY <1>1, <2>1, <2>2 DEF Calm, family
<1>3. CASE t = Main
  <2>1. ASSUME NEW u \in Child PROVE bar'[u] = bar[u]
    BY <1>1, <1>3, Threads DEF ThreadStep, Allocate, Target, Lookup, Copy, Immediate, Load, Store,
       Jump, Nop, Finish, Lock, Unlock, Write, Report, Create, PushBack, BarrierBegin,
       JoinEnter, JoinReturn, BarrierEnd, FreePools, DeleteThreads, family
  <2>2. ASSUME NEW u \in Child PROVE phase'[u] # "wild"
    BY <1>1, <1>3, DisciplinedStep, Threads DEF Calm, ThreadStep, Allocate, Target, Lookup, Copy,
       Immediate, Load, Store, Jump, Nop, Finish, Lock, Unlock, Write, Create, PushBack,
       BarrierBegin, JoinEnter, JoinReturn, BarrierEnd, FreePools, DeleteThreads
  <2>3. CASE InWork(Main)
    <3>1. phase[Main] = "live" /\ ~Finish(Main) /\ ~FreePools(Main) /\ ~DeleteThreads(Main)
      BY <2>3 DEF InWork, Finish, FreePools, DeleteThreads
    <3>2. phase'[Main] = "live"
      BY <1>1, <1>3, <3>1, DisciplinedStep, Threads DEF ThreadStep, Allocate, Target, Lookup, Copy,
         Immediate, Load, Store, Nop, Lock, Unlock, Write, Create, PushBack,
         BarrierBegin, JoinEnter, JoinReturn, BarrierEnd
    <3> QED BY <1>1, <2>1, <2>2, <3>2 DEF Calm
  <2>4. CASE ~InWork(Main)
    <3>1. Finish(Main) \/ FreePools(Main) \/ DeleteThreads(Main)
      BY <1>3, <2>4, DisciplinedStep DEF ThreadStep, Allocate, Target, Lookup, Copy,
         Immediate, Load, Store, Jump, Nop, Lock, Unlock, Write, Create, PushBack,
         BarrierBegin, JoinEnter, JoinReturn, BarrierEnd, AtStep, AtJoin
    <3>2. /\ phase'[Main] \in {"destroy", "freed", "ended"} /\ pc' = pc
      BY <1>1, <3>1 DEF Finish, FreePools, DeleteThreads
    <3>3. pc[Main].itr > Len(code[1])
      <4>1. code \in Seq(Seq(Seq(Step))) /\ Len(code) > 0
        BY DEF IInv, TypeOK, IsCode
      <4>2. Len(code[1]) \in Nat /\ pc[Main].itr \in Nat
        <5>1. code[1] \in Seq(Seq(Step))
          BY <4>1
        <5> QED BY <1>1, <5>1
      <4> QED BY <1>1, <2>4, <4>2 DEF Calm, InWork
    <3> QED BY <1>1, <2>1, <2>2, <3>2, <3>3 DEF Calm
  <2> QED BY <2>3, <2>4
<1> QED BY <1>2, <1>3

\* The main program's iterator goes on, or jumps.
LEMMA MainMoves ==
    ASSUME IInv, Disciplined, Kept, NEW t \in Thread, ThreadStep(t)
    PROVE  \/ pc'[Main] = pc[Main]
           \/ t = Main /\ InWork(Main) /\ GoOn(Main)
           \/ t = Main /\ InWork(Main) /\ Cur(Main).kind = "jump" /\ Jump(Main)
              /\ pc'[Main] = Landing(Cur(Main).at[2])
<1>1. pc \in [Thread -> [seg : Nat, itr : Nat, step : Nat]] /\ Main \in Thread
  BY Threads DEF IInv, TypeOK
<1>2. CASE t # Main
  BY <1>2, Threads, ChildStep
<1>3. CASE t = Main
  <2>1. CASE Jump(Main)
    BY <1>1, <1>3, <2>1, DisciplinedStep DEF Jump, AtStep
  <2>2. CASE ~Jump(Main)
    BY <1>1, <1>3, <2>2, DisciplinedStep, Threads DEF ThreadStep, Allocate, Target, Lookup, Copy,
       Immediate, Load, Store, Nop, Finish, Lock, Unlock, Write, Create, PushBack, BarrierBegin,
       JoinEnter, JoinReturn, BarrierEnd, FreePools, DeleteThreads, AtStep
  <2> QED BY <2>1, <2>2
<1> QED BY <1>2, <1>3

LEMMA PoolKept ==
    ASSUME IInv, NEW t \in Thread, ThreadStep(t), NEW x, InPool(x)
    PROVE  InPool(x)'
<1>1. used \in Nat /\ pool \in [Names -> Object]
  BY BoundsAssumption DEF IInv, TypeOK, Object
<1>2. CASE Allocate(t)
  BY <1>1, <1>2 DEF Allocate, InPool, Null
<1>3. CASE ~Allocate(t)
  BY <1>3 DEF ThreadStep, memory, InPool, Target, Lookup, Copy, Immediate, Load,
     Store, Jump, Nop, Finish, Lock, Unlock, Write, Report, Create, PushBack,
     BarrierBegin, JoinEnter, JoinReturn, BarrierEnd, FreePools, DeleteThreads
<1> QED BY <1>2, <1>3

LEMMA Allocated ==
    ASSUME IInv, NEW t \in Thread, Allocate(t), NEW x, x = Cur(t).name
    PROVE  InPool(x)'
<1>1. used \in Nat /\ pool \in [Names -> Object]
  BY BoundsAssumption DEF IInv, TypeOK, Object
<1>2. Cur(t).name \in Names
  BY CurTyped DEF Allocate, AtStep, Naming
<1> QED BY <1>1, <1>2 DEF Allocate, InPool, Null

LEMMA DeclaredStep ==
    ASSUME IInv, Disciplined, Kept, NEW t \in Thread, ThreadStep(t)
    PROVE  DeclaredInOrder'
<1>1. pc \in [Thread -> [seg : Nat, itr : Nat, step : Nat]] /\ Main \in Thread /\ code' = code
  BY Threads, DisciplinedStep DEF IInv, TypeOK
<1> SUFFICES ASSUME NEW j \in MainWorks, Straight(j), NEW k \in 1..Len(code[1][j]),
                    code[1][j][k].kind = "alloc", Passed(j, k)',
                    NEW x, x = code[1][j][k].name
             PROVE  InPool(x)'
  <2>1. MainWorks' = MainWorks /\ \A j : Straight(j)' = Straight(j)
    BY <1>1 DEF MainWorks, Straight, Those, Has, StepsOf
  <2> QED BY <1>1, <2>1 DEF DeclaredInOrder, InPool
<1>2. CASE Passed(j, k)
  BY <1>2, PoolKept DEF Kept, DeclaredInOrder
<1>3. CASE ~Passed(j, k)
  <2>1. pc'[Main] # pc[Main]
    BY <1>3 DEF Passed
  <2>2. t = Main /\ InWork(Main)
    BY <2>1, MainMoves
  <2>3. /\ pc[Main].itr \in 1..Len(code[1]) /\ pc[Main].step \in 1..Len(code[1][pc[Main].itr])
        /\ Cur(Main) = code[1][pc[Main].itr][pc[Main].step]
        /\ Work(Main) = code[1][pc[Main].itr]
        /\ pc[Main].itr \in Those(1, Cur(Main).kind)
        /\ pc[Main].itr \in Nat /\ pc[Main].step \in Nat
    BY <1>1, <2>2, AtStepOf
  <2>4. Cur(Main).kind # "jump"
    BY <1>3, <2>3 DEF Straight, Passed
  <2>5. GoOn(Main)
    BY <2>1, <2>4, MainMoves
  <2>6. Len(code[1][pc[Main].itr]) \in Nat /\ j \in Nat /\ k \in Nat
    <3>1. IsCode(code) /\ 1 \in 1..Len(code)
      BY <2>2, Threads, AtStepOf DEF IInv, TypeOK
    <3> QED BY <2>3, <3>1, WorkShape DEF MainWorks
  <2>7. j = pc[Main].itr /\ k = pc[Main].step
    <3>1. CASE pc[Main].step < Len(code[1][pc[Main].itr])
      <4>1. /\ pc'[Main].itr = pc[Main].itr /\ pc'[Main].step = pc[Main].step + 1
        BY <1>1, <2>3, <2>5, <3>1 DEF GoOn, NextStep
      <4> QED BY <1>3, <2>3, <2>6, <4>1 DEF Passed
    <3>2. CASE ~(pc[Main].step < Len(code[1][pc[Main].itr]))
      <4>1. /\ pc'[Main].itr = pc[Main].itr + 1 /\ pc'[Main].step = 1
        BY <1>1, <2>3, <2>5, <3>2 DEF GoOn, NextWork
      <4>2. j = pc[Main].itr /\ ~(k < pc[Main].step)
        BY <1>3, <2>3, <2>6, <4>1 DEF Passed
      <4> QED BY <2>3, <2>6, <3>2, <4>2
    <3> QED BY <3>1, <3>2
  <2>8. Allocate(Main)
    <3>1. Cur(Main).kind = "alloc" /\ phase[Main] = "live"
      BY <2>2, <2>3, <2>7 DEF InWork
    <3> QED BY <2>2, <3>1 DEF ThreadStep, Target, Lookup, Copy, Immediate, Load,
         Store, Jump, Nop, Finish, Lock, Unlock, Write, Report, Create, PushBack, AtStep, AtJoin,
         BarrierBegin, JoinEnter, JoinReturn, BarrierEnd, FreePools, DeleteThreads
  <2> QED BY <1>1, <2>3, <2>7, <2>8, Allocated
<1> QED BY <1>2, <1>3

LEMMA ReadyStep ==
    ASSUME IInv, Disciplined, Kept, NEW t \in Thread, ThreadStep(t)
    PROVE  BlocksReady'
<1>1. /\ pc \in [Thread -> [seg : Nat, itr : Nat, step : Nat]] /\ phase \in [Thread -> Phases]
      /\ Main \in Thread /\ code' = code
  BY Threads, DisciplinedStep DEF IInv, TypeOK
<1>2. \A g, i : NeededBy(g, i)' = NeededBy(g, i)
  BY <1>1 DEF NeededBy, StepsOf
<1>3. ASSUME NEW u \in Child, phase'[u] # "unborn", phase[u] # "unborn" PROVE Ready(u)'
  <2>1. pc'[u].seg = pc[u].seg /\ Ready(u)
    BY <1>3, ChildForward DEF Kept, BlocksReady
  <2> QED BY <1>1, <1>2, <2>1, PoolKept DEF Ready
<1>4. ASSUME NEW u \in Child, phase'[u] # "unborn", phase[u] = "unborn" PROVE Ready(u)'
  <2>1. u \in Thread /\ ~InWork(u) /\ u # Main
    BY <1>4, Threads DEF InWork
  <2>2. Create(t)
    BY <1>1, <1>4, <2>1 DEF ThreadStep, Allocate, Target, Throw, Lookup, Copy, Immediate, Load,
       Store, Jump, Nop, Finish, Lock, Unlock, Write, Report, PushBack,
       BarrierBegin, JoinEnter, JoinReturn, BarrierEnd, FreePools, DeleteThreads, AtStep
  <2>3. /\ t = Main /\ InWork(Main) /\ Cur(Main).kind = "thread"
        /\ pc'[u].seg = Cur(Main).at[1]
    <3>1. t = Main
      BY <2>2, DisciplinedStep
    <3>2. PICK w \in Child : /\ phase' = [phase EXCEPT ![w] = "live"]
                             /\ pc' = [pc EXCEPT ![w] = Start(Cur(t).at[1])]
      BY <2>2 DEF Create
    <3>3. u = w
      BY <1>1, <1>4, <2>1, <3>2, Threads
    <3> QED BY <1>1, <2>1, <2>2, <3>1, <3>2, <3>3 DEF Create, AtStep, Start
  <2> DEFINE i == pc[Main].itr
  <2>4. /\ i \in MainWorks /\ pc[Main].step \in 1..Len(code[1][i])
        /\ Cur(Main) = code[1][i][pc[Main].step] /\ i \in Nat
    BY <1>1, <2>3, AtStepOf DEF MainWorks
  <2>5. Cur(Main) \in {r \in StepsOf(1, i) : r.kind = "thread"}
    BY <2>3, <2>4 DEF StepsOf
  <2>6. \A k \in 1..Len(code[pc'[u].seg]) : NeededBy(pc'[u].seg, k) \subseteq DeclaredAt(i)
    BY <2>3, <2>4, <2>5 DEF Disciplined, Declares
  <2>7. ASSUME NEW x \in DeclaredAt(i) PROVE InPool(x)
    <3>1. PICK j \in 1..(i - 1) :
            /\ Straight(j)
            /\ \E k \in 1..Len(code[1][j]) : code[1][j][k].kind = "alloc" /\ code[1][j][k].name = x
      BY <2>7, DeclaredEarlier
    <3>2. j \in MainWorks /\ j < i
      BY <2>4, <3>1 DEF MainWorks
    <3> QED BY <3>1, <3>2 DEF Kept, DeclaredInOrder, Passed
  <2> QED BY <1>1, <1>2, <2>6, <2>7, PoolKept DEF Ready
<1> QED BY <1>3, <1>4 DEF BlocksReady

LEMMA Edge ==
    ASSUME IInv, InWork(Main), Cur(Main).kind = "jump"
    PROVE  <<pc[Main].itr, Cur(Main).at[2]>> \in JumpEdges
<1> DEFINE i == pc[Main].itr
<1>1. i \in MainWorks /\ Cur(Main) \in {r \in StepsOf(1, i) : r.kind = "jump"}
  BY AtStepOf, Threads DEF MainWorks, StepsOf
<1> QED BY <1>1 DEF JumpEdges

\* The steps of the main program in and around its BARRIER.
LEMMA StageStep ==
    ASSUME IInv, JoinInv, BarrierInv, Disciplined, Kept, ThreadStep(Main),
           NEW b \in MainWorks, JoinsAt(b)
    PROVE  Stage(b)'
<1>1. /\ pc \in [Thread -> [seg : Nat, itr : Nat, step : Nat]] /\ Main \in Thread
      /\ bar \in [Thread -> [j : Nat, lim : Nat, in : BOOLEAN]]
      /\ threads \in Seq(Child) /\ Len(threads) \in Nat /\ b \in Nat /\ pc[Main].itr \in Nat
      /\ Stage(b)
  <2>1. Stage(b)
    BY DEF Kept, Staged
  <2>2. /\ pc \in [Thread -> [seg : Nat, itr : Nat, step : Nat]] /\ Main \in Thread
        /\ bar \in [Thread -> [j : Nat, lim : Nat, in : BOOLEAN]]
        /\ threads \in Seq(Child)
    BY Threads DEF IInv, TypeOK
  <2> QED BY <2>1, <2>2 DEF MainWorks
<1>2. CASE BarrierBegin(Main)
  <2>1. pc[Main].itr = b /\ bar[Main].j = 0
    BY <1>2, BarrierAlone DEF BarrierBegin, AtStep
  <2>2. joined = {}
    BY <1>1, <2>1 DEF Stage
  <2> QED BY <1>1, <1>2, <2>1, <2>2 DEF BarrierBegin, Stage
<1>3. CASE JoinEnter(Main)
  <2>1. bar'[Main].j = bar[Main].j
    BY <1>1, <1>3 DEF JoinEnter
  <2> QED BY <1>1, <1>3, <2>1 DEF JoinEnter, Stage
<1>4. CASE JoinReturn(Main)
  <2>1. pc[Main].itr = b
    BY <1>4, BarrierAlone DEF JoinReturn, AtJoin, AtStep
  <2>2. /\ bar'[Main].j = bar[Main].j + 1 /\ joined' = joined \cup {bar[Main].j}
        /\ bar[Main].j \in 1..Len(threads) /\ pc' = pc
    <3>1. bar[Main].j \in 1..bar[Main].lim /\ bar[Main].lim \in Nat /\ bar[Main].lim <= Len(threads)
      BY <1>1, <1>4 DEF JoinReturn, AtJoin, IInv, BarOK
    <3>2. bar[Main].j \in 1..Len(threads)
      BY <1>1, <3>1
    <3> QED BY <1>1, <1>4, <3>2 DEF JoinReturn, Joinee, JoinInv, InOrder
  <2>3. joined' \subseteq 1..(bar'[Main].j - 1)
    BY <1>1, <2>1, <2>2 DEF Stage
  <2> QED BY <1>1, <2>1, <2>2, <2>3 DEF Stage
<1>5. CASE BarrierEnd(Main)
  <2>1. pc[Main].itr = b /\ Len(Work(Main)) = 1 /\ pc[Main].step \in 1..Len(Work(Main))
    BY <1>5, BarrierAlone, CurTyped, AtStepOf, Threads DEF BarrierEnd, AtStep
  <2>2. pc'[Main].itr = b + 1
    BY <1>1, <1>5, <2>1 DEF BarrierEnd, GoOn, NextWork
  <2>3. bar[Main].j # 0 /\ bar[Main].j > bar[Main].lim
    BY <1>1, <1>5 DEF BarrierEnd
  <2>4. \A i \in 1..Len(threads) : i \in joined
    BY <1>1, <2>3 DEF BarrierInv, JoinInv, JoinOK
  <2> QED BY <1>1, <1>5, <2>2, <2>4 DEF BarrierEnd, Stage
<1>6. CASE Jump(Main) /\ ~GoOn(Main)
  <2>1. InWork(Main) /\ Cur(Main).kind = "jump"
    BY <1>6 DEF Jump, AtStep
  <2>2. pc' = [pc EXCEPT ![Main] = Landing(Cur(Main).at[2])]
    BY <1>1, <1>6, DisciplinedStep
  <2>3. pc'[Main].itr = Cur(Main).at[2] + 1 /\ Cur(Main).at[2] \in Nat
    BY <1>1, <2>1, <2>2, CurTyped DEF Landing, Step
  <2>4. IF pc[Main].itr < b THEN Cur(Main).at[2] < b ELSE Cur(Main).at[2] >= b
    BY <2>1, Edge DEF JoinsAt
  <2>5. pc[Main].itr # b
    BY <2>1, BarrierAlone
  <2>6. UNCHANGED <<threads, bar, joined>>
    BY <1>6 DEF Jump, family
  <2>7. CASE pc[Main].itr < b
    <3>1. pc'[Main].itr <= b /\ ~(pc'[Main].itr > b) /\ pc[Main].itr <= b
      BY <1>1, <2>3, <2>4, <2>7
    <3> QED BY <1>1, <2>6, <3>1 DEF Stage
  <2>8. CASE pc[Main].itr > b
    <3>1. pc'[Main].itr > b /\ ~(pc'[Main].itr <= b)
      BY <1>1, <2>3, <2>4, <2>8
    <3> QED BY <1>1, <2>6, <2>8, <3>1 DEF Stage
  <2> QED BY <1>1, <2>5, <2>7, <2>8
<1>7. CASE PushBack(Main)
  <2>1. pc[Main].itr < b
    BY <1>7, BarrierAlone DEF PushBack, AtStep
  <2>2. pc'[Main].itr <= b
    BY <1>1, <1>7, <2>1 DEF PushBack, GoOn, NextStep, NextWork
  <2>3. ~(pc'[Main].itr > b) /\ pc[Main].itr <= b /\ UNCHANGED <<bar, joined>>
    BY <1>1, <1>7, <2>1, <2>2 DEF PushBack, GoOn, NextStep, NextWork
  <2> QED BY <1>1, <2>3 DEF Stage
<1>8. CASE InWork(Main) /\ GoOn(Main) /\ Cur(Main).kind # "barrier" /\ UNCHANGED <<threads, bar, joined>>
  <2>1. pc[Main].itr # b
    BY <1>8, BarrierAlone
  <2>2. pc'[Main].itr \in {pc[Main].itr, pc[Main].itr + 1}
    BY <1>1, <1>8 DEF GoOn, NextStep, NextWork
  <2> QED BY <1>1, <1>8, <2>1, <2>2 DEF Stage
<1>9. CASE pc'[Main] = pc[Main] /\ UNCHANGED <<threads, bar, joined>>
  BY <1>1, <1>9 DEF Stage
<1>10. CASE ~BarrierBegin(Main) /\ ~JoinEnter(Main) /\ ~JoinReturn(Main) /\ ~BarrierEnd(Main)
            /\ ~PushBack(Main)
  <2>1. UNCHANGED <<threads, bar, joined>>
    BY <1>10 DEF ThreadStep, family, Allocate, Target, Lookup, Copy, Immediate, Load,
       Store, Jump, Nop, Finish, Lock, Unlock, Write, Report, Create, FreePools, DeleteThreads
  <2>2. pc'[Main] = pc[Main] \/ (Jump(Main) /\ ~GoOn(Main)) \/ (InWork(Main) /\ GoOn(Main))
    BY <1>1, MainMoves
  <2>3. ASSUME InWork(Main), Cur(Main).kind = "barrier" PROVE FALSE
    BY <1>10, <2>3, LoopStep
  <2> QED BY <1>6, <1>8, <1>9, <2>1, <2>2, <2>3
<1> QED BY <1>2, <1>3, <1>4, <1>5, <1>7, <1>10

LEMMA StagedStep ==
    ASSUME IInv, JoinInv, BarrierInv, Disciplined, Kept, NEW t \in Thread, ThreadStep(t)
    PROVE  Staged'
<1>1. code' = code /\ Main \in Thread
  BY DisciplinedStep, Threads
<1>2. /\ MainWorks' = MainWorks /\ Those(1, "thread")' = Those(1, "thread")
      /\ \A b : JoinsAt(b)' = JoinsAt(b)
  BY <1>1 DEF MainWorks, Those, Has, StepsOf, JoinsAt, JumpEdges
<1>3. ASSUME Those(1, "thread") = {} PROVE threads' = <<>> /\ th' = None
  <2>1. threads = <<>> /\ th = None
    BY <1>3 DEF Kept, Staged
  <2>2. ~AtStep(t, "thread")
    BY <1>3, AtStepOf, CurTyped DEF AtStep
  <2>3. UNCHANGED <<threads, th>>
    BY <2>2 DEF ThreadStep, family, Allocate, Target, Lookup, Copy, Immediate, Load,
       Store, Jump, Nop, Finish, Lock, Unlock, Write, Report, Create, PushBack, BarrierBegin,
       JoinEnter, JoinReturn, BarrierEnd, FreePools, DeleteThreads
  <2> QED BY <2>1, <2>3
<1>4. ASSUME NEW b \in MainWorks, JoinsAt(b) PROVE Stage(b)'
  <2>1. CASE t = Main
    BY <1>4, <2>1, StageStep
  <2>2. CASE t # Main
    <3>1. UNCHANGED family /\ pc'[Main] = pc[Main]
      BY <2>2, DisciplinedStep, ChildStep, Threads
    <3> QED BY <1>4, <3>1 DEF family, Kept, Staged, Stage
  <2> QED BY <2>1, <2>2
<1> QED BY <1>2, <1>3, <1>4 DEF Staged

\* A disciplined step ends nothing but the run: the join is not refused, and
\* every thread of the vector is joined before the vector is deleted.
LEMMA StatusKept ==
    ASSUME IInv, JoinInv, Disciplined, Kept, NEW t \in Thread, ThreadStep(t)
    PROVE  status' \in {"running", "done"}
<1>1. Main \in Thread /\ status \in {"running", "done"}
  BY Threads DEF Kept, Safe
<1>2. CASE JoinEnter(t)
  <2>1. AtStep(t, "barrier") /\ ~bar[t].in /\ bar[t].j \in 1..bar[t].lim
    BY <1>2 DEF JoinEnter, AtJoin
  <2>2. t = Main
    BY <2>1, PlainChild, Threads DEF AtStep
  <2>3. bar[Main].j \in 1..Len(threads) /\ Joinee(Main) = bar[Main].j /\ bar[Main].j \in Child
    <3>1. /\ bar \in [Thread -> [j : Nat, lim : Nat, in : BOOLEAN]] /\ threads \in Seq(Child)
          /\ bar[Main].lim <= Len(threads)
      BY <1>1 DEF IInv, TypeOK, BarOK
    <3>2. bar[Main].j \in 1..Len(threads)
      BY <1>1, <2>1, <2>2, <3>1
    <3> QED BY <3>1, <3>2 DEF JoinInv, InOrder, Joinee
  <2>4. bar[Main].j \notin joined
    <3>1. pc[Main].itr \in Those(1, "barrier") /\ Those(1, "barrier") \subseteq MainWorks
      BY <2>1, <2>2, AtStepOf DEF AtStep, Those, MainWorks
    <3>2. Those(1, "thread") # {}
      <4>1. threads # <<>>
        BY <2>3
      <4> QED BY <4>1 DEF Kept, Staged
    <3>3. PICK b \in MainWorks : JoinsAt(b)
      BY <3>2 DEF Disciplined, JoinsOnce
    <3>4. pc[Main].itr = b
      BY <3>1, <3>3 DEF JoinsAt
    <3>5. joined \subseteq 1..(bar[Main].j - 1)
      BY <3>3, <3>4 DEF Kept, Staged, Stage, MainWorks
    <3>6. bar[Main].j \in Nat
      BY <1>1 DEF IInv, TypeOK
    <3> QED BY <3>5, <3>6
  <2>5. \A w, u \in Thread : ~JoinsNow(w, u)
    BY <2>1, <2>2, Threads DEF JoinsNow, Kept, Calm, Idle
  <2>6. Joinee(Main) # Main /\ Joinee(Main) \in Thread
    BY <2>3, Threads
  <2> QED BY <1>1, <1>2, <2>2, <2>3, <2>4, <2>5, <2>6 DEF JoinEnter
<1>3. CASE DeleteThreads(t)
  <2>1. t = Main /\ phase[Main] = "freed"
    BY <1>3, DisciplinedStep DEF DeleteThreads
  <2>2. \A i \in 1..Len(threads) : threads[i] \in joined
    BY <2>1, AllJoined
  <2> QED BY <1>3, <2>2 DEF DeleteThreads
<1>4. CASE ~JoinEnter(t) /\ ~DeleteThreads(t)
  <2>1. status' = status
    BY <1>4, DisciplinedStep DEF ThreadStep, Allocate, Copy, Immediate, Load,
       Store, Jump, Nop, Finish, Lock, Unlock, Write, Create, PushBack, BarrierBegin,
       JoinReturn, BarrierEnd, FreePools
  <2> QED BY <1>1, <2>1
<1> QED BY <1>2, <1>3, <1>4

\* It meets no undefined behaviour but an unlock of what it does not own.
LEMMA DefinedKept ==
    ASSUME IInv, JoinInv, BarrierInv, OneInOut, Disciplined, Kept,
           NEW t \in Thread, ThreadStep(t)
    PROVE  ub' \subseteq {"unlock"}
<1>1. Main \in Thread /\ ub \subseteq {"unlock"}
  BY Threads DEF Kept, Safe
<1>2. CASE Copy(t) \/ Load(t) \/ Store(t)
  <2>1. ~Freed
    <3> SUFFICES ASSUME Freed PROVE FALSE
      OBVIOUS
    <3>1. phase[Main] # "live" /\ phase[t] = "live"
      BY <1>2 DEF Freed, Copy, Load, Store, AtStep, InWork
    <3> QED BY <3>1, AllJoined, Threads DEF Over
  <2> QED BY <1>1, <1>2, <2>1 DEF Copy, Load, Store, Note
<1>3. CASE Write(t)
  <2>1. Writing(t)
    BY <1>3 DEF Write, AtStep, Writing
  <2>2. ~ \E u \in Thread \ {t} : Writing(u)
    BY <2>1, NoRace
  <2> QED BY <1>1, <1>3, <2>2 DEF Write, Emit, Note
<1>4. CASE PushBack(t) \/ BarrierBegin(t)
  <2>1. t = Main
    BY <1>4, PlainChild, Threads DEF PushBack, BarrierBegin, AtStep
  <2>2. CASE PushBack(t)
    <3>1. Cur(Main).kind = "thread"
      BY <2>1, <2>2 DEF PushBack, AtStep
    <3>2. \A u \in Thread : ~Iterating(u)
      BY <3>1, Threads DEF Iterating, BarrierInv, Kept, Calm, Idle
    <3> QED BY <1>1, <2>2, <3>2 DEF PushBack, Note
  <2>3. CASE BarrierBegin(t)
    <3>1. Cur(Main).kind = "barrier"
      BY <2>1, <2>3 DEF BarrierBegin, AtStep
    <3>2. th = None
      BY <3>1 DEF IInv, FamilyOK
    <3> QED BY <1>1, <2>3, <3>2 DEF BarrierBegin, Note
  <2> QED BY <1>4, <2>2, <2>3
<1>5. CASE Jump(t)
  BY <1>1, <1>5, DisciplinedStep
<1>6. CASE Unlock(t)
  BY <1>1, <1>6 DEF Unlock, Note
<1>7. CASE ~(Copy(t) \/ Load(t) \/ Store(t) \/ Write(t) \/ PushBack(t) \/ BarrierBegin(t)
             \/ Jump(t) \/ Unlock(t))
  <2>1. ub' = ub
    BY <1>7, DisciplinedStep DEF ThreadStep, Allocate, Target, Lookup, Immediate,
       Nop, Finish, Lock, Create, JoinEnter, JoinReturn, BarrierEnd, FreePools, DeleteThreads
  <2> QED BY <1>1, <2>1
<1> QED BY <1>2, <1>3, <1>4, <1>5, <1>6, <1>7

-----------------------------------------------------------------------------
(* The theorem.                                                            *)

LEMMA DInit == Init => DInv
<1> SUFFICES ASSUME Init, Disciplined PROVE Kept
  BY DEF DInv
<1>1. Calm
  BY Threads DEF Init, Calm
<1>2. DeclaredInOrder
  <2>1. \A j \in MainWorks : \A k \in 1..Len(code[1][j]) : ~Passed(j, k)
    BY Threads DEF Init, Start, Passed, MainWorks
  <2> QED BY <2>1 DEF DeclaredInOrder
<1>3. BlocksReady
  BY Threads DEF Init, BlocksReady
<1>4. Staged
  BY Threads DEF Init, Staged, Stage, Start, MainWorks
<1>5. Safe
  BY DEF Init, Safe
<1> QED BY <1>1, <1>2, <1>3, <1>4, <1>5 DEF Kept

LEMMA DStep == IInv /\ JoinInv /\ BarrierInv /\ OutInv /\ DInv /\ [Next]_vars => DInv'
<1> SUFFICES ASSUME IInv, JoinInv, BarrierInv, OutInv, DInv, [Next]_vars, Disciplined'
             PROVE  Kept'
  BY DEF DInv
<1>1. code' = code
  BY StepKinds, OtherKinds DEF Next
<1>2. Disciplined /\ Kept /\ OneInOut
  <2> USE <1>1 DEF StepsOf
  <2>1. /\ MainWorks' = MainWorks /\ Blocks' = Blocks /\ JumpEdges' = JumpEdges
        /\ \A g, i : NeededBy(g, i)' = NeededBy(g, i)
        /\ \A g, kind : Those(g, kind)' = Those(g, kind)
    BY DEF MainWorks, Blocks, JumpEdges, NeededBy, Those, Has
  <2>2. /\ \A i : DeclaredAt(i)' = DeclaredAt(i)
        /\ \A b : JoinsAt(b)' = JoinsAt(b)
        /\ BlockOuts' = BlockOuts
    BY <2>1 DEF DeclaredAt, JoinsAt, BlockOuts
  <2>3. /\ Declares' = Declares /\ PlainBlocks' = PlainBlocks /\ JoinsOnce' = JoinsOnce
        /\ OneWriter' = OneWriter
    BY <2>1, <2>2 DEF Declares, PlainBlocks, JoinsOnce, OneWriter
  <2> QED BY <2>3 DEF Disciplined, DInv, OutInv
<1>3. ASSUME NEW t \in Thread, ThreadStep(t) PROVE Kept'
  BY <1>2, <1>3, CalmStep, DeclaredStep, ReadyStep, StagedStep, StatusKept, DefinedKept DEF Kept, Safe
<1>4. ~Crash
  BY <1>2 DEF Crash, Kept, Safe, Fatal
<1>5. CASE UNCHANGED vars
  <2>1. UNCHANGED <<code, status, phase, pc, pool, threads, th, bar, joined, ub>>
    BY <1>5 DEF vars, memory, family
  <2>2. Calm'
    BY <1>2, <2>1 DEF Kept, Calm
  <2>3. MainWorks' = MainWorks /\ JumpEdges' = JumpEdges
    BY <2>1 DEF MainWorks, JumpEdges, StepsOf
  <2>4. \A g, kind : Those(g, kind)' = Those(g, kind)
    BY <2>1 DEF Those, Has, StepsOf
  <2>5. \A x : InPool(x)' = InPool(x)
    BY <2>1 DEF InPool
  <2>6. DeclaredInOrder'
    BY <1>2, <2>1, <2>3, <2>4, <2>5 DEF Kept, DeclaredInOrder, Straight, Passed
  <2>7. BlocksReady'
    <3>1. \A g, i : NeededBy(g, i)' = NeededBy(g, i)
      BY <2>1 DEF NeededBy, StepsOf
    <3> QED BY <1>2, <2>1, <2>5, <3>1 DEF Kept, BlocksReady, Ready
  <2>8. \A b : JoinsAt(b)' = JoinsAt(b) /\ Stage(b)' = Stage(b)
    BY <2>1, <2>3, <2>4 DEF JoinsAt, Stage
  <2>9. Staged'
    BY <1>2, <2>1, <2>3, <2>4, <2>8 DEF Kept, Staged
  <2>10. Safe'
    BY <1>2, <2>1 DEF Kept, Safe
  <2> QED BY <2>2, <2>6, <2>7, <2>9, <2>10 DEF Kept
<1> QED BY <1>3, <1>4, <1>5 DEF Next, Halted

\* A program that declares before it uses, starts before its one BARRIER and
\* lets one OUT write while threads run never ends the process, and meets no
\* undefined behaviour but an unlock of what it does not own
\* (VirtualMachine.cpp:27-102).
THEOREM DisciplinePays == Spec => []DisciplinedIsSafe
<1>1. IInv /\ DInv => DisciplinedIsSafe
  BY DEF DInv, DisciplinedIsSafe, Kept, Safe
<1>2. Init => BarrierInv
  BY Threads DEF Init, BarrierInv, Idle
<1> QED BY <1>1, <1>2, Invariant, JoinInit, JoinStep, BarrierInvKept, OutInit, OutStep,
           DInit, DStep, PTL DEF Spec

-----------------------------------------------------------------------------
(* Counters.                                                               *)

\* No two names share an object, and a child that was not started is at the
\* first work.
PoolInj == \A y, z \in Names : pool[y] # Null /\ pool[y] = pool[z] => y = z
Fresh == \A u \in Child : phase[u] = "unborn" => pc[u].itr = 1

\* A thread that has passed a  target  of its work and holds the object of y
\* is in a work that changes y.
PastTarget(t) == \E j \in 1..(pc[t].step - 1) : Work(t)[j].kind = "target"
HoldsChanged ==
    \A t \in Thread : \A y \in Names :
        PastTarget(t) /\ pool[y] # Null /\ regs[t].ptr = pool[y]
            => Changes(pc[t].seg, pc[t].itr, y)

\* A child holds the mutexes its work is guarded by.
HoldsGuards ==
    \A u \in Child : \A m \in BlockMutexes :
        InWork(u) /\ Guarded(pc[u].seg, pc[u].itr, m) /\ ~Unlocks(pc[u].seg, pc[u].itr, m)
            => m \in held[u]

\* Nothing is started before the declaration, which the main program cannot
\* skip.
DeclaredFirst(d) ==
    IF pc[Main].itr <= d THEN \A u \in Child : phase[u] = "unborn"
    ELSE pool[Counted(d)] # Null

\* The registers of a child in the middle of SUB x,x,1.
Midway(u, x) ==
    /\ pc[u].step >= 2 => regs[u].ptr = pool[x]
    /\ pc[u].step = 3 => regs[u].last = 1
    /\ pc[u].step = 4 => regs[u].last = 1 /\ regs[u].src = pool[x]
    /\ pc[u].step = 5 => regs[u].prev = 1 /\ regs[u].last = heap[pool[x]]
InDecrement(u, x) == InWork(u) /\ Decrements(pc[u].seg, pc[u].itr, x)
Decrementing(x) == \A u \in Child : InDecrement(u, x) => Midway(u, x)

Counts(d) ==
    LET x == Counted(d)
    IN /\ IsFiniteSet(Made(x))
       /\ pool[x] # Null => heap[pool[x]] = Wrap(code[1][d][1].num - Cardinality(Made(x)))

Defined == ub \cap {"free", "unlock"} = {}
Counting ==
    \A d \in Those(1, "alloc") : \A m \in BlockMutexes :
        IsCounter(d, m) => DeclaredFirst(d) /\ (Defined => Decrementing(Counted(d)) /\ Counts(d))

CounterInv == PoolInj /\ Fresh /\ HoldsChanged /\ HoldsGuards /\ Counting

-----------------------------------------------------------------------------
(* Counting down modulo the size of a word.                                *)

LEMMA Divided ==
    ASSUME NEW b \in Int, NEW n \in Nat \ {0}
    PROVE  b % n \in 0..(n - 1) /\ b = n * (b \div n) + (b % n) /\ b \div n \in Int
OBVIOUS

\* Two remainders that a multiple of n separates are the same.
LEMMA SameRemainder ==
    ASSUME NEW n \in Nat \ {0}, NEW r \in 0..(n - 1), NEW s \in 0..(n - 1), NEW q \in Int,
           r - s = n * q
    PROVE  r = s
<1>1. CASE q = 0
  BY <1>1
<1>2. CASE q >= 1
  <2>1. n * q >= n
    BY <1>2
  <2> QED BY <2>1
<1>3. CASE q <= -1
  <2>1. n * q <= -n
    BY <1>3
  <2> QED BY <2>1
<1> QED BY <1>1, <1>2, <1>3

LEMMA WrapLess == \A a \in Int : Wrap(Wrap(a) - 1) = Wrap(a - 1)
<1> SUFFICES ASSUME NEW a \in Int PROVE Wrap(Wrap(a) - 1) = Wrap(a - 1)
  OBVIOUS
<1> DEFINE n == 2 * Half  b == a + Half  e == (b % n) - 1
<1>1. n \in Nat \ {0} /\ b \in Int
  BY HalfAssumption
<1> HIDE DEF n, b
<1>2. b % n \in 0..(n - 1) /\ b = n * (b \div n) + (b % n) /\ b \div n \in Int
  BY <1>1, Divided
<1>3. e \in Int
  BY <1>2
<1> HIDE DEF e
<1>4. /\ e % n \in 0..(n - 1) /\ e = n * (e \div n) + (e % n) /\ e \div n \in Int
  BY <1>1, <1>3, Divided
<1>5. /\ (b - 1) % n \in 0..(n - 1) /\ b - 1 = n * ((b - 1) \div n) + ((b - 1) % n)
      /\ (b - 1) \div n \in Int
  BY <1>1, Divided
<1> DEFINE q == ((b - 1) \div n) - (b \div n) - (e \div n)
<1>6. (e % n) - ((b - 1) % n) = n * q /\ q \in Int
  <2> DEFINE q1 == b \div n  q2 == e \div n  q3 == (b - 1) \div n
             r1 == b % n  r2 == e % n  r3 == (b - 1) % n
  <2>1. /\ q1 \in Int /\ q2 \in Int /\ q3 \in Int /\ r1 \in Int /\ r2 \in Int /\ r3 \in Int
        /\ b = n * q1 + r1 /\ e = n * q2 + r2 /\ b - 1 = n * q3 + r3 /\ e = r1 - 1
    BY <1>2, <1>4, <1>5, <1>1 DEF e
  <2> HIDE DEF q1, q2, q3, r1, r2, r3
  <2>2. r2 - r3 = n * (q3 - q1 - q2) /\ q3 - q1 - q2 \in Int
    BY <2>1, <1>1
  <2> QED BY <2>2 DEF q1, q2, q3, r2, r3
<1>7. e % n = (b - 1) % n
  <2> HIDE DEF q
  <2> DEFINE r == e % n  s == (b - 1) % n
  <2>1. r \in 0..(n - 1) /\ s \in 0..(n - 1) /\ r - s = n * q /\ q \in Int
    BY <1>4, <1>5, <1>6
  <2> HIDE DEF r, s
  <2>2. r = s
    BY <2>1, <1>1, SameRemainder
  <2> QED BY <2>2 DEF r, s
<1>8. /\ Wrap(a) = (b % n) - Half /\ Wrap(a - 1) = ((b - 1) % n) - Half
  <2>1. a - 1 + Half = b - 1
    BY HalfAssumption DEF b
  <2> QED BY <2>1 DEF Wrap, b, n
<1>9. Wrap(Wrap(a) - 1) = (e % n) - Half
  <2>1. Wrap(a) - 1 + Half = e
    BY <1>8, <1>2, HalfAssumption DEF e
  <2> QED BY <2>1 DEF Wrap, n
<1> QED BY <1>7, <1>8, <1>9

-----------------------------------------------------------------------------
(* Iterators and registers.                                                *)

\* What the code says, it goes on saying.
LEMMA SameCode ==
    ASSUME code' = code
    PROVE  /\ \A g, i, x : Decrements(g, i, x)' = Decrements(g, i, x)
           /\ \A g, i, x : Changes(g, i, x)' = Changes(g, i, x)
           /\ \A g, i, m : Guarded(g, i, m)' = Guarded(g, i, m)
           /\ \A g, i, m : Unlocks(g, i, m)' = Unlocks(g, i, m)
           /\ \A d : Counted(d)' = Counted(d)
           /\ \A d, m : IsCounter(d, m)' = IsCounter(d, m)
           /\ BlockMutexes' = BlockMutexes
           /\ Those(1, "alloc")' = Those(1, "alloc")
<1>1. \A g, i : StepsOf(g, i)' = StepsOf(g, i)
  BY DEF StepsOf
<1>2. \A g, kind : Those(g, kind)' = Those(g, kind)
  BY <1>1 DEF Those, Has
<1>3. /\ \A g, i, x : Decrements(g, i, x)' = Decrements(g, i, x)
      /\ \A g, i, x : Changes(g, i, x)' = Changes(g, i, x)
  BY <1>1 DEF Decrements, Changes
<1>4. \A g, i, m : Unlocks(g, i, m)' = Unlocks(g, i, m) /\ Locks(g, i, m)' = Locks(g, i, m)
  BY <1>1 DEF Unlocks, Locks
<1>5. \A g, i, m : Guarded(g, i, m)' = Guarded(g, i, m)
  BY <1>4 DEF Guarded
<1>6. /\ \A d : Counted(d)' = Counted(d)
      /\ MainWorks' = MainWorks /\ Blocks' = Blocks
  BY DEF Counted, MainWorks, Blocks
<1>7. JumpEdges' = JumpEdges
  BY <1>1, <1>6 DEF JumpEdges
<1>8. \A d, m : IsCounter(d, m)' = IsCounter(d, m)
  BY <1>2, <1>3, <1>5, <1>6, <1>7 DEF IsCounter
<1>9. BlockMutexes' = BlockMutexes
  BY <1>1, <1>6 DEF BlockMutexes
<1> QED BY <1>2, <1>3, <1>4, <1>5, <1>6, <1>8, <1>9

\* How the iterator of a thread moves.
LEMMA Iterates ==
    ASSUME IInv, NEW t \in Thread, ThreadStep(t), NEW u \in Thread
    PROVE  \/ pc'[u] = pc[u]
           \/ u = t /\ InWork(t) /\ GoOn(t)
           \/ /\ u = t /\ Target(t) /\ InWork(t) /\ pool[Cur(t).name] = Null
              /\ pc' = [pc EXCEPT ![t] = NextWork(pc[t])]
           \/ /\ u = t /\ t = Main /\ InWork(t) /\ Cur(t).kind = "jump"
              /\ pc' = [pc EXCEPT ![t] = Landing(Cur(t).at[2])]
           \/ /\ u \in Child /\ phase[u] = "unborn" /\ phase'[u] = "live"
              /\ pc'[u].itr = 1 /\ pc'[u].step = 1
<1>1. pc \in [Thread -> [seg : Nat, itr : Nat, step : Nat]] /\ phase \in [Thread -> Phases]
  BY DEF IInv, TypeOK
<1>2. CASE Create(t)
  <2>1. PICK w \in Child : /\ phase[w] = "unborn" /\ phase' = [phase EXCEPT ![w] = "live"]
                           /\ pc' = [pc EXCEPT ![w] = Start(Cur(t).at[1])]
    BY <1>2 DEF Create
  <2>2. CASE u = w
    BY <1>1, <2>1, <2>2 DEF Start
  <2>3. CASE u # w
    BY <1>1, <2>1, <2>3
  <2> QED BY <2>2, <2>3
<1>3. CASE Jump(t)
  <2>1. InWork(t) /\ Cur(t).kind = "jump"
    BY <1>3 DEF Jump, AtStep
  <2>2. GoOn(t) \/ (pc' = [pc EXCEPT ![t] = Landing(Cur(t).at[2])] /\ Cur(t).at[1] # 0)
    BY <1>3 DEF Jump
  <2>3. CASE u # t
    BY <1>1, <2>2, <2>3 DEF GoOn
  <2>4. CASE u = t
    <3>1. t # Main => pc[t].seg # 1
      BY <1>1, <2>1, <2>4, Threads DEF IInv, PcOK, InWork
    <3>2. GoOn(t) \/ t = Main
      BY <2>1, <2>2, <3>1, CurTyped
    <3> QED BY <2>1, <2>2, <2>4, <3>2
  <2> QED BY <2>3, <2>4
<1>4. CASE Target(t)
  <2>1. InWork(t)
    BY <1>4 DEF Target, AtStep
  <2>2. \/ GoOn(t) \/ pc' = pc
        \/ pool[Cur(t).name] = Null /\ pc' = [pc EXCEPT ![t] = NextWork(pc[t])]
    BY <1>4 DEF Target, Throw
  <2> QED BY <1>1, <1>4, <2>1, <2>2 DEF GoOn
<1>5. CASE ~Create(t) /\ ~Jump(t) /\ ~Target(t)
  <2>1. pc' = pc \/ (InWork(t) /\ GoOn(t))
    BY <1>5 DEF ThreadStep, AtStep, Allocate, Lookup, Throw, Copy, Immediate, Load, Store, Nop,
       Finish, Lock, Unlock, Write, Report, PushBack, BarrierBegin, JoinEnter, JoinReturn,
       BarrierEnd, FreePools, DeleteThreads
  <2> QED BY <1>1, <2>1 DEF GoOn
<1> QED BY <1>2, <1>3, <1>4, <1>5

\* What GoOn() makes of the iterator.
LEMMA WentOn ==
    ASSUME IInv, NEW t \in Thread, InWork(t), GoOn(t)
    PROVE  /\ pc'[t].seg = pc[t].seg
           /\ pc[t].step < Len(Work(t)) => /\ pc'[t].itr = pc[t].itr
                                           /\ pc'[t].step = pc[t].step + 1
           /\ ~(pc[t].step < Len(Work(t))) => pc'[t].itr = pc[t].itr + 1 /\ pc'[t].step = 1
           /\ pc[t].itr \in Nat /\ pc[t].step \in Nat
           /\ pc'[t] # pc[t]
<1>1. pc \in [Thread -> [seg : Nat, itr : Nat, step : Nat]]
  BY DEF IInv, TypeOK
<1> QED BY <1>1 DEF GoOn, NextStep, NextWork

\* A child that is alive was so, or starts.
LEMMA Alive ==
    ASSUME IInv, NEW t \in Thread, ThreadStep(t), NEW u \in Child, phase'[u] = "live"
    PROVE  phase[u] = "live" \/ (pc'[u].itr = 1 /\ pc'[u].step = 1)
<1>1. phase \in [Thread -> Phases] /\ u \in Thread /\ u # Main
      /\ pc \in [Thread -> [seg : Nat, itr : Nat, step : Nat]]
  BY Threads DEF IInv, TypeOK
<1>2. CASE Create(t)
  <2>1. PICK w \in Child : /\ phase[w] = "unborn" /\ phase' = [phase EXCEPT ![w] = "live"]
                           /\ pc' = [pc EXCEPT ![w] = Start(Cur(t).at[1])]
    BY <1>2 DEF Create
  <2> QED BY <1>1, <2>1 DEF Start
<1>3. CASE ~Create(t)
  BY <1>1, <1>3 DEF ThreadStep, Allocate, Target, Throw, Lookup, Copy,
       Immediate, Load, Store, Jump, Nop, Finish, Lock, Unlock, Write, Report, PushBack,
       BarrierBegin, JoinEnter, JoinReturn, BarrierEnd, FreePools, DeleteThreads
<1> QED BY <1>2, <1>3

\* A thread in a work takes the step it is at.
LEMMA TakesItsStep ==
    ASSUME NEW t \in Thread, ThreadStep(t), InWork(t)
    PROVE  /\ Cur(t).kind = "alloc" => Allocate(t)
           /\ Cur(t).kind = "target" => Target(t)
           /\ Cur(t).kind = "imm" => Immediate(t)
           /\ Cur(t).kind = "lookup" => Lookup(t)
           /\ Cur(t).kind = "copy" => Copy(t)
           /\ Cur(t).kind = "store" => Store(t)
           /\ Cur(t).kind = "lock" => Lock(t)
BY DEF ThreadStep, AtStep, AtJoin, InWork, Allocate, Target, Lookup, Copy, Immediate, Load, Store,
   Jump, Nop, Finish, Lock, Unlock, Write, Report, Create, PushBack, BarrierBegin, JoinEnter,
   JoinReturn, BarrierEnd, FreePools, DeleteThreads

\* The registers of a thread change by five of its own steps.
LEMMA RegsChange ==
    ASSUME IInv, NEW t \in Thread, ThreadStep(t), NEW u \in Thread
    PROVE  \/ regs'[u] = regs[u]
           \/ u = t /\ (Target(t) \/ Lookup(t) \/ Copy(t) \/ Immediate(t) \/ Load(t))
<1>1. regs \in [Thread -> Registers]
  BY DEF IInv, TypeOK, Registers
<1>2. CASE Target(t) \/ Lookup(t)
  BY <1>1, <1>2 DEF Target, Lookup, Throw
<1>3. CASE Copy(t) \/ Immediate(t) \/ Load(t)
  BY <1>1, <1>3 DEF Copy, Immediate, Load, Operand
<1>4. CASE ~(Target(t) \/ Lookup(t) \/ Copy(t) \/ Immediate(t) \/ Load(t))
  <2>1. regs' = regs
    BY <1>4 DEF ThreadStep, Allocate, Store,
       Jump, Nop, Finish, Lock, Unlock, Write, Report, Create, PushBack, BarrierBegin, JoinEnter,
       JoinReturn, BarrierEnd, FreePools, DeleteThreads
  <2> QED BY <2>1
<1> QED BY <1>2, <1>3, <1>4

\* The steps of SUB x,x,1.
LEMMA AtDecrement ==
    ASSUME IInv, NEW u \in Child, NEW x, InDecrement(u, x)
    PROVE  /\ Len(Work(u)) = 5 /\ pc[u].step \in 1..5
           /\ pc[u].step = 1 => Cur(u).kind = "target" /\ Cur(u).name = x
           /\ pc[u].step = 2 => Cur(u).kind = "imm" /\ Cur(u).num = 1
           /\ pc[u].step = 3 => Cur(u).kind = "lookup" /\ Cur(u).name = x
           /\ pc[u].step = 4 => Cur(u).kind = "copy"
           /\ pc[u].step = 5 => Cur(u).kind = "store" /\ Cur(u).how = "sub"
           /\ Cur(u).kind \notin {"alloc", "lock", "unlock", "load"}
           /\ \A m : ~Unlocks(pc[u].seg, pc[u].itr, m)
<1> DEFINE w == Work(u)  k == pc[u].step
<1>1. w = code[pc[u].seg][pc[u].itr] /\ k \in 1..Len(w) /\ Cur(u) = w[k]
  BY Threads, AtStepOf DEF InDecrement, Work, Cur
<1>2. /\ Len(w) = 5
      /\ w[1].kind = "target" /\ w[1].name = x
      /\ w[2].kind = "imm" /\ w[2].num = 1
      /\ w[3].kind = "lookup" /\ w[3].name = x
      /\ w[4].kind = "copy"
      /\ w[5].kind = "store" /\ w[5].how = "sub"
  BY <1>1 DEF InDecrement, Decrements
<1> HIDE DEF w, k
<1>3. \A j \in 1..5 : w[j].kind \in {"target", "imm", "lookup", "copy", "store"}
  <2>1. \A j \in 1..5 : j = 1 \/ j = 2 \/ j = 3 \/ j = 4 \/ j = 5
    OBVIOUS
  <2> QED BY <1>2, <2>1, Zenon
<1>4. \A m : ~Unlocks(pc[u].seg, pc[u].itr, m)
  BY <1>1, <1>2, <1>3 DEF Unlocks, StepsOf
<1>5. k \in 1..5 /\ Cur(u).kind \in {"target", "imm", "lookup", "copy", "store"}
  BY <1>1, <1>2, <1>3
<1>6. Cur(u).kind \notin {"alloc", "lock", "unlock", "load"}
  BY <1>5
<1> QED BY <1>1, <1>2, <1>4, <1>5, <1>6 DEF w, k

-----------------------------------------------------------------------------
(* What the shape of a counter says of a step.                             *)

LEMMA CounterShape ==
    ASSUME IInv, NEW d \in Those(1, "alloc"), NEW m, IsCounter(d, m)
    PROVE  /\ d \in MainWorks /\ d \in Nat /\ 1 \in 1..Len(code)
           /\ code[1][d][1] \in Step /\ Counted(d) \in Names
           /\ Len(code[1][d]) = 1 /\ code[1][d][1].kind = "alloc"
<1>1. /\ d \in MainWorks /\ Len(code[1][d]) = 1 /\ code[1][d][1].kind = "alloc"
  BY DEF IsCounter, Those, MainWorks
<1>2. IsCode(code) /\ 1 \in 1..Len(code)
  <2>1. code \in Seq(Seq(Seq(Step))) /\ Len(code) > 0 /\ IsCode(code)
    BY DEF IInv, TypeOK, IsCode
  <2> QED BY <2>1
<1>3. d \in 1..Len(code[1]) /\ 1 \in 1..Len(code[1][d])
  BY <1>1 DEF MainWorks
<1>4. code[1][d] \in Seq(Step)
  BY <1>2, <1>3, WorkShape
<1>5. code[1][d][1] \in Step
  BY <1>3, <1>4
<1>6. code[1][d][1].name \in Names
  BY <1>1, <1>2, <1>3, StepShape DEF Naming
<1> QED BY <1>1, <1>2, <1>3, <1>5, <1>6 DEF Counted

LEMMA ChangesHere ==
    ASSUME IInv, NEW t \in Thread, InWork(t), Cur(t).kind \in {"alloc", "target"}
    PROVE  Changes(pc[t].seg, pc[t].itr, Cur(t).name)
BY AtStepOf DEF Changes, StepsOf

\* Who is in a work that changes a counter.
LEMMA WhoChanges ==
    ASSUME IInv, NEW d \in Those(1, "alloc"), NEW m, IsCounter(d, m),
           NEW t \in Thread, InWork(t), Changes(pc[t].seg, pc[t].itr, Counted(d))
    PROVE  \/ t = Main /\ pc[Main].itr = d /\ Cur(t) = code[1][d][1]
           \/ t \in Child /\ InDecrement(t, Counted(d)) /\ Guarded(pc[t].seg, pc[t].itr, m)
<1>1. /\ pc[t].itr \in 1..Len(code[pc[t].seg])
      /\ pc[t].step \in 1..Len(code[pc[t].seg][pc[t].itr])
      /\ Cur(t) = code[pc[t].seg][pc[t].itr][pc[t].step]
      /\ t = Main => pc[t].seg = 1
      /\ t \in Child => pc[t].seg \in Blocks
  BY AtStepOf
<1>2. CASE t = Main
  <2>1. pc[Main].itr = d
    BY <1>1, <1>2 DEF IsCounter, MainWorks
  <2>2. pc[Main].step = 1
    BY <1>1, <1>2, <2>1 DEF IsCounter
  <2> QED BY <1>1, <1>2, <2>1, <2>2
<1>3. CASE t \in Child
  BY <1>1, <1>3 DEF IsCounter, InDecrement
<1> QED BY <1>2, <1>3, Threads

\* The declaration of a counter.
LEMMA DeclaresIt ==
    ASSUME IInv, NEW d \in Those(1, "alloc"), NEW m, IsCounter(d, m),
           NEW t \in Thread, Allocate(t), Cur(t).name = Counted(d)
    PROVE  t = Main /\ pc[Main].itr = d /\ Cur(t) = code[1][d][1]
<1>1. InWork(t) /\ Cur(t).kind = "alloc"
  BY DEF Allocate, AtStep
<1>2. Changes(pc[t].seg, pc[t].itr, Counted(d))
  BY <1>1, ChangesHere
<1>3. ~(t \in Child /\ InDecrement(t, Counted(d)))
  BY <1>1, AtDecrement
<1> QED BY <1>1, <1>2, <1>3, WhoChanges

\* A child in SUB x,x,1 holds the mutex that guards it.
LEMMA HoldsMutex ==
    ASSUME IInv, HoldsGuards, NEW d \in Those(1, "alloc"), NEW m \in BlockMutexes, IsCounter(d, m),
           NEW u \in Child, InDecrement(u, Counted(d))
    PROVE  m \in held[u]
<1>1. InWork(u) /\ \A n : ~Unlocks(pc[u].seg, pc[u].itr, n)
  BY AtDecrement DEF InDecrement
<1>2. Changes(pc[u].seg, pc[u].itr, Counted(d))
  <2>1. /\ code[pc[u].seg][pc[u].itr][1].kind = "target"
        /\ code[pc[u].seg][pc[u].itr][1].name = Counted(d)
        /\ 1 \in 1..Len(code[pc[u].seg][pc[u].itr])
    <3>1. Decrements(pc[u].seg, pc[u].itr, Counted(d))
      BY DEF InDecrement
    <3> DEFINE w == code[pc[u].seg][pc[u].itr]
    <3>2. Len(w) = 5 /\ w[1].kind = "target" /\ w[1].name = Counted(d)
      BY <3>1, Zenon DEF Decrements
    <3> QED BY <3>2
  <2> QED BY <2>1 DEF Changes, StepsOf
<1>3. Guarded(pc[u].seg, pc[u].itr, m)
  BY <1>1, <1>2, WhoChanges, Threads
<1> QED BY <1>1, <1>3 DEF HoldsGuards

\* Only SUB x,x,1 stores to a counter.
LEMMA StoresIt ==
    ASSUME IInv, HoldsChanged, NEW d \in Those(1, "alloc"), NEW m, IsCounter(d, m),
           NEW t \in Thread, Store(t), pool[Counted(d)] # Null, regs[t].ptr = pool[Counted(d)]
    PROVE  t \in Child /\ InDecrement(t, Counted(d))
<1>1. InWork(t) /\ Cur(t).kind = "store"
  BY DEF Store, AtStep
<1>2. PastTarget(t)
  BY <1>1, FollowsItsLookup DEF PastTarget
<1>3. Changes(pc[t].seg, pc[t].itr, Counted(d))
  BY <1>2, CounterShape DEF HoldsChanged
<1>4. Cur(t) # code[1][d][1]
  BY <1>1, CounterShape
<1> QED BY <1>1, <1>3, <1>4, WhoChanges

-----------------------------------------------------------------------------
(* The steps of a program with counters.                                   *)

LEMMA InjStep ==
    ASSUME IInv, PointerInv, PoolInj, NEW t \in Thread, ThreadStep(t)
    PROVE  PoolInj'
<1>1. used \in Nat /\ pool \in [Names -> Object] /\ \A x \in Names : pool[x] \in 0..used
  BY DEF PointerInv, PoolOK, IInv, TypeOK
<1>2. CASE Allocate(t)
  <2>1. pool' = [pool EXCEPT ![Cur(t).name] = used + 1]
    BY <1>2 DEF Allocate
  <2>2. \A x \in Names : IF x = Cur(t).name THEN pool'[x] = used + 1 ELSE pool'[x] = pool[x]
    BY <1>1, <2>1
  <2> QED BY <1>1, <2>2 DEF PoolInj, Null
<1>3. CASE ~Allocate(t)
  <2>1. pool' = pool
    BY <1>3 DEF ThreadStep, memory, Target, Lookup, Copy, Immediate, Load,
         Store, Jump, Nop, Finish, Lock, Unlock, Write, Report, Create, PushBack,
         BarrierBegin, JoinEnter, JoinReturn, BarrierEnd, FreePools, DeleteThreads
  <2> QED BY <2>1 DEF PoolInj
<1> QED BY <1>2, <1>3

LEMMA FreshStep ==
    ASSUME IInv, Fresh, NEW t \in Thread, ThreadStep(t)
    PROVE  Fresh'
<1> SUFFICES ASSUME NEW u \in Child, phase'[u] = "unborn" PROVE pc'[u].itr = 1
  BY DEF Fresh
<1>1. phase[u] = "unborn"
  BY ChildForward
<1>2. u \in Thread /\ u # Main
  BY Threads
<1>3. pc'[u] = pc[u]
  BY <1>1, <1>2, Iterates DEF InWork
<1> QED BY <1>1, <1>3 DEF Fresh

LEMMA PastKept ==
    ASSUME IInv, NEW t \in Thread, ThreadStep(t), NEW u \in Thread, PastTarget(u)'
    PROVE  /\ pc'[u].seg = pc[u].seg /\ pc'[u].itr = pc[u].itr
           /\ PastTarget(u) \/ (u = t /\ InWork(t) /\ Target(t) /\ GoOn(t))
<1>1. pc \in [Thread -> [seg : Nat, itr : Nat, step : Nat]] /\ code' = code
  BY StepKinds DEF IInv, TypeOK
<1>2. PICK j \in 1..(pc'[u].step - 1) : code[pc'[u].seg][pc'[u].itr][j].kind = "target"
  BY <1>1 DEF PastTarget, Work
<1>3. pc'[u].step # 1
  BY <1>2
<1>4. CASE pc'[u] = pc[u]
  BY <1>2, <1>4 DEF PastTarget, Work
<1>5. CASE u = t /\ InWork(t) /\ GoOn(t)
  <2>1. /\ pc'[t].seg = pc[t].seg /\ pc'[t].itr = pc[t].itr /\ pc'[t].step = pc[t].step + 1
        /\ pc[t].step \in Nat
    BY <1>3, <1>5, WentOn
  <2>2. CASE j = pc[t].step
    <3>1. Cur(t).kind = "target"
      BY <1>2, <1>5, <2>1, <2>2 DEF Cur, Work
    <3> QED BY <1>5, <2>1, <3>1, TakesItsStep
  <2>3. CASE j # pc[t].step
    BY <1>2, <1>5, <2>1, <2>3 DEF PastTarget, Work
  <2> QED BY <2>2, <2>3
<1>6. CASE u = t /\ pc' = [pc EXCEPT ![t] = NextWork(pc[t])]
  BY <1>1, <1>3, <1>6 DEF NextWork
<1>7. CASE u = t /\ pc' = [pc EXCEPT ![t] = Landing(Cur(t).at[2])]
  BY <1>1, <1>3, <1>7 DEF Landing
<1> QED BY <1>3, <1>4, <1>5, <1>6, <1>7, Iterates

LEMMA HoldsChangedStep ==
    ASSUME IInv, PointerInv, PoolInj, HoldsChanged, NEW t \in Thread, ThreadStep(t)
    PROVE  HoldsChanged'
<1>1. code' = code /\ used \in Nat /\ pool \in [Names -> Object] /\ regs \in [Thread -> Registers]
      /\ \A x \in Names : pool[x] \in 0..used
  BY StepKinds DEF PointerInv, PoolOK, IInv, TypeOK, Registers
<1> SUFFICES ASSUME NEW u \in Thread, NEW y \in Names,
                    PastTarget(u)', pool'[y] # Null, regs'[u].ptr = pool'[y]
             PROVE  Changes(pc[u].seg, pc[u].itr, y)
  BY <1>1, PastKept, SameCode DEF HoldsChanged
<1>2. CASE u = t /\ InWork(t) /\ Target(t) /\ GoOn(t)
  <2>1. pc'[t] # pc[t] /\ pool' = pool /\ Cur(t).kind = "target"
    BY <1>2, WentOn DEF Target, memory, AtStep
  <2>2. CASE regs' = [regs EXCEPT ![t].ptr = pool[Cur(t).name]]
    <3>1. regs'[t].ptr = pool[Cur(t).name] /\ Cur(t).name \in Names
      BY <1>1, <1>2, <2>1, <2>2, CurTyped DEF Registers, Naming
    <3>2. y = Cur(t).name
      BY <1>2, <2>1, <3>1 DEF PoolInj
    <3> QED BY <1>2, <2>1, <3>2, ChangesHere
  <2>3. CASE pool[Cur(t).name] = Null /\ pc' = [pc EXCEPT ![t] = NextWork(pc[t])]
    <3>1. pc'[t].step = 1
      BY <2>3 DEF NextWork, IInv, TypeOK
    <3> QED BY <1>2, <3>1 DEF PastTarget
  <2>4. CASE pc' = pc
    BY <2>1, <2>4
  <2> QED BY <1>2, <2>2, <2>3, <2>4 DEF Target, Throw
<1>3. CASE ~(u = t /\ InWork(t) /\ Target(t) /\ GoOn(t))
  <2>1. PastTarget(u) /\ regs[u].ptr \in 1..used
    BY <1>3, PastKept DEF PointerInv, RegsOK, PastTarget
  <2>2. regs'[u].ptr = regs[u].ptr
    <3>1. CASE u = t /\ Target(t)
      <4>1. InWork(t) /\ ~GoOn(t)
        BY <1>3, <3>1 DEF Target, AtStep
      <4> QED BY <3>1, <4>1 DEF Target, Throw
    <3>2. CASE u = t /\ (Lookup(t) \/ Copy(t) \/ Immediate(t) \/ Load(t))
      BY <1>1, <3>2 DEF Lookup, Copy, Immediate, Load, Throw, Operand, Registers
    <3> QED BY <3>1, <3>2, RegsChange
  <2>3. pool'[y] = pool[y]
    <3>1. CASE Allocate(t)
      <4>1. pool'[y] = IF y = Cur(t).name THEN used + 1 ELSE pool[y]
        BY <1>1, <3>1 DEF Allocate
      <4>2. pool'[y] # used + 1
        <5>1. regs[u].ptr # used + 1
          BY <1>1, <2>1
        <5> QED BY <2>2, <5>1
      <4> QED BY <4>1, <4>2
    <3>2. CASE ~Allocate(t)
      BY <3>2 DEF ThreadStep, memory, Target, Lookup, Copy, Immediate, Load,
         Store, Jump, Nop, Finish, Lock, Unlock, Write, Report, Create, PushBack,
         BarrierBegin, JoinEnter, JoinReturn, BarrierEnd, FreePools, DeleteThreads
    <3> QED BY <3>1, <3>2
  <2> QED BY <2>1, <2>2, <2>3 DEF HoldsChanged
<1> QED BY <1>2, <1>3

LEMMA HoldsGuardsStep ==
    ASSUME IInv, HoldsGuards, NEW t \in Thread, ThreadStep(t)
    PROVE  HoldsGuards'
<1>1. /\ code' = code /\ held \in [Thread -> SUBSET Site]
      /\ pc \in [Thread -> [seg : Nat, itr : Nat, step : Nat]]
  BY StepKinds DEF IInv, TypeOK
<1> SUFFICES ASSUME NEW u \in Child, NEW m \in BlockMutexes, InWork(u)',
                    Guarded(pc'[u].seg, pc'[u].itr, m), ~Unlocks(pc'[u].seg, pc'[u].itr, m)
             PROVE  m \in held'[u]
  BY <1>1, SameCode DEF HoldsGuards
<1>2. u \in Thread /\ u # Main
  BY Threads
<1>3. PICK j \in 1..(pc'[u].itr - 1) : /\ Locks(pc'[u].seg, j, m)
                                       /\ \A k \in (j + 1)..(pc'[u].itr - 1) : ~Unlocks(pc'[u].seg, k, m)
  BY DEF Guarded
<1>4. pc'[u].itr # 1 /\ phase'[u] = "live"
  BY <1>3 DEF InWork
<1>5. phase[u] = "live"
  BY <1>4, Alive
<1>6. ASSUME m \in held[u], ~(u = t /\ InWork(t) /\ Unlocks(pc[t].seg, pc[t].itr, m))
      PROVE  m \in held'[u]
  <2>1. CASE Lock(t)
    BY <1>1, <1>2, <1>6, <2>1 DEF Lock
  <2>2. CASE Unlock(t)
    <3>1. InWork(t) /\ Cur(t).kind = "unlock" /\ held' = [held EXCEPT ![t] = @ \ {Cur(t).at}]
      BY <2>2 DEF Unlock, AtStep
    <3>2. CASE u = t
      <4>1. Cur(t).at # m
        BY <1>6, <3>1, <3>2, AtStepOf DEF Unlocks, StepsOf
      <4> QED BY <1>1, <1>6, <3>1, <3>2, <4>1
    <3>3. CASE u # t
      BY <1>1, <1>2, <1>6, <3>1, <3>3
    <3> QED BY <3>2, <3>3
  <2>3. CASE UNCHANGED <<locked, held>>
    BY <1>6, <2>3
  <2> QED BY <2>1, <2>2, <2>3, StepKinds
<1>7. ASSUME pc'[u].seg = pc[u].seg, pc'[u].itr = pc[u].itr PROVE m \in held'[u]
  <2>1. InWork(u)
    BY <1>1, <1>5, <1>7 DEF InWork
  <2>2. m \in held[u]
    BY <1>7, <2>1 DEF HoldsGuards
  <2> QED BY <1>6, <1>7, <2>2
<1>8. ASSUME u = t, InWork(t), pc'[u].seg = pc[u].seg, pc'[u].itr = pc[u].itr + 1
      PROVE  m \in held'[u]
  <2> DEFINE g == pc[u].seg  i == pc[u].itr
  <2>1. i \in Nat /\ j \in 1..i /\ Locks(g, j, m) /\ \A k \in (j + 1)..i : ~Unlocks(g, k, m)
    BY <1>1, <1>2, <1>3, <1>8
  <2> HIDE DEF g, i
  <2>2. CASE j = i
    <3>1. PICK s \in StepsOf(g, i) : s.kind = "lock" /\ s.at = m /\ StepsOf(g, i) = {s}
      BY <2>1, <2>2 DEF Locks
    <3>2. Cur(t) = s
      <4>1. Cur(t) \in StepsOf(pc[t].seg, pc[t].itr)
        BY <1>8, AtStepOf DEF StepsOf
      <4> QED BY <1>8, <3>1, <4>1 DEF g, i
    <3>3. Lock(t)
      BY <1>8, <3>1, <3>2, TakesItsStep
    <3> QED BY <1>1, <1>8, <3>1, <3>2, <3>3 DEF Lock
  <2>3. CASE j # i
    <3>1. j \in 1..(i - 1) /\ i \in (j + 1)..i /\ (j + 1)..(i - 1) \subseteq (j + 1)..i
      BY <2>1, <2>3
    <3>2. Guarded(g, i, m) /\ ~Unlocks(g, i, m)
      BY <2>1, <3>1 DEF Guarded
    <3>3. m \in held[u]
      BY <1>8, <3>2 DEF HoldsGuards, g, i
    <3> QED BY <1>6, <1>8, <3>2, <3>3 DEF g, i
  <2> QED BY <2>2, <2>3
<1>9. CASE pc'[u] = pc[u]
  BY <1>7, <1>9
<1>10. CASE u = t /\ InWork(t) /\ GoOn(t)
  BY <1>7, <1>8, <1>10, WentOn
<1>11. CASE u = t /\ InWork(t) /\ pc' = [pc EXCEPT ![t] = NextWork(pc[t])]
  <2>1. pc'[u].seg = pc[u].seg /\ pc'[u].itr = pc[u].itr + 1
    BY <1>1, <1>11 DEF NextWork
  <2> QED BY <1>8, <1>11, <2>1
<1> QED BY <1>2, <1>4, <1>9, <1>10, <1>11, Iterates

\* The main program reaches what follows a declaration by making it.
LEMMA DeclaredFirstStep ==
    ASSUME IInv, NEW d \in Those(1, "alloc"), NEW m, IsCounter(d, m), DeclaredFirst(d),
           NEW t \in Thread, ThreadStep(t)
    PROVE  DeclaredFirst(d)'
<1>1. /\ code' = code /\ phase \in [Thread -> Phases] /\ Main \in Thread
      /\ pc \in [Thread -> [seg : Nat, itr : Nat, step : Nat]]
      /\ Counted(d)' = Counted(d)
  BY StepKinds, Threads, SameCode DEF IInv, TypeOK
<1>2. d \in Nat /\ Counted(d) \in Names /\ pc[Main].itr \in Nat /\ pc'[Main].itr \in Nat
  <2>1. pc'[Main] \in [seg : Nat, itr : Nat, step : Nat]
    BY <1>1, NextIInv DEF IInv, TypeOK, Next
  <2> QED BY <1>1, <2>1, CounterShape
<1>3. ASSUME pc[Main].itr <= d, NEW u \in Child PROVE phase'[u] = "unborn"
  <2>1. phase[u] = "unborn"
    BY <1>3 DEF DeclaredFirst
  <2>2. ~Create(t)
    <3> SUFFICES ASSUME Create(t) PROVE FALSE
      OBVIOUS
    <3>1. InWork(t) /\ Cur(t).kind = "thread"
      BY DEF Create, AtStep
    <3>2. t = Main
      BY <3>1, CurTyped, Threads DEF IInv, PcOK, InWork
    <3>3. pc[Main].itr \in Those(1, "thread")
      BY <3>1, <3>2, AtStepOf
    <3>4. pc[Main].itr > d
      BY <3>3 DEF IsCounter
    <3> QED BY <1>2, <1>3, <3>4
  <2> QED BY <1>1, <2>1, <2>2, PhaseStep, Threads
<1>4. ASSUME pc[Main].itr > d PROVE pc'[Main].itr > d /\ pool'[Counted(d)] # Null
  <2>1. pool[Counted(d)] # Null
    BY <1>2, <1>4 DEF DeclaredFirst
  <2>2. pool'[Counted(d)] # Null
    BY <1>2, <2>1, PoolKept DEF InPool
  <2>3. CASE t = Main /\ InWork(t) /\ Cur(t).kind = "jump"
             /\ pc' = [pc EXCEPT ![t] = Landing(Cur(t).at[2])]
    <3>1. <<pc[Main].itr, Cur(t).at[2]>> \in JumpEdges
      BY <2>3, Edge
    <3>2. Cur(t).at[2] >= d /\ Cur(t).at[2] \in Nat
      <4>1. <<pc[Main].itr, Cur(t).at[2]>>[2] >= d
        BY <3>1 DEF IsCounter
      <4> QED BY <2>3, <4>1, CurTyped DEF Step
    <3> QED BY <1>1, <1>2, <2>2, <2>3, <3>2 DEF Landing
  <2>4. CASE t = Main /\ InWork(t) /\ GoOn(t)
    BY <1>2, <1>4, <2>2, <2>4, WentOn
  <2>5. CASE t = Main /\ pc' = [pc EXCEPT ![t] = NextWork(pc[t])]
    BY <1>1, <1>2, <1>4, <2>2, <2>5 DEF NextWork
  <2> QED BY <1>1, <1>4, <2>2, <2>3, <2>4, <2>5, Iterates, Threads
<1>5. ASSUME pc[Main].itr <= d, pc'[Main].itr > d PROVE pool'[Counted(d)] # Null
  <2>1. CASE t = Main /\ InWork(t) /\ Cur(t).kind = "jump"
    <3>1. <<pc[Main].itr, Cur(t).at[2]>> \in JumpEdges
      BY <2>1, Edge
    <3>2. pc[Main].itr > d
      BY <3>1 DEF IsCounter
    <3> QED BY <1>2, <1>5, <3>2
  <2>2. ASSUME t = Main, InWork(t), pc'[t].itr = pc[t].itr + 1 PROVE Allocate(t) /\ Cur(t).name = Counted(d)
    <3>1. pc[t].itr = d
      BY <1>2, <1>5, <2>2
    <3>2. Cur(t) = code[1][d][1]
      <4>1. /\ pc[t].step \in 1..Len(code[1][d]) /\ Cur(t) = code[1][d][pc[t].step]
        BY <2>2, <3>1, AtStepOf
      <4> QED BY <4>1, CounterShape
    <3>3. Cur(t).kind = "alloc"
      BY <3>2, CounterShape
    <3> QED BY <2>2, <3>2, <3>3, TakesItsStep DEF Counted
  <2>3. CASE t = Main /\ InWork(t) /\ GoOn(t)
    <3>1. pc'[t].itr = pc[t].itr + 1
      BY <1>2, <1>5, <2>3, WentOn
    <3> QED BY <2>2, <2>3, <3>1, Allocated DEF InPool
  <2>4. CASE t = Main /\ InWork(t) /\ pc' = [pc EXCEPT ![t] = NextWork(pc[t])]
    <3>1. pc'[t].itr = pc[t].itr + 1
      BY <1>1, <2>4 DEF NextWork
    <3> QED BY <2>2, <2>4, <3>1, Allocated DEF InPool
  <2>5. pc'[Main] # pc[Main]
    BY <1>2, <1>5
  <2> QED BY <1>1, <2>1, <2>3, <2>4, <2>5, Iterates, Threads
<1> QED BY <1>1, <1>2, <1>3, <1>4, <1>5 DEF DeclaredFirst

\* Only its declaration gives a counter its object, and only a store to that
\* object changes its value.
LEMMA ObjectKept ==
    ASSUME IInv, PointerInv, NEW x \in Names, NEW t \in Thread, ThreadStep(t),
           ~(Allocate(t) /\ Cur(t).name = x)
    PROVE  /\ pool'[x] = pool[x]
           /\ \/ heap'[pool[x]] = heap[pool[x]]
              \/ Store(t) /\ regs[t].ptr = pool[x]
<1> DEFINE p == pool[x]
<1>1. /\ used \in Nat /\ pool \in [Names -> Object] /\ heap \in [Object -> Word]
      /\ p \in 0..used /\ regs \in [Thread -> Registers]
  BY DEF PointerInv, PoolOK, IInv, TypeOK, Registers
<1>2. CASE Allocate(t)
  <2>1. /\ pool' = [pool EXCEPT ![Cur(t).name] = used + 1]
        /\ heap' = [heap EXCEPT ![used + 1] = Cur(t).num]
    BY <1>2 DEF Allocate
  <2>2. pool'[x] = p
    BY <1>1, <1>2, <2>1
  <2>3. p # used + 1
    BY <1>1
  <2>4. heap'[p] = heap[p]
    BY <1>1, <2>1, <2>3
  <2> QED BY <2>2, <2>4
<1>3. CASE Store(t)
  <2>1. /\ pool' = pool
        /\ \/ heap' = heap
           \/ heap' = [heap EXCEPT ![regs[t].ptr] = Result(Cur(t).how, regs[t], @)]
    BY <1>3 DEF Store
  <2>2. regs[t].ptr # p => heap'[p] = heap[p]
    BY <1>1, <2>1
  <2> QED BY <1>3, <2>1, <2>2
<1>4. CASE ~Allocate(t) /\ ~Store(t)
  <2>1. pool' = pool /\ heap' = heap
    BY <1>4 DEF ThreadStep, memory, Target, Lookup, Copy, Immediate, Load,
         Jump, Nop, Finish, Lock, Unlock, Write, Report, Create, PushBack,
         BarrierBegin, JoinEnter, JoinReturn, BarrierEnd, FreePools, DeleteThreads
  <2> QED BY <2>1
<1> QED BY <1>2, <1>3, <1>4

\* While a child is alive every counter has its object.
LEMMA PointsOn ==
    ASSUME IInv, NEW d \in Those(1, "alloc"), NEW m, IsCounter(d, m), DeclaredFirst(d),
           NEW u \in Child, phase[u] = "live", NEW t \in Thread
    PROVE  pool[Counted(d)] # Null /\ ~(Allocate(t) /\ Cur(t).name = Counted(d))
<1>1. ~(pc[Main].itr <= d) /\ pool[Counted(d)] # Null
  BY DEF DeclaredFirst
<1>2. pc[Main].itr # d
  <2>1. d \in Nat
    BY CounterShape
  <2> QED BY <1>1, <2>1
<1> QED BY <1>1, <1>2, DeclaresIt

\* One thread at a time is in a decrement of a counter.
LEMMA OneDecrements ==
    ASSUME IInv, MutualExclusion, HoldsGuards, Defined,
           NEW d \in Those(1, "alloc"), NEW m \in BlockMutexes, IsCounter(d, m),
           NEW t \in Child, NEW u \in Child,
           InDecrement(t, Counted(d)), InDecrement(u, Counted(d))
    PROVE  t = u
<1>1. m \in held[t] /\ m \in held[u]
  BY HoldsMutex
<1>2. "unlock" \notin ub /\ t \in Thread /\ u \in Thread
  BY Threads DEF Defined
<1> QED BY <1>1, <1>2 DEF MutualExclusion

\* A thread is past the first step of a decrement only if it was in it.
LEMMA StaysInDecrement ==
    ASSUME IInv, NEW t \in Thread, ThreadStep(t), NEW u \in Child, NEW x,
           InDecrement(u, x)', pc'[u].step # 1
    PROVE  /\ InDecrement(u, x)
           /\ pc'[u] = pc[u] \/ (u = t /\ GoOn(t) /\ pc'[u].step = pc[u].step + 1)
<1>1. /\ code' = code /\ u \in Thread /\ u # Main
      /\ pc \in [Thread -> [seg : Nat, itr : Nat, step : Nat]]
  BY StepKinds, Threads DEF IInv, TypeOK
<1>2. phase'[u] = "live" /\ pc'[u].itr <= Len(code[pc'[u].seg]) /\ Decrements(pc'[u].seg, pc'[u].itr, x)
  BY <1>1, SameCode DEF InDecrement, InWork
<1>3. phase[u] = "live"
  BY <1>2, Alive
<1>4. CASE pc'[u] = pc[u]
  BY <1>2, <1>3, <1>4 DEF InDecrement, InWork
<1>5. CASE u = t /\ InWork(t) /\ GoOn(t)
  <2>1. pc'[u].seg = pc[u].seg /\ pc'[u].itr = pc[u].itr /\ pc'[u].step = pc[u].step + 1
    BY <1>5, WentOn
  <2> QED BY <1>2, <1>3, <1>5, <2>1 DEF InDecrement, InWork
<1>6. CASE u = t /\ pc' = [pc EXCEPT ![t] = NextWork(pc[t])]
  <2>1. pc'[u].step = 1
    BY <1>1, <1>6 DEF NextWork
  <2> QED BY <2>1
<1> QED BY <1>1, <1>3, <1>4, <1>5, <1>6, Iterates

\* One step of SUB x,x,1.
LEMMA MidwayStep ==
    ASSUME IInv, NEW t \in Child, ThreadStep(t), NEW x, InDecrement(t, x), GoOn(t),
           pool[x] # Null, pool'[x] = pool[x], Midway(t, x), "free" \notin ub',
           pc'[t].step = pc[t].step + 1
    PROVE  Midway(t, x)'
<1> DEFINE p == pool[x]
<1>1. /\ regs \in [Thread -> Registers] /\ heap \in [Object -> Word] /\ t \in Thread
      /\ pc[t].step \in 1..5 /\ InWork(t)
  BY AtDecrement, Threads DEF IInv, TypeOK, Registers, InDecrement
<1>2. CASE pc[t].step = 1
  <2>1. Target(t) /\ Cur(t).name = x
    BY <1>1, <1>2, AtDecrement, TakesItsStep
  <2>2. regs' = [regs EXCEPT ![t].ptr = p]
    BY <2>1 DEF Target
  <2>3. regs'[t].ptr = p
    BY <1>1, <2>2 DEF Registers
  <2> QED BY <1>2, <2>3 DEF Midway
<1>3. CASE pc[t].step = 2
  <2>1. Immediate(t) /\ Cur(t).num = 1
    BY <1>1, <1>3, AtDecrement, TakesItsStep
  <2>2. regs'[t].ptr = regs[t].ptr /\ regs'[t].last = 1
    BY <1>1, <2>1 DEF Immediate, Operand, Registers
  <2> QED BY <1>3, <2>2 DEF Midway
<1>4. CASE pc[t].step = 3
  <2>1. Lookup(t) /\ Cur(t).name = x
    BY <1>1, <1>4, AtDecrement, TakesItsStep
  <2>2. regs' = [regs EXCEPT ![t].src = p]
    BY <2>1 DEF Lookup
  <2>3. regs'[t].src = p /\ regs'[t].ptr = regs[t].ptr /\ regs'[t].last = regs[t].last
    BY <1>1, <2>2 DEF Registers
  <2> QED BY <1>4, <2>3 DEF Midway
<1>5. CASE pc[t].step = 4
  <2>1. Copy(t) /\ regs[t].src = p /\ regs[t].last = 1 /\ regs[t].ptr = p
    BY <1>1, <1>5, AtDecrement, TakesItsStep DEF Midway
  <2>2. heap' = heap /\ ~Freed
    BY <2>1 DEF Copy, memory, Note
  <2>3. Operand(t, heap[p])
    BY <2>1, <2>2 DEF Copy, Read
  <2>4. regs'[t].ptr = p /\ regs'[t].prev = 1 /\ regs'[t].last = heap[p]
    BY <1>1, <2>1, <2>3 DEF Operand, Registers
  <2> QED BY <1>5, <2>2, <2>4 DEF Midway
<1>6. CASE pc[t].step = 5
  <2>1. Store(t)
    BY <1>1, <1>6, AtDecrement, TakesItsStep
  <2>2. regs'[t].ptr = p
    BY <1>6, <2>1 DEF Midway, Store
  <2> QED BY <1>6, <2>2 DEF Midway
<1> QED BY <1>1, <1>2, <1>3, <1>4, <1>5, <1>6

LEMMA DecrementingStep ==
    ASSUME IInv, PointerInv, MutualExclusion, HoldsChanged, HoldsGuards, Defined',
           NEW d \in Those(1, "alloc"), NEW m \in BlockMutexes, IsCounter(d, m),
           DeclaredFirst(d), NEW x, x = Counted(d), Decrementing(x),
           NEW t \in Thread, ThreadStep(t)
    PROVE  Decrementing(x)'
<1>1. Defined /\ "free" \notin ub'
  BY StepKinds DEF Defined
<1> SUFFICES ASSUME NEW u \in Child, InDecrement(u, x)' PROVE Midway(u, x)'
  BY DEF Decrementing
<1>2. CASE pc'[u].step = 1
  BY <1>2 DEF Midway
<1>3. CASE pc'[u].step # 1
  <2>1. /\ InDecrement(u, x)
        /\ pc'[u] = pc[u] \/ (u = t /\ GoOn(t) /\ pc'[u].step = pc[u].step + 1)
    BY <1>3, StaysInDecrement
  <2>2. Midway(u, x) /\ phase[u] = "live" /\ InWork(u)
    BY <2>1 DEF Decrementing, InDecrement, InWork
  <2>3. /\ pool[x] # Null /\ pool'[x] = pool[x]
        /\ heap'[pool[x]] = heap[pool[x]] \/ (Store(t) /\ regs[t].ptr = pool[x])
    BY <2>2, PointsOn, ObjectKept, CounterShape
  <2>4. CASE u = t /\ GoOn(t) /\ pc'[u].step = pc[u].step + 1
    BY <1>1, <2>1, <2>2, <2>3, <2>4, MidwayStep
  <2>5. CASE pc'[u] = pc[u] /\ u # t
    <3>1. regs'[u] = regs[u]
      BY <2>5, RegsChange, Threads
    <3>2. heap'[pool[x]] = heap[pool[x]]
      <4> SUFFICES ASSUME Store(t), regs[t].ptr = pool[x] PROVE FALSE
        BY <2>3
      <4>1. t \in Child /\ InDecrement(t, x)
        BY <2>3, StoresIt
      <4> QED BY <1>1, <2>1, <2>5, <4>1, OneDecrements
    <3> QED BY <2>2, <2>3, <2>5, <3>1, <3>2 DEF Midway
  <2>6. CASE pc'[u] = pc[u] /\ u = t
    <3>1. ~GoOn(t) /\ t \in Thread
      BY <2>2, <2>6, WentOn
    <3>2. ~Store(t) /\ regs'[t] = regs[t]
      BY <3>1, RegsChange DEF Store, Copy, Immediate, Load, Target, Lookup, Throw
    <3> QED BY <2>2, <2>3, <2>6, <3>2 DEF Midway
  <2> QED BY <2>1, <2>4, <2>5, <2>6
<1> QED BY <1>2, <1>3

-----------------------------------------------------------------------------
(* The count.                                                              *)

LEMMA MadeIs == \A x, e : e \in Made(x) <=> \E u \in Child : \E i \in MadeBy(u, x) : e = <<u, i>>
BY DEF Made, MadeBy

\* A step that is not the store of a decrement makes none.
LEMMA MadeKept ==
    ASSUME IInv, Fresh, NEW d \in Those(1, "alloc"), NEW m, IsCounter(d, m), DeclaredFirst(d),
           NEW x, x = Counted(d), NEW t \in Thread, ThreadStep(t),
           ~(t \in Child /\ InDecrement(t, x) /\ Store(t))
    PROVE  Made(x)' = Made(x)
<1>1. /\ code' = code /\ pc \in [Thread -> [seg : Nat, itr : Nat, step : Nat]]
      /\ \A g, i : Decrements(g, i, x)' = Decrements(g, i, x)
  BY StepKinds, SameCode DEF IInv, TypeOK
<1>2. ASSUME NEW u \in Child PROVE MadeBy(u, x)' = MadeBy(u, x)
  <2>1. u \in Thread /\ u # Main /\ pc[u].itr \in Nat
    BY <1>1, Threads
  <2>2. CASE pc'[u].itr = pc[u].itr /\ pc'[u].seg = pc[u].seg
    BY <1>1, <2>2 DEF MadeBy
  <2>3. ASSUME u = t, InWork(t), pc'[u].itr = pc[u].itr + 1, pc'[u].seg = pc[u].seg,
               ~Decrements(pc[u].seg, pc[u].itr, x)
        PROVE  MadeBy(u, x)' = MadeBy(u, x)
    <3>1. \A k \in 1..(pc[u].itr + 1 - 1) : k \in 1..(pc[u].itr - 1) \/ k = pc[u].itr
      BY <2>1
    <3>2. 1..(pc[u].itr - 1) \subseteq 1..(pc[u].itr + 1 - 1)
      BY <2>1
    <3> QED BY <1>1, <2>3, <3>1, <3>2 DEF MadeBy
  <2>4. CASE u = t /\ InWork(t) /\ GoOn(t)
    <3>1. CASE pc[t].step < Len(Work(t))
      BY <2>2, <2>4, <3>1, WentOn
    <3>2. CASE ~(pc[t].step < Len(Work(t)))
      <4>1. ASSUME Decrements(pc[u].seg, pc[u].itr, x) PROVE FALSE
        <5>1. InDecrement(t, x) /\ t \in Child
          BY <2>4, <4>1 DEF InDecrement
        <5>2. pc[t].step = 5
          <6>1. Len(Work(t)) = 5 /\ pc[t].step \in 1..5
            BY <5>1, AtDecrement
          <6> QED BY <3>2, <6>1
        <5>3. Store(t)
          BY <2>4, <5>1, <5>2, AtDecrement, TakesItsStep
        <5> QED BY <5>1, <5>3
      <4> QED BY <2>3, <2>4, <3>2, <4>1, WentOn
    <3> QED BY <3>1, <3>2
  <2>5. CASE u = t /\ InWork(t) /\ Target(t) /\ pool[Cur(t).name] = Null
             /\ pc' = [pc EXCEPT ![t] = NextWork(pc[t])]
    <3>1. pc'[u].itr = pc[u].itr + 1 /\ pc'[u].seg = pc[u].seg
      BY <1>1, <2>5 DEF NextWork
    <3>2. ASSUME Decrements(pc[u].seg, pc[u].itr, x) PROVE FALSE
      <4>1. InDecrement(t, x) /\ t \in Child /\ Cur(t).kind = "target" /\ phase[t] = "live"
        BY <2>5, <3>2 DEF InDecrement, Target, AtStep, InWork
      <4>2. pc[t].step \notin {2, 3, 4, 5}
        BY <4>1, AtDecrement
      <4>3. Cur(t).name = x
        BY <4>1, <4>2, AtDecrement
      <4>4. pool[x] # Null
        BY <4>1 DEF DeclaredFirst
      <4> QED BY <2>5, <4>3, <4>4
    <3> QED BY <2>3, <2>5, <3>1, <3>2
  <2>6. CASE phase[u] = "unborn" /\ pc'[u].itr = 1
    <3>1. pc[u].itr = 1
      BY <2>6 DEF Fresh
    <3>2. 1..(pc[u].itr - 1) = {} /\ 1..(pc'[u].itr - 1) = {}
      BY <2>6, <3>1
    <3> QED BY <3>2 DEF MadeBy
  <2> QED BY <2>1, <2>2, <2>4, <2>5, <2>6, Iterates
<1>3. Made(x)' = UNION {{<<u, i>> : i \in MadeBy(u, x)'} : u \in Child}
  BY DEF Made, MadeBy
<1>4. Made(x) = UNION {{<<u, i>> : i \in MadeBy(u, x)} : u \in Child}
  BY DEF Made, MadeBy
<1> QED BY <1>2, <1>3, <1>4

LEMMA WrapSame == \A n \in Word : Wrap(n - 0) = n
<1> SUFFICES ASSUME NEW n \in Word PROVE Wrap(n) = n
  BY DEF Word
<1>1. n + Half \in 0..(2 * Half - 1) /\ n \in Int /\ Half \in Nat \ {0}
  BY HalfAssumption DEF Word
<1>2. (n + Half) % (2 * Half) = n + Half
  <2> DEFINE b == n + Half  k == 2 * Half  r == b % k
  <2>1. b \in 0..(k - 1) /\ b \in Int /\ k \in Nat \ {0}
    BY <1>1
  <2> HIDE DEF b, k
  <2>2. r \in 0..(k - 1) /\ b = k * (b \div k) + r /\ b \div k \in Int
    BY <2>1, Divided
  <2> HIDE DEF r
  <2>3. b - r = k * (b \div k)
    BY <2>1, <2>2
  <2>4. b = r
    BY <2>1, <2>2, <2>3, SameRemainder
  <2> QED BY <2>4 DEF b, k, r
<1> QED BY <1>1, <1>2 DEF Wrap

\* The declaration starts the count.
LEMMA CountStarts ==
    ASSUME IInv, PointerInv, Fresh, NEW d \in Those(1, "alloc"), NEW m, IsCounter(d, m),
           DeclaredFirst(d), NEW x, x = Counted(d),
           NEW t \in Thread, ThreadStep(t), Allocate(t), Cur(t).name = x
    PROVE  /\ Made(x)' = {} /\ heap'[pool'[x]] = code[1][d][1].num
<1>1. t = Main /\ pc[Main].itr = d /\ Cur(t) = code[1][d][1] /\ d \in Nat /\ x \in Names
  BY DeclaresIt, CounterShape
<1>2. \A u \in Child : phase[u] = "unborn"
  BY <1>1 DEF DeclaredFirst
<1>3. Made(x)' = Made(x)
  BY <1>1, MadeKept, Threads
<1>4. \A u \in Child : MadeBy(u, x) = {}
  BY <1>2 DEF Fresh, MadeBy
<1>5. Made(x) = {}
  BY <1>4, MadeIs
<1>6. /\ used \in Nat /\ pool \in [Names -> Object] /\ heap \in [Object -> Word]
      /\ used + 1 \in Object
      /\ pool' = [pool EXCEPT ![x] = used + 1]
      /\ heap' = [heap EXCEPT ![used + 1] = Cur(t).num]
  BY BoundsAssumption DEF IInv, TypeOK, Allocate, Object
<1>7. heap'[pool'[x]] = Cur(t).num
  BY <1>1, <1>6
<1> QED BY <1>1, <1>3, <1>5, <1>7

\* A decrement that ends is one that was not made before.
LEMMA MakesOne ==
    ASSUME IInv, NEW x, NEW t \in Child, InDecrement(t, x), Store(t), ThreadStep(t)
    PROVE  \E e : e \notin Made(x) /\ Made(x)' = Made(x) \cup {e}
<1>1. /\ code' = code /\ pc \in [Thread -> [seg : Nat, itr : Nat, step : Nat]]
      /\ \A g, i : Decrements(g, i, x)' = Decrements(g, i, x)
      /\ t \in Thread
  BY StepKinds, SameCode, Threads DEF IInv, TypeOK
<1> DEFINE g == pc[t].seg  i == pc[t].itr  e == <<t, i>>
<1>2. InWork(t) /\ GoOn(t) /\ Decrements(g, i, x) /\ ~(pc[t].step < Len(Work(t))) /\ i \in Nat
  <2>1. pc[t].step = 5 /\ Len(Work(t)) = 5
    <3>1. Cur(t).kind = "store"
      BY DEF Store, AtStep
    <3> QED BY <3>1, AtDecrement
  <2> QED BY <1>1, <2>1 DEF InDecrement, Store
<1>3. /\ pc'[t].seg = g /\ pc'[t].itr = i + 1
      /\ \A u \in Child : u # t => pc'[u] = pc[u]
  BY <1>1, <1>2, WentOn, Threads DEF GoOn
<1>4. \A u \in Child : u # t => MadeBy(u, x)' = MadeBy(u, x)
  BY <1>1, <1>3 DEF MadeBy
<1> HIDE DEF g, i
<1>5. MadeBy(t, x)' = MadeBy(t, x) \cup {i} /\ i \notin MadeBy(t, x)
  <2>1. 1..(i + 1 - 1) = 1..(i - 1) \cup {i} /\ i \notin 1..(i - 1)
    <3>1. i >= 1
      BY <1>1 DEF IInv, PcOK, InCode, i
    <3> QED BY <1>2, <3>1
  <2>2. ASSUME NEW k
        PROVE  k \in MadeBy(t, x)' <=> (k \in 1..(i + 1 - 1) /\ Decrements(g, k, x))
    <3>1. k \in MadeBy(t, x)' <=> (k \in 1..(pc'[t].itr - 1) /\ Decrements(pc[t].seg, k, x)')
      BY DEF MadeBy
    <3>2. Decrements(pc[t].seg, k, x)' <=> Decrements(g, k, x)
      BY <1>1, <1>3 DEF Decrements, g
    <3>3. k \in 1..(pc'[t].itr - 1) <=> k \in 1..(i + 1 - 1)
      <4>1. pc'[t].itr - 1 = i + 1 - 1
        BY <1>2, <1>3
      <4> QED BY <4>1, Zenon
    <3> QED BY <3>1, <3>2, <3>3, Zenon
  <2>3. \A k : k \in MadeBy(t, x) <=> (k \in 1..(i - 1) /\ Decrements(g, k, x))
    BY DEF MadeBy, g, i
  <2> QED BY <1>2, <2>1, <2>2, <2>3
<1>6. Made(x)' = UNION {{<<u, k>> : k \in MadeBy(u, x)'} : u \in Child}
  BY DEF Made, MadeBy
<1>7. Made(x) = UNION {{<<u, k>> : k \in MadeBy(u, x)} : u \in Child}
  BY DEF Made, MadeBy
<1>8. e \notin Made(x)
  BY <1>5, <1>7
<1>9. Made(x)' = Made(x) \cup {e}
  <2>1. ASSUME NEW z \in Made(x)' PROVE z \in Made(x) \cup {e}
    <3>1. PICK u \in Child : \E k \in MadeBy(u, x)' : z = <<u, k>>
      BY <1>6
    <3>2. PICK k \in MadeBy(u, x)' : z = <<u, k>>
      BY <3>1
    <3>3. CASE u = t
      BY <1>5, <1>7, <3>2, <3>3
    <3>4. CASE u # t
      BY <1>4, <1>7, <3>2, <3>4
    <3> QED BY <3>3, <3>4
  <2>2. ASSUME NEW z \in Made(x) PROVE z \in Made(x)'
    <3>1. PICK u \in Child : \E k \in MadeBy(u, x) : z = <<u, k>>
      BY <1>7
    <3>2. PICK k \in MadeBy(u, x) : z = <<u, k>>
      BY <3>1
    <3>3. k \in MadeBy(u, x)'
      BY <1>4, <1>5, <3>2
    <3> QED BY <1>6, <3>2, <3>3
  <2>3. e \in Made(x)'
    BY <1>5, <1>6
  <2> QED BY <2>1, <2>2, <2>3
<1> QED BY <1>8, <1>9

\* The value that a decrement stores.
LEMMA StoresLess ==
    ASSUME IInv, NEW x \in Names, NEW t \in Child, InDecrement(t, x), Store(t), Midway(t, x),
           pool[x] # Null, "free" \notin ub'
    PROVE  pool' = pool /\ heap'[pool[x]] = Wrap(heap[pool[x]] - 1)
<1>1. /\ pool \in [Names -> Object] /\ heap \in [Object -> Word]
      /\ pool[x] \in Object
  BY DEF IInv, TypeOK
<1>2. pc[t].step = 5 /\ Cur(t).how = "sub"
  <2>1. Cur(t).kind = "store"
    BY DEF Store, AtStep
  <2> QED BY <2>1, AtDecrement
<1>3. regs[t].ptr = pool[x] /\ regs[t].prev = 1 /\ regs[t].last = heap[pool[x]]
  BY <1>2 DEF Midway
<1>4. ~Freed /\ pool' = pool
  BY DEF Store, Note
<1>5. heap' = [heap EXCEPT ![pool[x]] = Result("sub", regs[t], @)]
  BY <1>2, <1>3, <1>4 DEF Store
<1>6. \A old : Result("sub", regs[t], old) = Wrap(heap[pool[x]] - 1)
  BY <1>3 DEF Result
<1>7. heap'[pool[x]] = Wrap(heap[pool[x]] - 1)
  BY <1>1, <1>5, <1>6
<1> QED BY <1>4, <1>7

\* No update is lost.
LEMMA CountsStep ==
    ASSUME IInv, PointerInv, Fresh, HoldsChanged, Defined',
           NEW d \in Those(1, "alloc"), NEW m, IsCounter(d, m), DeclaredFirst(d),
           NEW x, x = Counted(d), Decrementing(x), Counts(d),
           NEW t \in Thread, ThreadStep(t)
    PROVE  Counts(d)'
<1> DEFINE n == code[1][d][1].num
<1>1. /\ code' = code /\ Counted(d)' = x /\ "free" \notin ub' /\ x \in Names
      /\ n \in Word /\ IsFiniteSet(Made(x))
      /\ pool[x] # Null => heap[pool[x]] = Wrap(n - Cardinality(Made(x)))
  BY StepKinds, SameCode, CounterShape DEF Defined, Counts, Step
<1> HIDE DEF n
<1> SUFFICES /\ IsFiniteSet(Made(x)')
             /\ pool'[x] # Null => heap'[pool'[x]] = Wrap(n - Cardinality(Made(x)'))
  <2>1. Made(Counted(d))' = Made(x)' /\ code'[1][d][1].num = n
    BY <1>1 DEF Made, n
  <2> QED BY <1>1, <2>1 DEF Counts
<1>2. CASE Allocate(t) /\ Cur(t).name = x
  <2>1. Made(x)' = {} /\ heap'[pool'[x]] = n
    BY <1>2, CountStarts DEF n
  <2>2. IsFiniteSet({}) /\ Cardinality({}) = 0
    BY FS_EmptySet
  <2> QED BY <1>1, <2>1, <2>2, WrapSame
<1>3. CASE t \in Child /\ InDecrement(t, x) /\ Store(t)
  <2>1. PICK e : e \notin Made(x) /\ Made(x)' = Made(x) \cup {e}
    BY <1>3, MakesOne
  <2>2. IsFiniteSet(Made(x)') /\ Cardinality(Made(x)') = Cardinality(Made(x)) + 1
    BY <1>1, <2>1, FS_AddElement
  <2>3. Cardinality(Made(x)) \in Nat
    BY <1>1, FS_CardinalityType
  <2>4. pool[x] # Null
    <3>1. phase[t] = "live"
      BY <1>3 DEF InDecrement, InWork
    <3> QED BY <1>3, <3>1, PointsOn
  <2>5. Midway(t, x)
    BY <1>3 DEF Decrementing
  <2>6. pool' = pool /\ heap'[pool[x]] = Wrap(heap[pool[x]] - 1)
    BY <1>1, <1>3, <2>4, <2>5, StoresLess
  <2> DEFINE c == Cardinality(Made(x))
  <2> HIDE DEF c
  <2>7. n - c \in Int /\ n - (c + 1) = n - c - 1
    BY <1>1, <2>3 DEF c, Word
  <2>8. heap'[pool[x]] = Wrap(n - (c + 1))
    BY <1>1, <2>4, <2>6, <2>7, WrapLess DEF c
  <2> QED BY <2>2, <2>6, <2>8 DEF c
<1>4. CASE /\ ~(Allocate(t) /\ Cur(t).name = x)
           /\ ~(t \in Child /\ InDecrement(t, x) /\ Store(t))
  <2>1. Made(x)' = Made(x)
    BY <1>4, MadeKept
  <2>2. pool'[x] = pool[x] /\ (heap'[pool[x]] = heap[pool[x]] \/ (Store(t) /\ regs[t].ptr = pool[x]))
    BY <1>1, <1>4, ObjectKept
  <2>3. pool[x] # Null => ~(Store(t) /\ regs[t].ptr = pool[x])
    BY <1>4, StoresIt
  <2> QED BY <1>1, <2>1, <2>2, <2>3
<1> QED BY <1>2, <1>3, <1>4

LEMMA CounterInit == Init => CounterInv
<1> SUFFICES ASSUME Init PROVE CounterInv  OBVIOUS
<1>1. PoolInj /\ Fresh
  BY Threads DEF Init, PoolInj, Fresh, Start, Null
<1>2. HoldsChanged
  <2>1. \A y \in Names : pool[y] = Null
    BY DEF Init
  <2> QED BY <2>1 DEF HoldsChanged
<1>3. HoldsGuards
  <2>1. \A u \in Child : phase[u] = "unborn"
    BY Threads DEF Init
  <2> QED BY <2>1 DEF HoldsGuards, InWork
<1>4. Counting
  <2> SUFFICES ASSUME NEW d \in Those(1, "alloc"), NEW m \in BlockMutexes, IsCounter(d, m)
               PROVE  DeclaredFirst(d) /\ (Defined => Decrementing(Counted(d)) /\ Counts(d))
    BY DEF Counting
  <2>1. IInv
    BY InitIInv
  <2>2. d \in MainWorks /\ d \in Nat /\ Counted(d) \in Names
    BY <2>1, CounterShape
  <2>3. \A u \in Child : phase[u] = "unborn" /\ pc[u].itr = 1
    BY Threads DEF Init, Start
  <2>4. DeclaredFirst(d)
    <3>1. pc[Main].itr = 1 /\ d \in 1..Len(code[1])
      BY <2>2, Threads DEF Init, Start, MainWorks
    <3>2. d >= 1
      BY <2>2, <3>1
    <3> QED BY <2>3, <3>1, <3>2 DEF DeclaredFirst
  <2>5. Decrementing(Counted(d))
    BY <2>3 DEF Decrementing, InDecrement, InWork
  <2>6. Made(Counted(d)) = {}
    <3>1. \A u \in Child : MadeBy(u, Counted(d)) = {}
      BY <2>3 DEF MadeBy
    <3> QED BY <3>1, MadeIs
  <2>7. Counts(d)
    <3>1. pool[Counted(d)] = Null
      BY <2>2 DEF Init
    <3> QED BY <2>6, <3>1, FS_EmptySet DEF Counts
  <2> QED BY <2>4, <2>5, <2>7
<1> QED BY <1>1, <1>2, <1>3, <1>4 DEF CounterInv

LEMMA CounterStep == IInv /\ PointerInv /\ MutualExclusion /\ CounterInv /\ [Next]_vars => CounterInv'
<1> SUFFICES ASSUME IInv, PointerInv, MutualExclusion, CounterInv, [Next]_vars PROVE CounterInv'
  OBVIOUS
<1>1. CASE \E t \in Thread : ThreadStep(t)
  <2>1. PICK t \in Thread : ThreadStep(t)
    BY <1>1
  <2>2. PoolInj' /\ Fresh' /\ HoldsChanged' /\ HoldsGuards'
    BY <2>1, InjStep, FreshStep, HoldsChangedStep, HoldsGuardsStep DEF CounterInv
  <2>3. Counting'
    <3>1. code' = code /\ ub \subseteq ub' /\ Defined' = (ub' \cap {"free", "unlock"} = {})
      BY <2>1, StepKinds DEF Defined
    <3>2. Defined' => Defined
      BY <3>1 DEF Defined
    <3>3. ASSUME NEW d \in Those(1, "alloc"), NEW m \in BlockMutexes, IsCounter(d, m)
          PROVE  DeclaredFirst(d)' /\ (Defined' => Decrementing(Counted(d))' /\ Counts(d)')
      <4>1. DeclaredFirst(d) /\ (Defined => Decrementing(Counted(d)) /\ Counts(d))
        BY <3>3 DEF CounterInv, Counting
      <4>2. DeclaredFirst(d)'
        BY <2>1, <3>3, <4>1, DeclaredFirstStep
      <4>3. ASSUME Defined' PROVE Decrementing(Counted(d))' /\ Counts(d)'
        <5>1. PICK x : x = Counted(d)
          OBVIOUS
        <5>2. Decrementing(x) /\ Counts(d)
          BY <3>2, <4>1, <4>3, <5>1
        <5>3. Decrementing(x)'
          BY <2>1, <3>3, <4>1, <4>3, <5>1, <5>2, DecrementingStep DEF CounterInv
        <5>4. Counts(d)'
          BY <2>1, <3>3, <4>1, <4>3, <5>1, <5>2, CountsStep DEF CounterInv
        <5>5. Counted(d)' = x
          BY <3>1, <5>1, SameCode
        <5>6. Decrementing(Counted(d))'
          BY <5>3, <5>5 DEF Decrementing, InDecrement, Midway, Decrements
        <5> QED BY <5>4, <5>6
      <4> QED BY <4>2, <4>3
    <3> QED BY <3>1, <3>3, SameCode DEF Counting
  <2> QED BY <2>2, <2>3 DEF CounterInv
<1>2. CASE Crash \/ Halted \/ UNCHANGED vars
  <2>1. UNCHANGED <<code, phase, pc, regs, pool, heap, held, ub>>
    BY <1>2, OtherKinds DEF memory, mutexes
  <2>2. PoolInj' /\ Fresh' /\ HoldsChanged' /\ HoldsGuards'
    BY <2>1, SameCode DEF CounterInv, PoolInj, Fresh, HoldsChanged, PastTarget, Work, HoldsGuards,
       InWork
  <2>3. Counting'
    <3>9. Defined' => Defined
      BY <2>1 DEF Defined
    <3>1. ASSUME NEW d, DeclaredFirst(d) PROVE DeclaredFirst(d)'
      <4>1. Counted(d)' = Counted(d)
        BY <2>1, SameCode
      <4> QED BY <2>1, <3>1, <4>1 DEF DeclaredFirst
    <3>2. ASSUME NEW d, Decrementing(Counted(d)), Counts(d)
          PROVE  Decrementing(Counted(d))' /\ Counts(d)'
      <4>1. PICK x : x = Counted(d)
        OBVIOUS
      <4>2. Counted(d)' = x
        BY <2>1, <4>1, SameCode
      <4>3. Decrementing(Counted(d))'
        <5>1. Decrementing(x)
          BY <3>2, <4>1
        <5>2. \A u \in Child : InDecrement(u, x)' = InDecrement(u, x)
          BY <2>1 DEF InDecrement, InWork, Decrements
        <5>3. \A u \in Child : Midway(u, x)' = Midway(u, x)
          BY <2>1 DEF Midway
        <5>4. Decrementing(x)'
          BY <5>1, <5>2, <5>3 DEF Decrementing
        <5> QED BY <4>2, <5>4 DEF Decrementing, InDecrement, Midway, Decrements
      <4>4. Made(Counted(d))' = Made(Counted(d))
        BY <2>1, <4>1, <4>2 DEF Made, MadeBy, Decrements
      <4>5. Counts(d)'
        BY <2>1, <3>2, <4>1, <4>2, <4>4 DEF Counts
      <4> QED BY <4>3, <4>5
    <3> QED BY <2>1, <3>9, <3>1, <3>2, SameCode DEF CounterInv, Counting
  <2> QED BY <2>2, <2>3 DEF CounterInv
<1> QED BY <1>1, <1>2 DEF Next

\* No update made between LOCK and UNLOCK is lost, in any program and under any
\* schedule: a counter always is what it was declared as less the decrements
\* that were made (WorkMultiThread.cpp:48-68, WorkMath.cpp:38-57,
\* lang.cpp:166-175).  A thread in SUB x,x,1 holds the mutex that guards it, so
\* that what it read is what the store replaces.
THEOREM NothingLost == Spec => []CountsUpdates
<1>1. Init => MutualExclusion
  BY DEF Init, MutualExclusion
<1>2. CounterInv => CountsUpdates
  BY DEF CounterInv, Counting, Counts, Defined, CountsUpdates
<1> QED BY <1>1, <1>2, Invariant, PointerInit, PointerStep, ExclusionKept, CounterInit, CounterStep,
           PTL DEF Spec

=============================================================================

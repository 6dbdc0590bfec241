------------------------ MODULE VirtualMachineProofs ------------------------
(***************************************************************************)
(* The inductive invariant of the virtual machine and the safety           *)
(* properties that follow from it, for every program and every bound.      *)
(***************************************************************************)
EXTENDS RunProperties, TLAPS

-----------------------------------------------------------------------------
(* The invariant.                                                          *)

\* Iterators are inside the code; a child runs a block, never segment 1.
InCode(p) ==
    /\ p.seg \in 1..Len(code)
    /\ p.itr >= 1
    /\ p.itr <= Len(code[p.seg]) => p.step \in 1..Len(code[p.seg][p.itr])
PcOK ==
    /\ \A t \in Thread : InCode(pc[t])
    /\ pc[Main].seg = 1
    /\ \A u \in Child : phase[u] # "unborn" => pc[u].seg # 1

\* The phases of start() and ~RuntimeImpl are the main thread's.
PhaseOK == \A u \in Child : phase[u] \in {"unborn", "live", "wild", "ended"}

\* The loops of barrier() stay inside the vector.
BarOK == \A t \in Thread : bar[t].lim <= Len(threads)

\* Every child is in the vector, or is the one being appended to it.
Known(u) == (\E i \in 1..Len(threads) : threads[i] = u) \/ th = u
FamilyOK ==
    /\ \A u \in Child : phase[u] # "unborn" => Known(u)
    /\ th # None => phase[Main] = "live" /\ InWork(Main) /\ Cur(Main).kind = "thread"
    /\ \A u \in joined : phase[u] = "ended"

IInv == TypeOK /\ PcOK /\ PhaseOK /\ BarOK /\ FamilyOK

\* Shorthands for the types of a thread's registers and of the output.
Registers == [ptr : Object, src : Object, tmp : Word, prev : Word, last : Word]
Chunk == [by : Thread, seg : Nat, itr : Nat, step : Nat, val : Word]

-----------------------------------------------------------------------------
(* Lemmas.                                                                 *)

\* Every arithmetic result is a machine word.
LEMMA WrapWord == \A n \in Int : Wrap(n) \in Word
BY HalfAssumption DEF Wrap, Word

LEMMA Threads == /\ Main \in Thread /\ Child \subseteq Thread /\ Main \notin Child
                 /\ Thread = Child \cup {Main} /\ None \notin Child
                 /\ Null \in Object
BY BoundsAssumption DEF Main, Thread, Child, None, Null, Object

\* A work is a nonempty sequence of steps.
LEMMA WorkShape ==
    ASSUME IsCode(code), NEW g \in 1..Len(code), NEW i \in 1..Len(code[g])
    PROVE  code[g][i] \in Seq(Step) /\ Len(code[g][i]) \in Nat \ {0}
<1>1. code \in Seq(Seq(Seq(Step)))
  BY DEF IsCode
<1>2. code[g] \in Seq(Seq(Step))
  BY <1>1
<1>3. code[g][i] \in Seq(Step)
  BY <1>2
<1>4. Len(code[g][i]) > 0
  BY DEF IsCode
<1> QED
  BY <1>3, <1>4

\* What a step of a work may be.
LEMMA StepShape ==
    ASSUME IsCode(code), NEW g \in 1..Len(code), NEW i \in 1..Len(code[g]),
           NEW k \in 1..Len(code[g][i]), NEW s, s = code[g][i][k]
    PROVE  /\ s.kind \in Naming => s.name \in Names
           /\ s.kind = "copy" => k > 1 /\ code[g][i][k - 1].kind = "lookup"
           /\ s.kind \in {"load", "store"} =>
                \E j \in 1..(k - 1) : code[g][i][j].kind = "target"
           /\ s.kind = "thread" => g = 1 /\ s.at[1] \in 2..Len(code)
           /\ s.kind \in {"thread", "barrier"} => Len(code[g][i]) = 1
           /\ s.kind = "jump" => IF g = 1 THEN s.at[1] = 1 /\ s.at[2] \in 1..Len(code[1])
                                 ELSE s.at[1] = 0
BY DEF IsCode

\* The step a thread is at is a step of the code.
LEMMA CurTyped ==
    ASSUME IInv, NEW t \in Thread, InWork(t)
    PROVE  /\ Cur(t) \in Step
           /\ Cur(t).kind \in Naming => Cur(t).name \in Names
           /\ Cur(t).kind = "thread" => pc[t].seg = 1 /\ Cur(t).at[1] \in 2..Len(code)
           /\ Cur(t).kind \in {"thread", "barrier"} => Len(Work(t)) = 1
           /\ Cur(t).kind = "jump" =>
                IF pc[t].seg = 1 THEN Cur(t).at[1] = 1 /\ Cur(t).at[2] \in 1..Len(code[1])
                ELSE Cur(t).at[1] = 0
<1> DEFINE p == pc[t]
<1>1. p.seg \in 1..Len(code) /\ p.itr \in 1..Len(code[p.seg]) /\ p.step \in 1..Len(Work(t))
  BY DEF IInv, PcOK, InCode, InWork, TypeOK, Work
<1>2. code \in Seq(Seq(Seq(Step)))
  BY DEF IInv, TypeOK, IsCode
<1>3. code[p.seg] \in Seq(Seq(Step))
  BY <1>1, <1>2
<1>4. Work(t) \in Seq(Step)
  BY <1>1, <1>3 DEF Work
<1>5. Cur(t) \in Step
  BY <1>1, <1>4 DEF Cur
<1>6. IsCode(code) /\ Cur(t) = code[p.seg][p.itr][p.step]
      /\ p.step \in 1..Len(code[p.seg][p.itr])
  BY <1>1 DEF IInv, TypeOK, Work, Cur
<1>7. /\ Cur(t).kind \in Naming => Cur(t).name \in Names
      /\ Cur(t).kind = "thread" => p.seg = 1 /\ Cur(t).at[1] \in 2..Len(code)
      /\ Cur(t).kind \in {"thread", "barrier"} => Len(Work(t)) = 1
      /\ Cur(t).kind = "jump" =>
           IF p.seg = 1 THEN Cur(t).at[1] = 1 /\ Cur(t).at[2] \in 1..Len(code[1])
           ELSE Cur(t).at[1] = 0
  <2> DEFINE g == p.seg  i == p.itr  k == p.step  s == Cur(t)
  <2>1. /\ g \in 1..Len(code) /\ i \in 1..Len(code[g])
        /\ k \in 1..Len(code[g][i]) /\ s = code[g][i][k]
    BY <1>1, <1>6
  <2> HIDE DEF g, i, k, s
  <2>2. /\ s.kind \in Naming => s.name \in Names
        /\ s.kind = "thread" => g = 1 /\ s.at[1] \in 2..Len(code)
        /\ s.kind \in {"thread", "barrier"} => Len(code[g][i]) = 1
        /\ s.kind = "jump" => IF g = 1 THEN s.at[1] = 1 /\ s.at[2] \in 1..Len(code[1])
                              ELSE s.at[1] = 0
    <3>1. IsCode(code)  BY <1>6
    <3> QED BY <2>1, <3>1, StepShape, SMTT(20)
  <2> QED BY <2>2 DEF g, i, s, Work
<1> QED
  BY <1>5, <1>7

\* GoOn moves one iterator, inside its segment.
LEMMA GoOnTyped ==
    ASSUME IInv, NEW t \in Thread, InWork(t), GoOn(t), code' = code
    PROVE  /\ pc' \in [Thread -> [seg : Nat, itr : Nat, step : Nat]]
           /\ \A u \in Thread : u # t => pc'[u] = pc[u]
           /\ pc'[t].seg = pc[t].seg
           /\ \A u \in Thread : InCode(pc[u])'
<1> DEFINE p == pc[t]
           q == IF p.step < Len(Work(t)) THEN NextStep(p) ELSE NextWork(p)
<1>1. /\ pc \in [Thread -> [seg : Nat, itr : Nat, step : Nat]]
      /\ p.seg \in 1..Len(code) /\ p.itr \in 1..Len(code[p.seg]) /\ p.step \in 1..Len(Work(t))
  BY DEF IInv, PcOK, InCode, InWork, TypeOK, Work
<1>2. pc' = [pc EXCEPT ![t] = q]
  BY DEF GoOn
<1>3. q \in [seg : Nat, itr : Nat, step : Nat] /\ q.seg = p.seg
  BY <1>1 DEF NextStep, NextWork, Work
<1>4. q.itr >= 1 /\ (q.itr <= Len(code[q.seg]) => q.step \in 1..Len(code[q.seg][q.itr]))
  <2>1. CASE p.step < Len(Work(t))
    BY <2>1, <1>1 DEF NextStep, Work
  <2>2. CASE ~(p.step < Len(Work(t)))
    <3>1. q = NextWork(p) /\ q.seg = p.seg /\ q.itr = p.itr + 1 /\ q.step = 1
      BY <2>2 DEF NextWork
    <3>2. IsCode(code)
      BY DEF IInv, TypeOK
    <3>3. ASSUME q.itr <= Len(code[q.seg]) PROVE Len(code[q.seg][q.itr]) \in Nat \ {0}
      <4>1. q.seg \in 1..Len(code) /\ q.itr \in 1..Len(code[q.seg])
        BY <3>1, <3>3, <1>1
      <4> QED BY <4>1, <3>2, WorkShape
    <3>4. q.itr >= 1
      BY <3>1, <1>1
    <3>5. ASSUME q.itr <= Len(code[q.seg]) PROVE q.step \in 1..Len(code[q.seg][q.itr])
      BY <3>1, <3>3, <3>5
    <3> HIDE DEF q
    <3> QED BY <3>4, <3>5
  <2> QED BY <2>1, <2>2
<1> QED
  BY <1>1, <1>2, <1>3, <1>4 DEF IInv, PcOK, InCode

\* An iterator that goes to another work is at the first step of it.
LEMMA AtWork ==
    ASSUME IsCode(code), NEW g \in 1..Len(code), NEW i \in Nat \ {0},
           NEW q, q = [seg |-> g, itr |-> i, step |-> 1]
    PROVE  q \in [seg : Nat, itr : Nat, step : Nat] /\ InCode(q)
<1>1. q \in [seg : Nat, itr : Nat, step : Nat]
  <2>1. Len(code) \in Nat
    BY DEF IsCode
  <2> QED BY <2>1
<1>2. i <= Len(code[g]) => Len(code[g][i]) \in Nat \ {0}
  <2>1. SUFFICES ASSUME i <= Len(code[g]) PROVE Len(code[g][i]) \in Nat \ {0}
    OBVIOUS
  <2>2. Len(code[g]) \in Nat
    BY DEF IsCode
  <2>3. i \in 1..Len(code[g])
    BY <2>1, <2>2
  <2> QED BY <2>3, WorkShape
<1>3. InCode(q)
  BY <1>2 DEF InCode
<1> QED
  BY <1>1, <1>3 DEF InCode

\* The next work of the same segment.
LEMMA SkipTyped ==
    ASSUME IInv, NEW t \in Thread, InWork(t), code' = code,
           pc' = [pc EXCEPT ![t] = NextWork(pc[t])]
    PROVE  /\ pc' \in [Thread -> [seg : Nat, itr : Nat, step : Nat]]
           /\ \A u \in Thread : u # t => pc'[u] = pc[u]
           /\ pc'[t].seg = pc[t].seg
           /\ \A u \in Thread : InCode(pc[u])'
<1> DEFINE q == NextWork(pc[t])
<1>1. pc \in [Thread -> [seg : Nat, itr : Nat, step : Nat]] /\ IsCode(code) /\ pc[t].seg \in 1..Len(code)
  BY DEF IInv, TypeOK, PcOK, InCode
<1>2. q \in [seg : Nat, itr : Nat, step : Nat] /\ InCode(q) /\ q.seg = pc[t].seg
  BY <1>1, AtWork DEF NextWork
<1>3. pc' \in [Thread -> [seg : Nat, itr : Nat, step : Nat]] /\ pc'[t] = q
      /\ \A u \in Thread : u # t => pc'[u] = pc[u]
  BY <1>1, <1>2
<1>4. \A u \in Thread : InCode(pc[u])
  BY DEF IInv, PcOK
<1>5. ASSUME NEW u \in Thread PROVE InCode(pc[u])'
  <2>1. CASE u = t
    BY <1>2, <1>3, <2>1 DEF InCode
  <2>2. CASE u # t
    BY <1>3, <1>4, <2>2 DEF InCode
  <2> QED BY <2>1, <2>2
<1> QED
  BY <1>2, <1>3, <1>5

\* A step that only moves its thread on, and is not the start of a thread,
\* keeps everything but the types of the data it writes.
LEMMA QuietStep ==
    ASSUME IInv, NEW t \in Thread, NEW k, AtStep(t, k), k # "thread", GoOn(t),
           UNCHANGED <<code, phase, threads, th, bar, joined>>
    PROVE  /\ pc' \in [Thread -> [seg : Nat, itr : Nat, step : Nat]]
           /\ PcOK' /\ PhaseOK' /\ BarOK' /\ FamilyOK'
<1>1. InWork(t) /\ Cur(t).kind # "thread"
  BY DEF AtStep
<1>2. /\ pc' \in [Thread -> [seg : Nat, itr : Nat, step : Nat]]
      /\ \A u \in Thread : u # t => pc'[u] = pc[u]
      /\ pc'[t].seg = pc[t].seg
      /\ \A u \in Thread : InCode(pc[u])'
  BY <1>1, GoOnTyped
<1>3. PcOK'
  BY <1>2, Threads DEF PcOK, IInv
<1>4. PhaseOK' /\ BarOK'
  BY DEF IInv, PhaseOK, BarOK
<1>5. (th # None => phase[Main] = "live" /\ InWork(Main) /\ Cur(Main).kind = "thread")'
  <2>1. CASE t = Main
    BY <2>1, <1>1 DEF IInv, FamilyOK, None
  <2>2. CASE t # Main
    BY <2>2, <1>2, Threads DEF IInv, FamilyOK, None, InWork, Cur, Work
  <2> QED BY <2>1, <2>2
<1>6. FamilyOK'
  BY <1>5 DEF IInv, FamilyOK, Known
<1> QED
  BY <1>2, <1>3, <1>4, <1>6

\* A chunk that is written is appended to the output, or lost.
LEMMA EmitTyped ==
    ASSUME IInv, NEW t \in Thread, NEW chunk \in Chunk, Emit(t, chunk)
    PROVE  out' \in Seq(Chunk) /\ ub' \subseteq ub \cup {"stream"}
<1>1. out \in Seq(Chunk)
  BY DEF IInv, TypeOK, Chunk
<1>2. Append(out, chunk) \in Seq(Chunk)
  BY <1>1
<1> QED
  BY <1>1, <1>2 DEF Emit, Note

\* The data steps.
LEMMA DataStep ==
    ASSUME IInv, NEW t \in Thread,
           \/ Allocate(t) \/ Copy(t) \/ Immediate(t) \/ Load(t) \/ Store(t) \/ Nop(t)
           \/ Lock(t) \/ Unlock(t) \/ Write(t)
    PROVE  IInv'
<1> USE DEF IInv
<1>1. CASE Allocate(t)
  <2>1. pc' \in [Thread -> [seg : Nat, itr : Nat, step : Nat]] /\ PcOK' /\ PhaseOK' /\ BarOK' /\ FamilyOK'
    BY <1>1, QuietStep DEF Allocate, family
  <2>2. Cur(t) \in Step /\ Cur(t).name \in Names
    BY <1>1, CurTyped DEF Allocate, AtStep, Naming
  <2>3. used' \in Object
    BY <1>1, BoundsAssumption DEF Allocate, TypeOK, Object
  <2>4. heap' \in [Object -> Word]
    BY <1>1, <2>2 DEF Allocate, TypeOK, Step
  <2>5. pool' \in [Names -> Object]
    BY <1>1, <2>2, <2>3 DEF Allocate, TypeOK
  <2>6. TypeOK'
    BY <1>1, <2>1, <2>3, <2>4, <2>5 DEF Allocate, TypeOK, mutexes, family
  <2> QED BY <2>1, <2>6
<1>2. CASE Copy(t)
  <2>1. pc' \in [Thread -> [seg : Nat, itr : Nat, step : Nat]] /\ PcOK' /\ PhaseOK' /\ BarOK' /\ FamilyOK'
    BY <1>2, QuietStep DEF Copy, family
  <2>2. PICK v \in Read(regs[t].src) : Operand(t, v)
    BY <1>2 DEF Copy
  <2>3. v \in Word
    BY <2>2 DEF Read, TypeOK
  <2>4. regs' \in [Thread -> Registers]
    BY <2>2, <2>3 DEF Operand, TypeOK, Registers
  <2>5. TypeOK'
    BY <1>2, <2>1, <2>4 DEF Copy, Note, TypeOK, Registers, memory, mutexes, family
  <2> QED BY <2>1, <2>5
<1>3. CASE Immediate(t)
  <2>1. pc' \in [Thread -> [seg : Nat, itr : Nat, step : Nat]] /\ PcOK' /\ PhaseOK' /\ BarOK' /\ FamilyOK'
    BY <1>3, QuietStep DEF Immediate, family
  <2>2. Cur(t).num \in Word
    BY <1>3, CurTyped DEF Immediate, AtStep, Step
  <2>3. TypeOK'
    BY <1>3, <2>1, <2>2 DEF Immediate, Operand, TypeOK, memory, mutexes, family
  <2> QED BY <2>1, <2>3
<1>4. CASE Load(t)
  <2>1. pc' \in [Thread -> [seg : Nat, itr : Nat, step : Nat]] /\ PcOK' /\ PhaseOK' /\ BarOK' /\ FamilyOK'
    BY <1>4, QuietStep DEF Load, family
  <2>2. PICK v \in Read(regs[t].ptr) : regs' = [regs EXCEPT ![t].tmp = v]
    BY <1>4 DEF Load
  <2>3. v \in Word
    BY <2>2 DEF Read, TypeOK
  <2>4. regs' \in [Thread -> Registers]
    BY <2>2, <2>3 DEF TypeOK, Registers
  <2>5. TypeOK'
    BY <1>4, <2>1, <2>4 DEF Load, Note, TypeOK, Registers, memory, mutexes, family
  <2> QED BY <2>1, <2>5
<1>5. CASE Store(t)
  <2>1. pc' \in [Thread -> [seg : Nat, itr : Nat, step : Nat]] /\ PcOK' /\ PhaseOK' /\ BarOK' /\ FamilyOK'
    BY <1>5, QuietStep DEF Store, family
  <2>2. ASSUME NEW old \in Word PROVE Result(Cur(t).how, regs[t], old) \in Word
    <3>1. regs[t].tmp \in Int /\ regs[t].prev \in Int /\ regs[t].last \in Word /\ regs[t].last \in Int
      BY HalfAssumption DEF TypeOK, Word
    <3>2. /\ Wrap(regs[t].tmp + regs[t].last) \in Word
          /\ Wrap(regs[t].tmp * regs[t].last) \in Word
          /\ Wrap(regs[t].last - regs[t].prev) \in Word
          /\ Wrap(regs[t].prev * regs[t].last) \in Word
      BY <3>1, WrapWord
    <3> QED BY <3>1, <3>2 DEF Result
  <2>3. heap' \in [Object -> Word]
    BY <1>5, <2>2 DEF Store, TypeOK
  <2>4. TypeOK'
    BY <1>5, <2>1, <2>3 DEF Store, Note, TypeOK, mutexes, family
  <2> QED BY <2>1, <2>4
<1>6. CASE Nop(t)
  <2>1. pc' \in [Thread -> [seg : Nat, itr : Nat, step : Nat]] /\ PcOK' /\ PhaseOK' /\ BarOK' /\ FamilyOK'
    BY <1>6, QuietStep DEF Nop, family
  <2>2. TypeOK'
    BY <1>6, <2>1 DEF Nop, TypeOK, memory, mutexes, family
  <2> QED BY <2>1, <2>2
<1>7. CASE Lock(t)
  <2>1. pc' \in [Thread -> [seg : Nat, itr : Nat, step : Nat]] /\ PcOK' /\ PhaseOK' /\ BarOK' /\ FamilyOK'
    BY <1>7, QuietStep DEF Lock, family
  <2>2. Cur(t).at \in Site
    BY <1>7, CurTyped DEF Lock, AtStep, Step, Site
  <2>3. TypeOK'
    BY <1>7, <2>1, <2>2 DEF Lock, TypeOK, memory, family
  <2> QED BY <2>1, <2>3
<1>8. CASE Unlock(t)
  <2>1. pc' \in [Thread -> [seg : Nat, itr : Nat, step : Nat]] /\ PcOK' /\ PhaseOK' /\ BarOK' /\ FamilyOK'
    BY <1>8, QuietStep DEF Unlock, family
  <2>2. TypeOK'
    BY <1>8, <2>1 DEF Unlock, Note, TypeOK, memory, family
  <2> QED BY <2>1, <2>2
<1>9. CASE Write(t)
  <2>1. pc' \in [Thread -> [seg : Nat, itr : Nat, step : Nat]] /\ PcOK' /\ PhaseOK' /\ BarOK' /\ FamilyOK'
    BY <1>9, QuietStep DEF Write, family
  <2>2. [by |-> t, seg |-> pc[t].seg, itr |-> pc[t].itr, step |-> pc[t].step, val |-> regs[t].last]
           \in Chunk
    BY DEF TypeOK, Chunk
  <2>3. out' \in Seq(Chunk) /\ ub' \subseteq ub \cup {"stream"}
    BY <1>9, <2>2, EmitTyped DEF Write
  <2>4. TypeOK'
    BY <1>9, <2>1, <2>3 DEF Write, TypeOK, Chunk, memory, mutexes, family
  <2> QED BY <2>1, <2>4
<1> QED
  BY <1>1, <1>2, <1>3, <1>4, <1>5, <1>6, <1>7, <1>8, <1>9
\* An exception changes the phase of the main thread, or the status.
LEMMA ThrowStep ==
    ASSUME IInv, NEW t \in Thread, phase[t] = "live", InWork(t), Cur(t).kind # "thread",
           Throw(t), UNCHANGED <<code, memory, mutexes, family, out, ub>>
    PROVE  IInv'
<1> USE DEF IInv, Throw
<1>1. status' \in Statuses /\ phase' \in [Thread -> Phases]
  BY DEF TypeOK, Statuses, Phases
<1>2. TypeOK'
  BY <1>1 DEF TypeOK, memory, mutexes, family
<1>3. \A u \in Child : phase'[u] = phase[u]
  BY Threads DEF TypeOK
<1>4. PcOK'
  BY <1>3 DEF PcOK, InCode
<1>5. PhaseOK' /\ BarOK'
  BY <1>3 DEF PhaseOK, BarOK, family
<1>6. t = Main => th = None
  BY DEF FamilyOK
<1>7. FamilyOK'
  <2>1. CASE t = Main
    <3>1. th' = None
      BY <1>6, <2>1 DEF family
    <3> QED
      BY <1>3, <3>1, <2>1 DEF FamilyOK, Known, family, TypeOK
  <2>2. CASE t # Main
    BY <1>3, <2>2 DEF FamilyOK, Known, family, InWork, Cur, Work
  <2> QED BY <2>1, <2>2
<1> QED
  BY <1>2, <1>4, <1>5, <1>7

\* The steps that look a variable up.
LEMMA LookupStep ==
    ASSUME IInv, NEW t \in Thread, Target(t) \/ Lookup(t)
    PROVE  IInv'
<1> USE DEF IInv
<1>1. CASE Target(t)
  <2> DEFINE p == pool[Cur(t).name]
  <2>1. InWork(t) /\ phase[t] = "live" /\ Cur(t).kind # "thread" /\ Cur(t).name \in Names
    BY <1>1, CurTyped DEF Target, AtStep, InWork, Naming
  <2>2. CASE p # Null /\ regs' = [regs EXCEPT ![t].ptr = p] /\ GoOn(t) /\ UNCHANGED <<status, phase>>
    <3>1. pc' \in [Thread -> [seg : Nat, itr : Nat, step : Nat]] /\ PcOK' /\ PhaseOK' /\ BarOK' /\ FamilyOK'
      BY <1>1, <2>2, QuietStep DEF Target, family
    <3>2. regs' \in [Thread -> Registers]
      BY <2>1, <2>2 DEF TypeOK, Registers
    <3>3. TypeOK'
      BY <1>1, <2>2, <3>1, <3>2 DEF Target, TypeOK, Registers, memory, mutexes, family
    <3> QED BY <3>1, <3>3
  <2>3. CASE Throw(t)
    BY <1>1, <2>1, <2>3, ThrowStep DEF Target
  <2>4. CASE pc' = [pc EXCEPT ![t] = NextWork(pc[t])] /\ UNCHANGED <<status, phase, regs>>
    <3>1. /\ pc' \in [Thread -> [seg : Nat, itr : Nat, step : Nat]]
          /\ \A u \in Thread : u # t => pc'[u] = pc[u]
          /\ pc'[t].seg = pc[t].seg
          /\ \A u \in Thread : InCode(pc[u])'
      BY <1>1, <2>1, <2>4, SkipTyped DEF Target
    <3>2. PcOK'
      BY <2>4, <3>1, Threads DEF PcOK
    <3>3. PhaseOK' /\ BarOK'
      BY <1>1, <2>4 DEF Target, PhaseOK, BarOK, family
    <3>4. FamilyOK'
      BY <1>1, <2>1, <2>4, <3>1, Threads
         DEF Target, FamilyOK, Known, family, InWork, Cur, Work, None
    <3>5. TypeOK'
      BY <1>1, <2>4, <3>1 DEF Target, TypeOK, memory, mutexes, family
    <3> QED BY <3>2, <3>3, <3>4, <3>5
  <2> QED
    BY <1>1, <2>2, <2>3, <2>4 DEF Target
<1>2. CASE Lookup(t)
  <2> DEFINE p == pool[Cur(t).name]
  <2>1. InWork(t) /\ phase[t] = "live" /\ Cur(t).kind # "thread" /\ Cur(t).name \in Names
    BY <1>2, CurTyped DEF Lookup, AtStep, InWork, Naming
  <2>2. CASE p # Null /\ regs' = [regs EXCEPT ![t].src = p] /\ GoOn(t) /\ UNCHANGED <<status, phase>>
    <3>1. pc' \in [Thread -> [seg : Nat, itr : Nat, step : Nat]] /\ PcOK' /\ PhaseOK' /\ BarOK' /\ FamilyOK'
      BY <1>2, <2>2, QuietStep DEF Lookup, family
    <3>2. regs' \in [Thread -> Registers]
      BY <2>1, <2>2 DEF TypeOK, Registers
    <3>3. TypeOK'
      BY <1>2, <2>2, <3>1, <3>2 DEF Lookup, TypeOK, Registers, memory, mutexes, family
    <3> QED BY <3>1, <3>3
  <2>3. CASE Throw(t)
    BY <1>2, <2>1, <2>3, ThrowStep DEF Lookup
  <2> QED
    BY <1>2, <2>2, <2>3 DEF Lookup
<1> QED
  BY <1>1, <1>2
\* What is left of the invariant when a thread's step keeps the family.
LEMMA FamilyKept ==
    ASSUME IInv, NEW t \in Thread, UNCHANGED <<code, family>>, phase' \in [Thread -> Phases],
           \A u \in Thread : u # t => phase'[u] = phase[u] /\ pc'[u] = pc[u],
           t = Main => th = None,
           t \in Child => /\ phase[t] \notin {"unborn", "ended"}
                          /\ phase'[t] \in {"live", "wild", "ended"}
    PROVE  PhaseOK' /\ BarOK' /\ FamilyOK'
<1> USE Threads DEF IInv, family
<1>1. PhaseOK'
  BY DEF PhaseOK
<1>2. BarOK'
  BY DEF BarOK
<1>3. \A u \in Child : phase'[u] # "unborn" => Known(u)
  BY DEF FamilyOK
<1>4. \A u \in joined : phase'[u] = "ended"
  BY DEF FamilyOK, TypeOK
<1>5. t # Main => (th # None => phase[Main] = "live" /\ InWork(Main) /\ Cur(Main).kind = "thread")'
  BY DEF FamilyOK, InWork, Cur, Work, None
<1> QED
  BY <1>1, <1>2, <1>3, <1>4, <1>5 DEF FamilyOK, Known, None

\* A jump, the end of a thread's works and the catch block.
LEMMA FlowStep ==
    ASSUME IInv, NEW t \in Thread, Jump(t) \/ Finish(t) \/ Report(t)
    PROVE  IInv'
<1> USE DEF IInv
<1>1. CASE Jump(t)
  <2> DEFINE s == Cur(t)
             jumps == Taken(s.how, regs[t])
             dangling == jumps /\ s.at[1] = 0
  <2>1. InWork(t) /\ phase[t] = "live" /\ s.kind = "jump"
    BY <1>1 DEF Jump, AtStep, InWork
  <2>2. /\ phase' \in [Thread -> Phases]
        /\ \A u \in Thread : u # t => phase'[u] = phase[u]
        /\ phase'[t] \in {"live", "wild"}
    BY <1>1, <2>1 DEF Jump, TypeOK, Phases
  <2>3. /\ pc' \in [Thread -> [seg : Nat, itr : Nat, step : Nat]]
        /\ \A u \in Thread : u # t => pc'[u] = pc[u]
        /\ pc'[t].seg = pc[t].seg
        /\ \A u \in Thread : InCode(pc[u])'
    <3>1. CASE jumps /\ ~dangling
      <4> DEFINE q == Landing(s.at[2])
      <4>1. pc[t].seg = 1 /\ s.at[2] \in 1..Len(code[1])
        BY <2>1, <3>1, CurTyped
      <4>2. 1 \in 1..Len(code) /\ Len(code[1]) \in Nat /\ IsCode(code)
        <5>1. code \in Seq(Seq(Seq(Step))) /\ Len(code) > 0 /\ IsCode(code)
          BY DEF TypeOK, IsCode
        <5>2. 1 \in 1..Len(code)
          BY <5>1
        <5>3. code[1] \in Seq(Seq(Step))
          BY <5>1, <5>2
        <5> QED BY <5>1, <5>2, <5>3
      <4>3. q \in [seg : Nat, itr : Nat, step : Nat] /\ InCode(q) /\ q.seg = 1
        BY <4>1, <4>2, AtWork DEF Landing
      <4>4. pc' = [pc EXCEPT ![t] = q] /\ code' = code
        BY <1>1, <3>1 DEF Jump
      <4>5. /\ pc' \in [Thread -> [seg : Nat, itr : Nat, step : Nat]] /\ pc'[t] = q
            /\ \A u \in Thread : u # t => pc'[u] = pc[u]
        BY <4>3, <4>4 DEF TypeOK
      <4>6. ASSUME NEW u \in Thread PROVE InCode(pc[u])'
        <5>1. CASE u = t
          BY <4>3, <4>4, <4>5, <5>1 DEF InCode
        <5>2. CASE u # t
          BY <4>4, <4>5, <5>2 DEF InCode, PcOK
        <5> QED BY <5>1, <5>2
      <4> QED BY <4>1, <4>3, <4>5, <4>6
    <3>2. CASE ~(jumps /\ ~dangling)
      <4>1. GoOn(t) /\ code' = code
        BY <1>1, <3>2 DEF Jump
      <4> QED BY <2>1, <4>1, GoOnTyped
    <3> QED BY <3>1, <3>2
  <2>4. PcOK'
    <3>1. \A u \in Child : phase'[u] # "unborn" => pc'[u].seg # 1
      BY <2>1, <2>2, <2>3, Threads DEF PcOK
    <3>2. pc'[Main].seg = 1
      BY <2>3, Threads DEF PcOK
    <3> QED BY <2>3, <3>1, <3>2 DEF PcOK
  <2>5. t = Main => th = None
    BY <2>1 DEF FamilyOK
  <2>6. PhaseOK' /\ BarOK' /\ FamilyOK'
    BY <1>1, <2>1, <2>2, <2>3, <2>5, FamilyKept DEF Jump
  <2>7. TypeOK'
    BY <1>1, <2>2, <2>3 DEF Jump, Note, TypeOK, memory, mutexes, family
  <2> QED BY <2>4, <2>6, <2>7
<1>2. CASE Finish(t)
  <2>1. /\ phase' \in [Thread -> Phases]
        /\ \A u \in Thread : u # t => phase'[u] = phase[u]
        /\ t # Main => phase'[t] = "ended"
        /\ phase[t] = "live" /\ UNCHANGED <<code, pc, family>>
    BY <1>2 DEF Finish, TypeOK, Phases
  <2>2. t = Main => th = None
    BY <1>2 DEF Finish, FamilyOK
  <2>3. PhaseOK' /\ BarOK' /\ FamilyOK'
    BY <2>1, <2>2, FamilyKept, Threads
  <2>4. PcOK'
    <3>1. \A u \in Thread : InCode(pc[u])'
      BY <2>1 DEF PcOK, InCode
    <3>2. \A u \in Child : phase'[u] # "unborn" => phase[u] # "unborn"
      BY <2>1, Threads
    <3> QED BY <2>1, <3>1, <3>2 DEF PcOK
  <2>5. TypeOK'
    BY <1>2, <2>1 DEF Finish, TypeOK, memory, mutexes, family
  <2> QED BY <2>3, <2>4, <2>5
<1>3. CASE Report(t)
  <2> DEFINE chunk == [by |-> t, seg |-> 1, itr |-> 0, step |-> 0, val |-> 0]
  <2>1. t = Main /\ th = None
    BY <1>3, Threads DEF Report, PhaseOK, FamilyOK
  <2>2. /\ phase' \in [Thread -> Phases]
        /\ \A u \in Thread : u # t => phase'[u] = phase[u]
        /\ UNCHANGED <<code, pc, family>>
    BY <1>3 DEF Report, TypeOK, Phases
  <2>3. PhaseOK' /\ BarOK' /\ FamilyOK'
    BY <2>1, <2>2, FamilyKept, Threads
  <2>4. PcOK'
    BY <2>1, <2>2, Threads DEF PcOK, InCode
  <2>5. out' \in Seq(Chunk) /\ ub' \subseteq ub \cup {"stream"}
    <3>1. 0 \in Word
      BY HalfAssumption DEF Word
    <3>2. chunk \in Chunk
      BY <3>1 DEF Chunk
    <3> QED BY <1>3, <3>2, EmitTyped DEF Report
  <2>6. TypeOK'
    BY <1>3, <2>2, <2>5 DEF Report, TypeOK, Chunk, memory, mutexes, family
  <2> QED BY <2>3, <2>4, <2>6
<1> QED
  BY <1>1, <1>2, <1>3
\* The two halves of Runtime::thread; only the main program has such a step.
LEMMA CreateStep ==
    ASSUME IInv, NEW t \in Thread, Create(t)
    PROVE  IInv' /\ t = Main
<1> USE DEF IInv
<1>1. InWork(t) /\ phase[t] = "live" /\ Cur(t).kind = "thread" /\ th = None
  BY DEF Create, AtStep, InWork
<1>2. pc[t].seg = 1 /\ Cur(t).at[1] \in 2..Len(code)
  BY <1>1, CurTyped
<1>3. t = Main
  BY <1>1, <1>2, Threads DEF PcOK
<1>4. PICK u \in Child :
         /\ phase[u] = "unborn"
         /\ phase' = [phase EXCEPT ![u] = "live"]
         /\ pc' = [pc EXCEPT ![u] = Start(Cur(t).at[1])]
         /\ th' = u
  BY DEF Create
<1> DEFINE q == Start(Cur(t).at[1])
<1>5. IsCode(code) /\ code' = code /\ Len(code) \in Nat
  <2>1. IsCode(code) /\ code' = code
    BY DEF Create, TypeOK
  <2>2. code \in Seq(Seq(Seq(Step)))
    BY <2>1 DEF IsCode
  <2> QED BY <2>1, <2>2
<1>6. q \in [seg : Nat, itr : Nat, step : Nat] /\ InCode(q) /\ q.seg # 1
  BY <1>2, <1>5, AtWork DEF Start
<1>7. /\ pc' \in [Thread -> [seg : Nat, itr : Nat, step : Nat]] /\ pc'[u] = q
      /\ \A w \in Thread : w # u => pc'[w] = pc[w]
      /\ phase' \in [Thread -> Phases] /\ phase'[u] = "live"
      /\ \A w \in Thread : w # u => phase'[w] = phase[w]
      /\ u \in Thread /\ u # Main
  BY <1>4, <1>6, Threads DEF TypeOK, Phases
<1>8. PcOK'
  <2>1. ASSUME NEW w \in Thread PROVE InCode(pc[w])'
    <3>1. CASE w = u
      BY <1>5, <1>6, <1>7, <3>1 DEF InCode
    <3>2. CASE w # u
      BY <1>5, <1>7, <3>2 DEF InCode, PcOK
    <3> QED BY <3>1, <3>2
  <2> QED BY <1>6, <1>7, <2>1, Threads DEF PcOK
<1>9. PhaseOK' /\ BarOK'
  BY <1>7, Threads DEF Create, PhaseOK, BarOK
<1>10. FamilyOK'
  <2>1. \A w \in Child : phase'[w] # "unborn" => (Known(w))'
    BY <1>1, <1>4, <1>7, Threads DEF Create, FamilyOK, Known
  <2>2. (phase[Main] = "live" /\ InWork(Main) /\ Cur(Main).kind = "thread")'
    BY <1>1, <1>3, <1>5, <1>7, Threads DEF InWork, Cur, Work
  <2>3. \A w \in joined' : phase'[w] = "ended"
    BY <1>4, <1>7, Threads DEF Create, FamilyOK, TypeOK
  <2> QED BY <2>1, <2>2, <2>3 DEF FamilyOK
<1>11. TypeOK'
  BY <1>4, <1>7 DEF Create, TypeOK, memory, mutexes
<1> QED
  BY <1>3, <1>8, <1>9, <1>10, <1>11

LEMMA PushBackStep ==
    ASSUME IInv, NEW t \in Thread, PushBack(t)
    PROVE  IInv' /\ t = Main
<1> USE DEF IInv
<1>1. InWork(t) /\ phase[t] = "live" /\ Cur(t).kind = "thread" /\ th \in Child /\ th' = None
  BY DEF PushBack, AtStep, InWork, TypeOK
<1>2. t = Main
  BY <1>1, CurTyped, Threads DEF PcOK
<1>3. /\ pc' \in [Thread -> [seg : Nat, itr : Nat, step : Nat]]
      /\ \A u \in Thread : u # t => pc'[u] = pc[u]
      /\ pc'[t].seg = pc[t].seg
      /\ \A u \in Thread : InCode(pc[u])'
  BY <1>1, GoOnTyped DEF PushBack
<1>4. PcOK'
  BY <1>3, Threads DEF PcOK, PushBack
<1>5. /\ threads' \in Seq(Child) /\ Len(threads') = Len(threads) + 1 /\ Len(threads) \in Nat
      /\ threads'[Len(threads) + 1] = th
      /\ \A i \in 1..Len(threads) : threads'[i] = threads[i]
  BY <1>1 DEF PushBack, TypeOK
<1>6. BarOK'
  BY <1>5 DEF PushBack, BarOK, TypeOK
<1>7. PhaseOK'
  BY DEF PushBack, PhaseOK
<1>8. \A w \in Child : Known(w) => (Known(w))'
  <2> TAKE w \in Child
  <2>1. CASE th = w
    BY <1>5, <2>1 DEF Known
  <2>2. CASE \E i \in 1..Len(threads) : threads[i] = w
    BY <1>5, <2>2 DEF Known
  <2> QED BY <2>1, <2>2 DEF Known
<1>9. FamilyOK'
  BY <1>1, <1>8 DEF PushBack, FamilyOK, None
<1>10. TypeOK'
  BY <1>1, <1>3, <1>5 DEF PushBack, Note, TypeOK, memory, mutexes
<1> QED
  BY <1>2, <1>4, <1>6, <1>7, <1>9, <1>10

\* The loop of Runtime::barrier.
LEMMA BarrierStep ==
    ASSUME IInv, NEW t \in Thread,
           BarrierBegin(t) \/ JoinEnter(t) \/ JoinReturn(t) \/ BarrierEnd(t)
    PROVE  IInv'
<1> USE DEF IInv
<1>1. CASE BarrierBegin(t)
  <2>1. bar' \in [Thread -> [j : Nat, lim : Nat, in : BOOLEAN]] /\ BarOK'
    BY <1>1 DEF BarrierBegin, TypeOK, BarOK
  <2>2. TypeOK'
    BY <1>1, <2>1 DEF BarrierBegin, Note, TypeOK, memory, mutexes
  <2>3. PcOK' /\ PhaseOK' /\ FamilyOK'
    BY <1>1 DEF BarrierBegin, PcOK, InCode, PhaseOK, FamilyOK, Known, InWork, Cur, Work
  <2> QED BY <2>1, <2>2, <2>3
<1>2. CASE JoinEnter(t)
  <2>1. /\ bar' \in [Thread -> [j : Nat, lim : Nat, in : BOOLEAN]] /\ BarOK'
        /\ status' \in Statuses
    <3>1. CASE status' = "terminated" /\ bar' = bar
      BY <1>2, <3>1 DEF JoinEnter, TypeOK, BarOK, Statuses
    <3>2. CASE status' = status /\ bar' = [bar EXCEPT ![t].in = TRUE]
      BY <1>2, <3>2 DEF JoinEnter, TypeOK, BarOK
    <3> QED BY <1>2, <3>1, <3>2 DEF JoinEnter
  <2>2. TypeOK'
    BY <1>2, <2>1 DEF JoinEnter, TypeOK, memory, mutexes
  <2>3. PcOK' /\ PhaseOK' /\ FamilyOK'
    BY <1>2 DEF JoinEnter, PcOK, InCode, PhaseOK, FamilyOK, Known, InWork, Cur, Work
  <2> QED BY <2>1, <2>2, <2>3
<1>3. CASE JoinReturn(t)
  <2>1. bar' \in [Thread -> [j : Nat, lim : Nat, in : BOOLEAN]] /\ BarOK'
    <3>1. /\ bar' = [bar EXCEPT ![t] = [j |-> bar[t].j + 1, lim |-> bar[t].lim, in |-> FALSE]]
          /\ threads' = threads
      BY <1>3 DEF JoinReturn
    <3>2. bar \in [Thread -> [j : Nat, lim : Nat, in : BOOLEAN]]
      BY DEF TypeOK
    <3>3. bar' \in [Thread -> [j : Nat, lim : Nat, in : BOOLEAN]]
      BY <3>1, <3>2
    <3>4. \A u \in Thread : bar'[u].lim = bar[u].lim
      BY <3>1, <3>2
    <3> QED BY <3>1, <3>3, <3>4 DEF BarOK
  <2>2. Joinee(t) \in Child
    BY <1>3 DEF JoinReturn, AtJoin, Joinee, TypeOK, BarOK
  <2>3. TypeOK'
    BY <1>3, <2>1, <2>2 DEF JoinReturn, TypeOK, memory, mutexes
  <2>4. PcOK' /\ PhaseOK'
    BY <1>3 DEF JoinReturn, PcOK, InCode, PhaseOK
  <2>5. FamilyOK'
    BY <1>3 DEF JoinReturn, FamilyOK, Known, InWork, Cur, Work
  <2> QED BY <2>1, <2>3, <2>4, <2>5
<1>4. CASE BarrierEnd(t)
  <2>1. InWork(t) /\ Cur(t).kind # "thread" /\ phase[t] = "live"
    BY <1>4 DEF BarrierEnd, AtStep, InWork
  <2>2. /\ pc' \in [Thread -> [seg : Nat, itr : Nat, step : Nat]]
        /\ \A u \in Thread : u # t => pc'[u] = pc[u]
        /\ pc'[t].seg = pc[t].seg
        /\ \A u \in Thread : InCode(pc[u])'
    BY <1>4, <2>1, GoOnTyped DEF BarrierEnd
  <2>3. bar' \in [Thread -> [j : Nat, lim : Nat, in : BOOLEAN]] /\ BarOK'
    BY <1>4 DEF BarrierEnd, TypeOK, BarOK, Idle
  <2>4. PcOK' /\ PhaseOK'
    BY <1>4, <2>2, Threads DEF BarrierEnd, PcOK, PhaseOK
  <2>5. th # None => t # Main
    BY <2>1 DEF FamilyOK
  <2>6. FamilyOK'
    BY <1>4, <2>2, <2>5, Threads
       DEF BarrierEnd, FamilyOK, Known, InWork, Cur, Work, None
  <2>7. TypeOK'
    BY <1>4, <2>2, <2>3 DEF BarrierEnd, TypeOK, memory, mutexes
  <2> QED BY <2>3, <2>4, <2>6, <2>7
<1> QED
  BY <1>1, <1>2, <1>3, <1>4

\* ~RuntimeImpl and the end of the process.
LEMMA EndStep ==
    ASSUME IInv, (\E t \in Thread : FreePools(t) \/ DeleteThreads(t)) \/ Crash \/ Halted
    PROVE  IInv'
<1> USE DEF IInv
<1>1. ASSUME NEW t \in Thread, FreePools(t) \/ DeleteThreads(t)
      PROVE  IInv'
  <2>1. t = Main /\ th = None
    BY <1>1, Threads DEF FreePools, DeleteThreads, PhaseOK, FamilyOK
  <2>2. /\ phase' \in [Thread -> Phases] /\ status' \in Statuses
        /\ \A u \in Thread : u # t => phase'[u] = phase[u]
        /\ UNCHANGED <<code, pc, family>>
    BY <1>1 DEF FreePools, DeleteThreads, TypeOK, Phases, Statuses
  <2>3. PhaseOK' /\ BarOK' /\ FamilyOK'
    BY <2>1, <2>2, FamilyKept, Threads
  <2>4. PcOK'
    BY <2>1, <2>2, Threads DEF PcOK, InCode
  <2>5. TypeOK'
    BY <1>1, <2>2 DEF FreePools, DeleteThreads, TypeOK, memory, mutexes, family
  <2> QED BY <2>3, <2>4, <2>5
<1>2. CASE Crash
  BY <1>2 DEF Crash, TypeOK, Statuses, PcOK, InCode, PhaseOK, BarOK, FamilyOK, Known,
              InWork, Cur, Work, memory, mutexes, family
<1>3. CASE Halted
  BY <1>3 DEF Halted, vars, TypeOK, PcOK, InCode, PhaseOK, BarOK, FamilyOK, Known,
              InWork, Cur, Work, memory, mutexes, family
<1> QED
  BY <1>1, <1>2, <1>3

\* A run starts in the invariant ...
LEMMA InitIInv == Init => IInv
<1> SUFFICES ASSUME Init PROVE IInv
  OBVIOUS
<1> USE DEF Init
<1>1. IsCode(code)
  BY ProgramsAssumption
<1>2. 0 \in Word
  BY HalfAssumption DEF Word
<1>3. Null \in Object /\ NewRegs \in Registers
  BY <1>2, Threads DEF NewRegs, Registers
<1>4. Start(1) \in [seg : Nat, itr : Nat, step : Nat] /\ InCode(Start(1))
  <2>1. Len(code) \in Nat /\ Len(code) > 0
    BY <1>1 DEF IsCode
  <2>2. 1 \in 1..Len(code)
    BY <2>1
  <2> QED BY <1>1, <2>2, AtWork DEF Start
<1>5. TypeOK
  <2>1. /\ regs \in [Thread -> Registers] /\ pool \in [Names -> Object]
        /\ heap \in [Object -> Word] /\ used \in Object
    BY <1>2, <1>3, Threads DEF Null
  <2>2. /\ status \in Statuses /\ phase \in [Thread -> Phases]
        /\ pc \in [Thread -> [seg : Nat, itr : Nat, step : Nat]]
    BY <1>4 DEF Statuses, Phases
  <2>3. /\ threads \in Seq(Child) /\ th \in Child \cup {None} /\ joined \subseteq Child
        /\ bar \in [Thread -> [j : Nat, lim : Nat, in : BOOLEAN]]
        /\ locked \subseteq Site /\ held \in [Thread -> SUBSET Site]
    BY DEF Idle
  <2>4. out \in Seq(Chunk) /\ ub = {}
    OBVIOUS
  <2> QED BY <1>1, <2>1, <2>2, <2>3, <2>4 DEF TypeOK, Registers, Chunk
<1>6. PcOK /\ PhaseOK
  BY <1>4, Threads DEF PcOK, PhaseOK, Start
<1>7. BarOK /\ FamilyOK
  BY Threads DEF BarOK, FamilyOK, Idle
<1> QED
  BY <1>5, <1>6, <1>7 DEF IInv

\* ... and every step keeps it.
LEMMA NextIInv == IInv /\ [Next]_vars => IInv'
<1> SUFFICES ASSUME IInv, [Next]_vars PROVE IInv'
  OBVIOUS
<1>1. CASE UNCHANGED vars
  BY <1>1 DEF vars, IInv, TypeOK, PcOK, InCode, PhaseOK, BarOK, FamilyOK, Known,
              InWork, Cur, Work, memory, mutexes, family
<1>2. CASE Crash \/ Halted
  BY <1>2, EndStep
<1>3. ASSUME NEW t \in Thread, ThreadStep(t)
      PROVE  IInv'
  BY <1>3, DataStep, LookupStep, FlowStep, CreateStep, PushBackStep, BarrierStep, EndStep
     DEF ThreadStep
<1> QED
  BY <1>1, <1>2, <1>3 DEF Next

-----------------------------------------------------------------------------
(* What a step is, by what it changes.                                     *)

\* Few steps start threads, join them or lock; none changes the code, and what
\* is undefined stays so.
LEMMA StepKinds ==
    ASSUME NEW t \in Thread, ThreadStep(t)
    PROVE  /\ code' = code
           /\ Create(t) \/ PushBack(t) \/ UNCHANGED <<threads, th>>
           /\ \/ BarrierBegin(t) \/ JoinEnter(t) \/ JoinReturn(t) \/ BarrierEnd(t)
              \/ UNCHANGED <<bar, joined>>
           /\ JoinReturn(t) \/ joined' = joined
           /\ Lock(t) \/ Unlock(t) \/ UNCHANGED <<locked, held>>
           /\ ub \subseteq ub'
<1>1. CASE Allocate(t) \/ Target(t) \/ Lookup(t) \/ Copy(t) \/ Immediate(t)
  BY <1>1 DEF Allocate, Target, Lookup, Copy, Immediate, family, mutexes, Note
<1>2. CASE Load(t) \/ Store(t) \/ Jump(t) \/ Nop(t) \/ Finish(t)
  BY <1>2 DEF Load, Store, Jump, Nop, Finish, family, mutexes, Note
<1>3. CASE Lock(t) \/ Unlock(t) \/ Write(t) \/ Report(t)
  BY <1>3 DEF Lock, Unlock, Write, Report, Emit, family, mutexes, Note
<1>4. CASE Create(t) \/ PushBack(t)
  BY <1>4 DEF Create, PushBack, mutexes, Note
<1>5. CASE BarrierBegin(t) \/ JoinEnter(t) \/ JoinReturn(t) \/ BarrierEnd(t)
  BY <1>5 DEF BarrierBegin, JoinEnter, JoinReturn, BarrierEnd, mutexes, Note
<1>6. CASE FreePools(t) \/ DeleteThreads(t)
  BY <1>6 DEF FreePools, DeleteThreads, family, mutexes, Note
<1> QED BY <1>1, <1>2, <1>3, <1>4, <1>5, <1>6 DEF ThreadStep

LEMMA OtherKinds ==
    ASSUME Crash \/ Halted \/ UNCHANGED vars
    PROVE  UNCHANGED <<code, phase, pc, regs, memory, mutexes, family, out, ub>>
BY DEF Crash, Halted, vars

\* Any other step than Create changes the phase of its own thread alone, which
\* was born before.
LEMMA PhaseStep ==
    ASSUME NEW t \in Thread, ThreadStep(t), ~Create(t)
    PROVE  \/ phase' = phase
           \/ \E p \in Phases \ {"unborn"} :
                 phase[t] # "unborn" /\ phase' = [phase EXCEPT ![t] = p]
<1>1. CASE Allocate(t) \/ Target(t) \/ Lookup(t) \/ Copy(t) \/ Immediate(t)
  BY <1>1 DEF Allocate, Target, Lookup, Copy, Immediate, Throw, AtStep, InWork, Phases
<1>2. CASE Load(t) \/ Store(t) \/ Jump(t) \/ Nop(t)
  BY <1>2 DEF Load, Store, Jump, Nop, Throw, AtStep, InWork, Phases
<1>3. CASE Finish(t)
  BY <1>3 DEF Finish, Phases
<1>4. CASE Lock(t) \/ Unlock(t) \/ Write(t)
  BY <1>4 DEF Lock, Unlock, Write
<1>5. CASE Report(t)
  BY <1>5 DEF Report, Phases
<1>6. CASE PushBack(t) \/ BarrierBegin(t) \/ BarrierEnd(t)
  BY <1>6 DEF PushBack, BarrierBegin, BarrierEnd
<1>7. CASE JoinEnter(t) \/ JoinReturn(t)
  BY <1>7 DEF JoinEnter, JoinReturn, Throw, AtStep, InWork, Phases
<1>8. CASE FreePools(t) \/ DeleteThreads(t)
  BY <1>8 DEF FreePools, DeleteThreads, Phases
<1> QED BY <1>1, <1>2, <1>3, <1>4, <1>5, <1>6, <1>7, <1>8 DEF ThreadStep

-----------------------------------------------------------------------------
(* What every run satisfies.                                               *)

\* The invariant holds in every run.
THEOREM Invariant == Spec => []IInv
<1>1. Init => IInv
  BY InitIInv
<1>2. IInv /\ [Next]_vars => IInv'
  BY NextIInv
<1> QED
  BY <1>1, <1>2, PTL DEF Spec

\* The state stays typed: every number is a machine word, every iterator and
\* pointer is in range, every std::thread of the vector is a child.
THEOREM TypeCorrect == Spec => []TypeOK
<1>1. IInv => TypeOK
  BY DEF IInv
<1> QED
  BY <1>1, Invariant, PTL

-----------------------------------------------------------------------------
(* Mutual exclusion.                                                       *)

LEMMA ExclusionKept == IInv /\ MutualExclusion /\ [Next]_vars => MutualExclusion'
<1> SUFFICES ASSUME IInv, MutualExclusion, [Next]_vars, "unlock" \notin ub'
             PROVE  /\ \A a, b \in Thread : a # b => held'[a] \cap held'[b] = {}
                    /\ locked' = UNION {held'[a] : a \in Thread}
  BY DEF MutualExclusion
<1> DEFINE Exclusive == /\ \A a, b \in Thread : a # b => held[a] \cap held[b] = {}
                        /\ locked = UNION {held[a] : a \in Thread}
<1>1. held \in [Thread -> SUBSET Site]
  BY DEF IInv, TypeOK
<1>2. "unlock" \notin ub => Exclusive
  BY DEF MutualExclusion
<1>3. CASE UNCHANGED <<locked, held>>
  <2>1. ub \subseteq ub'
    BY StepKinds, OtherKinds DEF Next
  <2> QED BY <1>2, <1>3, <2>1
<1>4. ASSUME NEW t \in Thread, Lock(t) PROVE Exclusive'
  <2> DEFINE m == Cur(t).at
  <2>1. /\ m \notin locked /\ locked' = locked \cup {m}
        /\ held' = [held EXCEPT ![t] = @ \cup {m}] /\ ub' = ub
    BY <1>4 DEF Lock
  <2>2. Exclusive
    BY <1>2, <2>1
  <2>3. held'[t] = held[t] \cup {m} /\ \A a \in Thread : a # t => held'[a] = held[a]
    BY <1>1, <2>1
  <2>4. \A a \in Thread : m \notin held[a]
    BY <2>1, <2>2
  <2>5. ASSUME NEW a \in Thread, NEW b \in Thread, a # b PROVE held'[a] \cap held'[b] = {}
    <3>1. held[a] \cap held[b] = {}
      BY <2>2, <2>5
    <3> QED BY <2>3, <2>4, <2>5, <3>1
  <2>6. locked' = UNION {held'[a] : a \in Thread}
    BY <2>1, <2>2, <2>3
  <2> QED BY <2>5, <2>6
<1>5. ASSUME NEW t \in Thread, Unlock(t) PROVE Exclusive'
  <2> DEFINE m == Cur(t).at
  <2>1. /\ locked' = locked \ {m} /\ held' = [held EXCEPT ![t] = @ \ {m}]
        /\ m \in held[t] /\ ub' = ub
    BY <1>5 DEF Unlock, Note
  <2>2. Exclusive
    BY <1>2, <2>1
  <2>3. held'[t] = held[t] \ {m} /\ \A a \in Thread : a # t => held'[a] = held[a]
    BY <1>1, <2>1
  <2>4. \A a \in Thread : a # t => m \notin held[a]
    BY <2>1, <2>2
  <2>5. ASSUME NEW a \in Thread, NEW b \in Thread, a # b PROVE held'[a] \cap held'[b] = {}
    <3>1. held[a] \cap held[b] = {}
      BY <2>2, <2>5
    <3> QED BY <2>3, <2>4, <2>5, <3>1
  <2>6. locked' = UNION {held'[a] : a \in Thread}
    BY <2>1, <2>2, <2>3, <2>4
  <2> QED BY <2>5, <2>6
<1>6. UNCHANGED <<locked, held>> \/ \E t \in Thread : Lock(t) \/ Unlock(t)
  BY StepKinds, OtherKinds DEF Next, mutexes
<1> QED
  BY <1>3, <1>4, <1>5, <1>6

\* Lock and unlock of the build's std::mutex exclude each other, in every
\* program, until one unlocks a mutex it does not own.
THEOREM Exclusion == Spec => []MutualExclusion
<1>1. Init => MutualExclusion
  BY DEF Init, MutualExclusion
<1> QED
  BY <1>1, ExclusionKept, Invariant, PTL DEF Spec

-----------------------------------------------------------------------------
(* The end of the run.                                                     *)

\* Every step is of a running process, or changes nothing; only the deletion
\* of the threads, all of them joined, completes the run.
LEMMA RunningOrHalted ==
    ASSUME [Next]_vars
    PROVE  /\ status = "running" \/ UNCHANGED vars
           /\ status' = "done" /\ status # "done" => \E t \in Thread : DeleteThreads(t)
<1>1. ASSUME NEW t \in Thread, ThreadStep(t)
      PROVE  status = "running" /\ (status' = "done" => DeleteThreads(t))
  BY <1>1 DEF ThreadStep, AtStep, AtJoin, Allocate, Target, Throw, Lookup, Copy, Immediate, Load,
       Store, Jump, Nop, Finish, Lock, Unlock, Write, Report, Create, PushBack, BarrierBegin,
       JoinEnter, JoinReturn, BarrierEnd, FreePools, DeleteThreads
<1>2. CASE Crash
  BY <1>2 DEF Crash
<1>3. CASE Halted \/ UNCHANGED vars
  BY <1>3 DEF Halted, vars
<1> QED
  BY <1>1, <1>2, <1>3 DEF Next

\* When the vector is deleted, every thread ever started is in it.
LEMMA AllInVector ==
    ASSUME IInv, NEW t \in Thread, phase[t] \in {"destroy", "freed"}
    PROVE  /\ t = Main
           /\ \A u \in Child : phase[u] # "unborn" => \E i \in 1..Len(threads) : threads[i] = u
<1>1. t = Main /\ th = None
  BY Threads DEF IInv, PhaseOK, FamilyOK
<1> QED
  BY <1>1, Threads DEF IInv, FamilyOK, Known

LEMMA DoneMeansJoined ==
    ASSUME IInv, NEW t \in Thread, DeleteThreads(t), status' = "done"
    PROVE  \A u \in Child : /\ phase[u] # "unborn" => u \in joined
                            /\ phase[u] \in Over /\ phase'[u] = phase[u]
<1>1. phase[t] = "freed" /\ \A i \in 1..Len(threads) : threads[i] \in joined
  BY DEF DeleteThreads
<1>2. \A u \in Child : phase[u] # "unborn" => u \in joined
  BY <1>1, AllInVector
<1>3. \A u \in Child : phase[u] \in Over
  BY <1>2 DEF IInv, FamilyOK, Over
<1>4. \A u \in Child : phase'[u] = phase[u]
  <2>1. t = Main
    BY <1>1, AllInVector, Threads DEF IInv, TypeOK
  <2> QED BY <1>1, <2>1, Threads DEF DeleteThreads, IInv, TypeOK
<1> QED
  BY <1>2, <1>3, <1>4

LEMMA CleanExitKept == IInv /\ CleanExit /\ [Next]_vars => CleanExit'
<1> SUFFICES ASSUME IInv, CleanExit, [Next]_vars, status' = "done"
             PROVE  \A u \in Child : phase'[u] \in Over
  BY DEF CleanExit
<1>1. CASE status = "done"
  <2>1. UNCHANGED vars
    BY <1>1, RunningOrHalted
  <2> QED BY <1>1, <2>1 DEF vars, CleanExit
<1>2. CASE status # "done"
  <2>1. PICK t \in Thread : DeleteThreads(t)
    BY <1>2, RunningOrHalted
  <2> QED BY <2>1, DoneMeansJoined
<1> QED
  BY <1>1, <1>2

\* A run that returns leaves no thread behind, whatever the program and the
\* schedule.
THEOREM CleanRun == Spec => []CleanExit
<1>1. Init => CleanExit
  BY DEF Init, CleanExit
<1> QED
  BY <1>1, CleanExitKept, Invariant, PTL DEF Spec

-----------------------------------------------------------------------------
(* The pools are freed under threads that still run.                       *)

\* Once a freed object is touched there is a thread that was started and is
\* never joined: the last thread to call join is not joined itself.
Unjoined(u) == phase[u] # "unborn" /\ u \notin joined
FreeInv == "free" \in ub => Freed /\ status # "done" /\ \E u \in Child : Unjoined(u)

\* A thread that runs, other than the main thread, is not joined.
LEMMA RunningIsUnjoined ==
    ASSUME IInv, NEW u \in Child, phase[u] \in {"live", "wild"}
    PROVE  Unjoined(u)
BY DEF IInv, FamilyOK, Unjoined

\* Only JoinReturn joins, only Create starts, and nothing unborn is left by
\* a step.
LEMMA UnjoinedKept ==
    ASSUME IInv, [Next]_vars, NEW u \in Child, Unjoined(u)
    PROVE  Unjoined(u)' \/ \E t \in Thread : JoinReturn(t)
<1>1. ASSUME NEW t \in Thread, ThreadStep(t) PROVE phase'[u] # "unborn"
  <2>1. phase \in [Thread -> Phases] /\ u \in Thread /\ phase[u] # "unborn"
    BY Threads DEF Unjoined, IInv, TypeOK
  <2>2. CASE Create(t)
    BY <2>1, <2>2 DEF Create
  <2>3. CASE ~Create(t)
    BY <1>1, <2>1, <2>3, PhaseStep
  <2> QED BY <2>2, <2>3
<1>2. phase'[u] # "unborn"
  BY <1>1 DEF Unjoined, Next, Crash, Halted, vars
<1>3. joined' = joined \/ \E t \in Thread : JoinReturn(t)
  BY StepKinds, OtherKinds DEF Next, family
<1> QED
  BY <1>2, <1>3 DEF Unjoined

\* The pools stay freed.
LEMMA FreedKept == IInv /\ [Next]_vars /\ Freed => Freed'
<1> SUFFICES ASSUME IInv, [Next]_vars, Freed PROVE Freed'
  OBVIOUS
<1>1. Main \in Thread /\ phase[Main] \in {"freed", "ended"} /\ phase \in [Thread -> Phases] /\ th = None
  BY Threads DEF Freed, IInv, TypeOK, FamilyOK
<1>2. ASSUME NEW t \in Thread, ThreadStep(t) PROVE phase'[Main] \in {"freed", "ended"}
  BY <1>1, <1>2, Threads DEF ThreadStep, Allocate, Target, Throw, Lookup, Copy, Immediate, Load,
       Store, Jump, Nop, Finish, Lock, Unlock, Write, Report, Create, PushBack, BarrierBegin,
       JoinEnter, JoinReturn, BarrierEnd, FreePools, DeleteThreads, AtStep, InWork
<1> QED
  BY <1>1, <1>2 DEF Freed, Next, Crash, Halted, vars

LEMMA FreeInvKept == IInv /\ FreeInv /\ [Next]_vars => FreeInv'
<1> SUFFICES ASSUME IInv, FreeInv, [Next]_vars, "free" \in ub'
             PROVE  Freed' /\ status' # "done" /\ \E u \in Child : Unjoined(u)'
  BY DEF FreeInv
<1>1. CASE "free" \in ub
  <2>1. Freed /\ status # "done"
    BY <1>1 DEF FreeInv
  <2>2. PICK u \in Child : Unjoined(u)
    BY <1>1 DEF FreeInv
  <2>3. status' # "done"
    <3>1. ASSUME NEW t \in Thread, DeleteThreads(t), status' = "done" PROVE FALSE
      BY <2>2, <3>1, DoneMeansJoined DEF Unjoined
    <3> QED BY <2>1, <3>1, RunningOrHalted
  <2>4. \E w \in Child : Unjoined(w)'
    <3>1. CASE \E t \in Thread : JoinReturn(t)
      <4>1. PICK t \in Thread : JoinReturn(t)
        BY <3>1
      <4>2. phase[t] = "live" /\ phase[Joinee(t)] = "ended"
        BY <4>1 DEF JoinReturn, AtJoin, AtStep, InWork
      <4>3. t \in Child
        BY <2>1, <4>2, Threads DEF Freed
      <4>4. Unjoined(t) /\ t # Joinee(t)
        BY <4>2, <4>3, RunningIsUnjoined
      <4>5. Unjoined(t)'
        BY <4>1, <4>4 DEF JoinReturn, Unjoined
      <4> QED BY <4>3, <4>5
    <3>2. CASE ~ \E t \in Thread : JoinReturn(t)
      BY <2>2, <3>2, UnjoinedKept
    <3> QED BY <3>1, <3>2
  <2> QED BY <2>1, <2>3, <2>4, FreedKept
<1>2. CASE "free" \notin ub
  <2>1. PICK t \in Thread : Freed /\ (Copy(t) \/ Load(t) \/ Store(t))
    <3>1. ASSUME NEW t \in Thread, Copy(t) \/ Load(t) \/ Store(t) PROVE Freed
      BY <1>2, <3>1 DEF Copy, Load, Store, Note
    <3>2. ASSUME NEW t \in Thread, Jump(t) \/ Unlock(t) \/ PushBack(t) \/ BarrierBegin(t)
          PROVE  FALSE
      BY <1>2, <3>2 DEF Jump, Unlock, PushBack, BarrierBegin, Note
    <3>3. ASSUME NEW t \in Thread, Write(t) \/ Report(t) PROVE FALSE
      BY <1>2, <3>3 DEF Write, Report, Emit, Note
    <3>4. ub' # ub
      BY <1>2
    <3>5. \E t \in Thread : ThreadStep(t)
      BY <3>4 DEF Next, vars, Crash, Halted
    <3>6. ASSUME NEW t \in Thread, ThreadStep(t)
          PROVE  Copy(t) \/ Load(t) \/ Store(t)
      BY <3>2, <3>3, <3>4, <3>6
         DEF ThreadStep, Allocate, Target, Lookup, Immediate, Nop, Finish, Lock, Create, JoinEnter,
             JoinReturn, BarrierEnd, FreePools, DeleteThreads
    <3> QED BY <3>1, <3>5, <3>6
  <2>2. /\ phase[t] = "live" /\ status' = "running"
        /\ phase' = phase /\ joined' = joined
    BY <2>1 DEF Copy, Load, Store, AtStep, InWork, family
  <2>3. t \in Child
    BY <2>1, <2>2, Threads DEF Freed
  <2>4. Unjoined(t)
    BY <2>2, <2>3, RunningIsUnjoined
  <2> QED BY <2>1, <2>2, <2>3, <2>4 DEF Unjoined, Freed
<1> QED
  BY <1>1, <1>2

\* A run that touched a deleted object never returns to its caller.
THEOREM FreeNeverReturns == Spec => []NoReturnAfterFree
<1>1. Init => FreeInv
  BY DEF Init, FreeInv
<1>2. FreeInv => NoReturnAfterFree
  BY DEF FreeInv, NoReturnAfterFree
<1> QED
  BY <1>1, <1>2, FreeInvKept, Invariant, PTL DEF Spec

-----------------------------------------------------------------------------
(* BARRIER of the main program.                                            *)

\* While the main program is in barrier() the vector does not grow, and what
\* the loop has passed is joined.
BarrierInv ==
    bar[Main].j # 0 =>
        /\ InWork(Main) /\ Cur(Main).kind = "barrier"
        /\ bar[Main].lim = Len(threads) /\ bar[Main].j <= Len(threads) + 1
        /\ \A i \in 1..(bar[Main].j - 1) : threads[i] \in joined

\* The steps of the children leave the main thread and the vector alone.
LEMMA ChildStep ==
    ASSUME IInv, NEW t \in Child, ThreadStep(t)
    PROVE  /\ code' = code /\ pc'[Main] = pc[Main] /\ phase'[Main] = phase[Main]
           /\ bar'[Main] = bar[Main] /\ threads' = threads /\ joined \subseteq joined'
<1>1. t \in Thread /\ t # Main /\ Main \in Thread /\ Main \notin Child
  BY Threads
<1>2. ~Create(t) /\ ~PushBack(t)
  BY <1>1, CreateStep, PushBackStep
<1>3. code' = code /\ threads' = threads /\ joined \subseteq joined'
  BY <1>2 DEF ThreadStep, Allocate, Target, Lookup, Copy, Immediate, Load, Store, Jump, Nop,
       Finish, Lock, Unlock, Write, Report, BarrierBegin, JoinEnter, JoinReturn, BarrierEnd,
       FreePools, DeleteThreads, family
<1>4. pc'[Main] = pc[Main]
  BY <1>1, <1>2 DEF IInv, TypeOK, ThreadStep, Allocate, Target, Throw, Lookup, Copy, Immediate,
       Load, Store, Jump, Nop, Finish, Lock, Unlock, Write, Report, BarrierBegin, JoinEnter,
       JoinReturn, BarrierEnd, FreePools, DeleteThreads, GoOn
<1>5. phase'[Main] = phase[Main]
  BY <1>1, <1>2 DEF IInv, TypeOK, ThreadStep, Allocate, Target, Throw, Lookup, Copy, Immediate,
       Load, Store, Jump, Nop, Finish, Lock, Unlock, Write, Report, BarrierBegin, JoinEnter,
       JoinReturn, BarrierEnd, FreePools, DeleteThreads
<1>6. bar'[Main] = bar[Main]
  BY <1>1, <1>2 DEF IInv, TypeOK, ThreadStep, Allocate, Target, Lookup, Copy, Immediate, Load,
       Store, Jump, Nop, Finish, Lock, Unlock, Write, Report, BarrierBegin, JoinEnter, JoinReturn,
       BarrierEnd, FreePools, DeleteThreads, family
<1> QED
  BY <1>3, <1>4, <1>5, <1>6

\* The steps of the main thread in barrier() are those of its loop.
LEMMA LoopStep ==
    ASSUME ThreadStep(Main), InWork(Main), Cur(Main).kind = "barrier"
    PROVE  BarrierBegin(Main) \/ JoinEnter(Main) \/ JoinReturn(Main) \/ BarrierEnd(Main)
BY DEF ThreadStep, Allocate, Target, Lookup, Copy, Immediate, Load, Store, Jump, Nop, Finish, Lock,
       Unlock, Write, Report, Create, PushBack, FreePools, DeleteThreads, AtStep, InWork

\* Outside barrier() only BarrierBegin enters it.
LEMMA OutsideLoop ==
    ASSUME IInv, ThreadStep(Main), bar[Main].j = 0
    PROVE  BarrierBegin(Main) \/ bar'[Main].j = 0
<1>1. Main \in Thread /\ bar \in [Thread -> [j : Nat, lim : Nat, in : BOOLEAN]]
  BY Threads DEF IInv, TypeOK
<1>2. ~AtJoin(Main)
  BY <1>1 DEF AtJoin
<1>3. BarrierEnd(Main) => bar'[Main].j = 0
  BY <1>1 DEF BarrierEnd, Idle
<1> QED
  BY <1>1, <1>2, <1>3 DEF ThreadStep, Allocate, Target, Lookup, Copy, Immediate, Load, Store, Jump,
       Nop, Finish, Lock, Unlock, Write, Report, Create, PushBack, JoinEnter, JoinReturn,
       FreePools, DeleteThreads, family

LEMMA BarrierInvKept == IInv /\ BarrierInv /\ [Next]_vars => BarrierInv'
<1> SUFFICES ASSUME IInv, BarrierInv, [Next]_vars PROVE BarrierInv'
  OBVIOUS
<1>1. /\ Main \in Thread /\ bar \in [Thread -> [j : Nat, lim : Nat, in : BOOLEAN]]
      /\ threads \in Seq(Child) /\ Len(threads) \in Nat
  BY Threads DEF IInv, TypeOK
<1>2. ASSUME NEW t \in Child, ThreadStep(t) PROVE BarrierInv'
  BY <1>2, ChildStep DEF BarrierInv, InWork, Cur, Work
<1>3. CASE ThreadStep(Main) /\ bar[Main].j # 0
  <2>1. InWork(Main) /\ Cur(Main).kind = "barrier"
    BY <1>3 DEF BarrierInv
  <2>2. JoinEnter(Main) \/ JoinReturn(Main) \/ BarrierEnd(Main)
    BY <1>3, <2>1, LoopStep DEF BarrierBegin
  <2>3. CASE JoinEnter(Main)
    <3>1. bar'[Main].j = bar[Main].j /\ bar'[Main].lim = bar[Main].lim
      BY <1>1, <2>3 DEF JoinEnter
    <3> QED BY <3>1, <2>3 DEF JoinEnter, BarrierInv, InWork, Cur, Work
  <2>4. CASE JoinReturn(Main)
    <3>1. /\ bar'[Main].j = bar[Main].j + 1 /\ bar'[Main].lim = bar[Main].lim
          /\ joined' = joined \cup {threads[bar[Main].j]} /\ threads' = threads
          /\ bar[Main].j \in 1..bar[Main].lim
      BY <1>1, <2>4 DEF JoinReturn, Joinee, AtJoin
    <3>2. \A i \in 1..(bar'[Main].j - 1) : threads'[i] \in joined'
      BY <1>1, <1>3, <3>1 DEF BarrierInv
    <3>3. (InWork(Main) /\ Cur(Main).kind = "barrier")'
      BY <2>1, <2>4 DEF JoinReturn, InWork, Cur, Work
    <3> QED BY <1>1, <1>3, <3>1, <3>2, <3>3 DEF BarrierInv
  <2>5. CASE BarrierEnd(Main)
    BY <1>1, <2>5 DEF BarrierEnd, BarrierInv, Idle
  <2> QED BY <2>2, <2>3, <2>4, <2>5
<1>4. CASE ThreadStep(Main) /\ bar[Main].j = 0
  <2>1. CASE BarrierBegin(Main)
    <3>1. bar'[Main] = [j |-> 1, lim |-> Len(threads), in |-> FALSE]
      BY <1>1, <2>1 DEF BarrierBegin
    <3>2. (InWork(Main) /\ Cur(Main).kind = "barrier")'
      BY <2>1 DEF BarrierBegin, AtStep, InWork, Cur, Work
    <3> QED BY <1>1, <2>1, <3>1, <3>2 DEF BarrierBegin, BarrierInv
  <2>2. CASE bar'[Main].j = 0
    BY <2>2 DEF BarrierInv
  <2> QED BY <1>4, <2>1, <2>2, OutsideLoop
<1>5. CASE Crash \/ Halted \/ UNCHANGED vars
  BY <1>5 DEF Crash, Halted, vars, family, BarrierInv, InWork, Cur, Work
<1> QED
  BY <1>2, <1>3, <1>4, <1>5, Threads DEF Next

\* BARRIER of the main program returns only when every thread started so far
\* has ended and been joined.
THEOREM BarrierReturns == Spec => BarrierJoinsAll
<1> DEFINE Joins == \A u \in Child : phase[u] \in Over /\ (phase[u] = "ended" => u \in joined)
<1>1. Init => BarrierInv
  BY Threads DEF Init, BarrierInv, Idle
<1>2. IInv /\ BarrierInv /\ [Next]_vars => (MainLeavesBarrier => Joins)
  <2> SUFFICES ASSUME IInv, BarrierInv, [Next]_vars, bar[Main].j # 0, bar'[Main].j = 0
               PROVE  Joins
    BY DEF MainLeavesBarrier
  <2>1. /\ Main \in Thread /\ bar \in [Thread -> [j : Nat, lim : Nat, in : BOOLEAN]]
        /\ Len(threads) \in Nat
    BY Threads DEF IInv, TypeOK
  <2>2. ~ \E t \in Child : ThreadStep(t)
    BY ChildStep
  <2>3. ThreadStep(Main)
    BY <2>2, Threads DEF Next, Crash, Halted, vars, family
  <2>4. BarrierEnd(Main)
    <3>1. BarrierBegin(Main) \/ JoinEnter(Main) \/ JoinReturn(Main) \/ BarrierEnd(Main)
      BY <2>3, LoopStep DEF BarrierInv
    <3>2. ~BarrierBegin(Main)
      BY DEF BarrierBegin
    <3>3. ~JoinEnter(Main) /\ ~JoinReturn(Main)
      BY <2>1 DEF JoinEnter, JoinReturn
    <3> QED BY <3>1, <3>2, <3>3
  <2>5. \A i \in 1..Len(threads) : threads[i] \in joined
    BY <2>1, <2>4 DEF BarrierEnd, BarrierInv
  <2>6. \A u \in Child : phase[u] # "unborn" => u \in joined
    BY <2>4, <2>5, Threads DEF BarrierEnd, AtStep, IInv, FamilyOK, Known
  <2> QED BY <2>6 DEF IInv, FamilyOK, Over
<1> QED
  BY <1>1, <1>2, BarrierInvKept, Invariant, PTL DEF Spec, BarrierJoinsAll

-----------------------------------------------------------------------------
(* The run implements the abstract fork and join.                          *)

\* The works of a thread change neither the threads that run nor the call.
LEMMA WorkIsStutter ==
    ASSUME IInv, NEW t \in Thread,
           \/ Allocate(t) \/ Copy(t) \/ Immediate(t) \/ Load(t) \/ Store(t) \/ Nop(t)
           \/ Lock(t) \/ Unlock(t) \/ Write(t) \/ PushBack(t)
           \/ BarrierBegin(t) \/ JoinReturn(t) \/ BarrierEnd(t)
    PROVE  UNCHANGED <<Active, Started, Call>>
<1>1. phase' = phase /\ status' = status
  BY DEF Allocate, Copy, Immediate, Load, Store, Nop, Lock, Unlock, Write, PushBack,
         BarrierBegin, JoinReturn, BarrierEnd
<1> QED
  BY <1>1 DEF Active, Started, Call

\* An exception aborts the call, or is the main program's own.
LEMMA ThrowIsAbort ==
    ASSUME IInv, NEW t \in Thread, status = "running", phase[t] = "live", Throw(t)
    PROVE  FJ!Abort \/ UNCHANGED <<Active, Started, Call>>
<1>1. phase \in [Thread -> Phases]
  BY DEF IInv, TypeOK
<1>2. CASE t = Main
  BY <1>1, <1>2, Threads DEF Throw, Active, Started, Call
<1>3. CASE t # Main
  BY <1>3 DEF Throw, Active, Started, Call, FJ!Abort
<1> QED
  BY <1>2, <1>3

LEMMA ChildKeepsCall ==
    ASSUME IInv, NEW u \in Child, NEW x \in {"live", "wild", "ended"}, status' = status,
           phase[u] \in {"live", "wild"}, phase' = [phase EXCEPT ![u] = x]
    PROVE  /\ Started' = Started /\ Call' = Call
           /\ Active' = IF x = "ended" THEN Active \ {u} ELSE Active
<1>1. phase \in [Thread -> Phases] /\ u \in Thread
  BY Threads DEF IInv, TypeOK
<1>2. phase'[u] = x /\ \A w \in Child : w # u => phase'[w] = phase[w]
  BY <1>1, Threads
<1> QED
  BY <1>2 DEF Started, Call, Active

\* A step of the main thread on its own phase is seen by no child.
LEMMA MainIsAlone ==
    ASSUME IInv, NEW x, phase' = [phase EXCEPT ![Main] = x]
    PROVE  Active' = Active /\ Started' = Started
BY Threads DEF IInv, TypeOK, Active, Started

LEMMA StepRefines == IInv /\ [Next]_vars => [FJ!FNext]_(FJ!fvars)
<1> SUFFICES ASSUME IInv, [Next]_vars
             PROVE  FJ!FNext \/ UNCHANGED <<Active, Started, Call>>
  BY DEF FJ!fvars
<1>1. phase \in [Thread -> Phases]
  BY DEF IInv, TypeOK
<1>2. CASE UNCHANGED vars \/ Halted
  BY <1>2 DEF vars, Halted, Active, Started, Call
<1>3. CASE Crash
  BY <1>3 DEF Crash, Active, Started, Call, FJ!FNext, FJ!Abort
<1>4. ASSUME NEW t \in Thread, Target(t) \/ Lookup(t)
      PROVE  FJ!Abort \/ UNCHANGED <<Active, Started, Call>>
  <2>1. status = "running" /\ phase[t] = "live"
    BY <1>4 DEF Target, Lookup, AtStep, InWork
  <2>2. CASE Throw(t)
    BY <2>1, <2>2, ThrowIsAbort
  <2>3. CASE ~Throw(t)
    BY <1>4, <2>3 DEF Target, Lookup, Active, Started, Call
  <2> QED BY <2>2, <2>3
<1>5. ASSUME NEW t \in Thread, Jump(t)
      PROVE  UNCHANGED <<Active, Started, Call>>
  <2>1. phase[t] = "live" /\ status' = status
    BY <1>5 DEF Jump, AtStep, InWork
  <2>2. CASE phase' = phase
    BY <2>1, <2>2 DEF Active, Started, Call
  <2>3. CASE phase' = [phase EXCEPT ![t] = "wild"]
    <3>1. CASE t = Main
      BY <2>1, <2>3, <3>1, MainIsAlone DEF Call
    <3>2. CASE t # Main
      BY <2>1, <2>3, <3>2, ChildKeepsCall, Threads
    <3> QED BY <3>1, <3>2
  <2> QED BY <1>5, <2>2, <2>3 DEF Jump
<1>6. ASSUME NEW t \in Thread, Finish(t)
      PROVE  (\E u \in Child : FJ!End(u)) \/ UNCHANGED <<Active, Started, Call>>
  <2>1. status = "running" /\ status' = status /\ phase[t] = "live"
    BY <1>6 DEF Finish
  <2>2. CASE t = Main
    BY <1>6, <2>1, <2>2, MainIsAlone DEF Finish, Call
  <2>3. CASE t # Main
    <3>1. t \in Child /\ phase' = [phase EXCEPT ![t] = "ended"]
      BY <1>6, <2>3, Threads DEF Finish
    <3>2. Active' = Active \ {t} /\ Started' = Started /\ Call' = Call
      BY <2>1, <3>1, ChildKeepsCall
    <3> QED BY <2>1, <3>1, <3>2 DEF FJ!End, Active, Call
  <2> QED BY <2>2, <2>3
<1>7. ASSUME NEW t \in Thread, Report(t) \/ FreePools(t)
      PROVE  UNCHANGED <<Active, Started, Call>>
  <2>1. t = Main
    BY <1>7, Threads DEF Report, FreePools, IInv, PhaseOK
  <2> QED BY <1>7, <2>1, MainIsAlone DEF Report, FreePools, Call
<1>8. ASSUME NEW t \in Thread, Create(t)
      PROVE  \E u \in Child : FJ!Spawn(u)
  <2>1. PICK u \in Child : phase[u] = "unborn" /\ phase' = [phase EXCEPT ![u] = "live"]
    BY <1>8 DEF Create
  <2>2. phase'[u] = "live" /\ \A w \in Child : w # u => phase'[w] = phase[w]
    BY <1>1, <2>1, Threads
  <2>3. status = "running" /\ status' = status
    BY <1>8 DEF Create, AtStep
  <2> QED BY <2>1, <2>2, <2>3 DEF FJ!Spawn, Active, Started, Call
<1>9. ASSUME NEW t \in Thread, JoinEnter(t)
      PROVE  FJ!Abort \/ UNCHANGED <<Active, Started, Call>>
  BY <1>9 DEF JoinEnter, AtJoin, AtStep, FJ!Abort, Active, Started, Call
<1>10. ASSUME NEW t \in Thread, DeleteThreads(t)
       PROVE  FJ!Return \/ FJ!Abort
  <2>1. t = Main /\ status = "running" /\ phase' = [phase EXCEPT ![t] = "ended"]
    BY <1>10, AllInVector DEF DeleteThreads
  <2>2. Active' = Active /\ Started' = Started
    BY <2>1, MainIsAlone
  <2>3. CASE status' = "done"
    BY <1>10, <2>1, <2>2, <2>3, DoneMeansJoined DEF FJ!Return, Active, Call, Over
  <2>4. CASE status' = "terminated"
    BY <2>1, <2>2, <2>4 DEF FJ!Abort, Call
  <2> QED BY <1>10, <2>3, <2>4 DEF DeleteThreads
<1>11. ASSUME NEW t \in Thread, ThreadStep(t)
       PROVE  FJ!FNext \/ UNCHANGED <<Active, Started, Call>>
  BY <1>4, <1>5, <1>6, <1>7, <1>8, <1>9, <1>10, <1>11, WorkIsStutter DEF ThreadStep, FJ!FNext
<1> QED
  BY <1>2, <1>3, <1>11 DEF Next, FJ!FNext

\* A run is a fork and join, for every program: threads start and end inside
\* the call, and a call that returns leaves none.
THEOREM Refinement == Spec => IsForkJoin
<1>1. Init => FJ!FInit
  BY Threads DEF Init, FJ!FInit, Active, Started, Call
<1> QED
  BY <1>1, StepRefines, Invariant, PTL DEF Spec, IsForkJoin, FJ!FSpec
=============================================================================

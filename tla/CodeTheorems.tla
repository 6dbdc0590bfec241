---------------------------- MODULE CodeTheorems ----------------------------
(***************************************************************************)
(* That what the parser and the linkers make of a source is code: the      *)
(* assumption of the theorems about runs.                                  *)
(***************************************************************************)
EXTENDS ParserTheorems, SequenceTheorems

-----------------------------------------------------------------------------
(* Sequences of steps.                                                     *)

IsStep(s, kind, name, at) == s \in Step /\ s.kind = kind /\ s.name = name /\ s.at = at

LEMMA StepIs ==
    ASSUME NEW kind \in Kinds, NEW name \in Names \cup {Unnamed}, NEW num \in Word,
           NEW how \in Hows, NEW at \in Nat \X Nat
    PROVE  IsStep(MkStep(kind, name, num, how, at), kind, name, at)
<1> DEFINE s == MkStep(kind, name, num, how, at)
<1>1. s = [kind |-> kind, name |-> name, num |-> num, how |-> how, at |-> at]
  BY DEF MkStep
<1> HIDE DEF s
<1>2. s \in Step /\ s.kind = kind /\ s.name = name /\ s.at = at
  BY <1>1 DEF Step
<1> QED BY <1>2 DEF IsStep, s

LEMMA StepsAre ==
    ASSUME NEW kind \in Kinds, NEW how \in Hows
    PROVE  /\ IsStep(Plain(kind), kind, Unnamed, <<0, 0>>)
           /\ \A name \in Names : IsStep(Named(kind, name, how), kind, name, <<0, 0>>)
           /\ \A at \in Nat \X Nat : IsStep(Placed(kind, how, at), kind, Unnamed, at)
           /\ 0 \in Word
<1>1. 0 \in Word /\ <<0, 0>> \in Nat \X Nat
  BY HalfAssumption DEF Word
<1>2. Unnamed \in Hows /\ Unnamed \in Names \cup {Unnamed}
  BY DEF Hows
<1>3. IsStep(Plain(kind), kind, Unnamed, <<0, 0>>)
  BY <1>1, <1>2, StepIs, Zenon DEF Plain
<1>4. ASSUME NEW name \in Names PROVE IsStep(Named(kind, name, how), kind, name, <<0, 0>>)
  <2>1. name \in Names \cup {Unnamed}  OBVIOUS
  <2> QED BY <1>1, <2>1, StepIs, Zenon DEF Named
<1>5. ASSUME NEW at \in Nat \X Nat PROVE IsStep(Placed(kind, how, at), kind, Unnamed, at)
  BY <1>1, <1>2, StepIs, Zenon DEF Placed
<1> QED BY <1>1, <1>3, <1>4, <1>5, Zenon

LEMMA PairIs == ASSUME NEW l, NEW t PROVE <<l>> \o <<t>> = <<l, t>>
<1> DEFINE S == {l, t}
           a == <<l>> \o <<t>>
           b == <<l, t>>
<1>1. <<l>> \in Seq(S) /\ <<t>> \in Seq(S) /\ b \in Seq(S)  OBVIOUS
<1>2. Len(a) = 2 /\ Len(b) = 2  BY <1>1
<1>3. a \in Seq(S)  BY <1>1
<1>4. \A k \in 1..2 : a[k] = b[k]  BY <1>1
<1> HIDE DEF a, b, S
<1>5. a = b  BY <1>1, <1>2, <1>3, <1>4, SeqEqual
<1> QED BY <1>5 DEF a, b

LEMMA JoinIs ==
    ASSUME NEW S, NEW s \in Seq(S), NEW t \in Seq(S), NEW u \in Seq(S)
    PROVE  s \o t \o u = s \o (t \o u)
BY ConcatAssociative

\* Steps of some kinds, of which each copy follows its lookup and what names a
\* variable names one.
Reads(s, kinds) ==
    /\ s \in Seq(Step)
    /\ \A k \in 1..Len(s) :
         /\ s[k].kind \in kinds
         /\ s[k].kind \in Naming => s[k].name \in Names
         /\ s[k].kind = "copy" => k > 1 /\ s[k - 1].kind = "lookup"

LEMMA ReadsOne ==
    ASSUME NEW s, NEW kind, NEW name, NEW at, IsStep(s, kind, name, at), kind # "copy",
           kind \in Naming => name \in Names, NEW kinds, kind \in kinds
    PROVE  Reads(<<s>>, kinds)
<1>1. s \in Step /\ s.kind = kind /\ s.name = name  BY DEF IsStep
<1>2. <<s>> \in Seq(Step) /\ Len(<<s>>) = 1 /\ <<s>>[1] = s  BY <1>1
<1>3. \A k \in 1..1 : <<s>>[k] = s  BY <1>2
<1> QED BY <1>1, <1>2, <1>3 DEF Reads

LEMMA ReadsJoin ==
    ASSUME NEW s, NEW t, NEW kinds, Reads(s, kinds), Reads(t, kinds)
    PROVE  /\ Reads(s \o t, kinds) /\ Len(s \o t) = Len(s) + Len(t)
           /\ \A k \in 1..Len(s) : (s \o t)[k] = s[k]
           /\ \A k \in 1..Len(t) : (s \o t)[k + Len(s)] = t[k]
<1> DEFINE u == s \o t
           m == Len(s)
<1>1. s \in Seq(Step) /\ t \in Seq(Step) /\ m \in Nat /\ Len(t) \in Nat
  BY DEF Reads
<1>2. /\ u \in Seq(Step) /\ Len(u) = m + Len(t)
      /\ \A k \in 1..m : u[k] = s[k]
      /\ \A k \in 1..Len(t) : u[k + m] = t[k]
  BY <1>1
<1> HIDE DEF u, m
<1>3. ASSUME NEW k \in 1..Len(u)
      PROVE  /\ u[k].kind \in kinds
             /\ u[k].kind \in Naming => u[k].name \in Names
             /\ u[k].kind = "copy" => k > 1 /\ u[k - 1].kind = "lookup"
  <2>1. CASE k <= m
    <3>1. k \in 1..m /\ (k > 1 => k - 1 \in 1..m)  BY <1>1, <1>2, <2>1
    <3>2. k \in 1..Len(s) /\ u[k] = s[k] /\ (k > 1 => u[k - 1] = s[k - 1])
      BY <1>2, <3>1 DEF m
    <3> QED BY <3>2 DEF Reads
  <2>2. CASE k > m
    <3> DEFINE l == k - m
    <3>1. l \in 1..Len(t) /\ k = l + m  BY <1>1, <1>2, <2>2
    <3>2. l > 1 => l - 1 \in 1..Len(t) /\ k - 1 = (l - 1) + m /\ k > 1  BY <1>1, <3>1
    <3> HIDE DEF l
    <3>3. u[k] = t[l] /\ (l > 1 => u[k - 1] = t[l - 1] /\ k > 1)  BY <1>2, <3>1, <3>2
    <3> QED BY <3>1, <3>3 DEF Reads
  <2> QED BY <1>1, <1>2, <2>1, <2>2
<1>4. Reads(u, kinds)
  BY <1>2, <1>3 DEF Reads
<1> QED BY <1>2, <1>4 DEF u, m

LEMMA ReadsMore ==
    ASSUME NEW s, NEW kinds, NEW more, Reads(s, kinds), kinds \subseteq more
    PROVE  Reads(s, more)
BY DEF Reads

LEMMA ReadsAll ==
    ASSUME NEW seqs, NEW N \in Nat, seqs = [i \in 1..N |-> seqs[i]], NEW kinds,
           \A i \in 1..N : Reads(seqs[i], kinds)
    PROVE  Reads(FlattenSeq(seqs), kinds)
<1> DEFINE S == {s \in Seq(Step) : Reads(s, kinds)}
<1>1. Len(seqs) = N
  BY DEF Reads
<1>2. CASE N = 0
  <2>1. FlattenSeq(seqs) = seqs  BY <1>1, <1>2, Zenon DEF FlattenSeq
  <2>2. seqs = <<>>  BY <1>2
  <2>3. Reads(<<>>, kinds)  BY DEF Reads
  <2> QED BY <2>1, <2>2, <2>3
<1>3. CASE N # 0
  <2> DEFINE flatten[i \in 1..N] == IF i = 1 THEN seqs[i] ELSE flatten[i - 1] \o seqs[i]
             Body(f) == [i \in 1..N |-> IF i = 1 THEN seqs[i] ELSE f[i - 1] \o seqs[i]]
  <2>1. FlattenSeq(seqs) = flatten[N]
    BY <1>1, <1>3, Zenon DEF FlattenSeq
  <2> DEFINE M == N - 1
             a == seqs[1]
             step == [n \in 1..M |-> [s \in S |-> s \o seqs[n + 1]]]
  <2>2. M \in Nat /\ 1 \in 1..N /\ N = M + 1  BY <1>3
  <2>3. a \in S  BY <2>2 DEF Reads
  <2>4. step \in [1..M -> [S -> S]]
    <3> SUFFICES ASSUME NEW n \in 1..M, NEW s \in S PROVE s \o seqs[n + 1] \in S
      OBVIOUS
    <3>1. n + 1 \in 1..N  BY <2>2
    <3>2. Reads(s \o seqs[n + 1], kinds)  BY <3>1, ReadsJoin
    <3> QED BY <3>2 DEF Reads
  <2>5. PICK h : Loops(h, M, S, a, step)
    <3> HIDE DEF M, S, a, step
    <3> QED BY <2>2, <2>3, <2>4, Loop
  <2> DEFINE f == [i \in 1..N |-> h[i - 1]]
  <2>6. h \in [0..M -> S] /\ h[0] = a /\ \A n \in 1..M : h[n] = h[n - 1] \o seqs[n + 1]
    <3>1. h \in [0..M -> S] /\ h[0] = a /\ \A n \in 1..M : h[n] = step[n][h[n - 1]]
      <4> HIDE DEF M, S, a, step
      <4> QED BY <2>5 DEF Loops
    <3>2. \A n \in 1..M : h[n - 1] \in S
      <4> HIDE DEF S, a, step
      <4> QED BY <2>2, <3>1
    <3> HIDE DEF S, M, a
    <3>3. \A n \in 1..M : step[n][h[n - 1]] = h[n - 1] \o seqs[n + 1]  BY <3>2
    <3> HIDE DEF step
    <3> QED BY <3>1, <3>3
  <2>7. f = Body(f)
    <3> HIDE DEF S
    <3> SUFFICES ASSUME NEW i \in 1..N
                 PROVE  h[i - 1] = IF i = 1 THEN seqs[i] ELSE f[i - 1] \o seqs[i]
      BY DEF f
    <3>1. CASE i = 1  BY <2>6, <3>1
    <3>2. CASE i # 1
      <4> DEFINE n == i - 1
      <4>1. n \in 1..M /\ i = n + 1 /\ n \in 1..N  BY <2>2, <3>2
      <4>2. h[n] = h[n - 1] \o seqs[n + 1] /\ f[n] = h[n - 1]  BY <2>6, <4>1
      <4> QED BY <3>2, <4>1, <4>2
    <3> QED BY <3>1, <3>2
  <2>8. flatten = Body(flatten)
    <3> HIDE DEF f
    <3>1. flatten = CHOOSE g : g = Body(g)  BY DEF flatten
    <3> HIDE DEF flatten, Body
    <3> QED BY <2>7, <3>1, Zenon
  <2> DEFINE T == {n \in 0..M : flatten[n + 1] \in S}
  <2>9. /\ flatten[1] = seqs[1]
        /\ \A n \in 1..M : flatten[n + 1] = flatten[n] \o seqs[n + 1]
    <3> HIDE DEF flatten, S, a, step, f
    <3>1. \A i \in 1..N : flatten[i] = IF i = 1 THEN seqs[i] ELSE flatten[i - 1] \o seqs[i]
      BY <2>8
    <3> HIDE DEF Body
    <3>2. ASSUME NEW n \in 1..M PROVE flatten[n + 1] = flatten[n] \o seqs[n + 1]
      <4>1. n + 1 \in 1..N /\ n + 1 # 1 /\ (n + 1) - 1 = n  BY <2>2
      <4> QED BY <3>1, <4>1
    <3> QED BY <2>2, <3>1, <3>2
  <2> HIDE DEF flatten, Body, f, step
  <2>10. 0 \in T  BY <2>2, <2>3, <2>9
  <2>11. ASSUME NEW n \in 1..M, n - 1 \in T PROVE n \in T
    <3>1. flatten[n] \in S /\ n + 1 \in 1..N
      <4>1. (n - 1) + 1 = n  OBVIOUS
      <4> QED BY <2>2, <2>11, <4>1
    <3>2. Reads(flatten[n] \o seqs[n + 1], kinds)  BY <3>1, ReadsJoin
    <3>3. flatten[n + 1] \in S  BY <2>9, <3>2 DEF Reads
    <3> QED BY <3>3
  <2>12. 0..M \subseteq T
    <3> HIDE DEF T, M
    <3> QED BY <2>2, <2>10, <2>11, UpToSet
  <2>13. flatten[N] \in S
    <3>1. M \in T /\ M + 1 = N  BY <2>2, <2>12
    <3> HIDE DEF S, M
    <3> QED BY <3>1
  <2> QED BY <2>1, <2>13
<1> QED BY <1>2, <1>3

-----------------------------------------------------------------------------
(* The scripts of the works.                                               *)

\* An argument that a Getter can be made of.
Operand(arg) == IF IsVar(arg) THEN arg[2] \in Names ELSE Value(arg) \in Word

Reading == {"lookup", "copy", "imm"}

LEMMA GetIs ==
    ASSUME NEW arg, Operand(arg)
    PROVE  Reads(Get(arg), Reading) /\ Len(Get(arg)) > 0
<1>1. "lookup" \in Kinds /\ "copy" \in Kinds /\ "imm" \in Kinds /\ "throw" \in Hows
  BY DEF Kinds, Hows
<1>2. CASE IsVar(arg)
  <2> DEFINE l == Named("lookup", arg[2], "throw")
             c == Plain("copy")
  <2>1. IsStep(l, "lookup", arg[2], <<0, 0>>) /\ IsStep(c, "copy", Unnamed, <<0, 0>>)
    BY <1>1, <1>2, StepsAre, Zenon DEF Operand
  <2>2. Get(arg) = <<l, c>>  BY <1>2 DEF Get
  <2> HIDE DEF l, c
  <2>3. l \in Step /\ c \in Step /\ l.kind = "lookup" /\ c.kind = "copy" /\ l.name \in Names
    BY <1>2, <2>1 DEF IsStep, Operand
  <2>4. /\ <<l, c>> \in Seq(Step) /\ Len(<<l, c>>) = 2 /\ <<l, c>>[1] = l /\ <<l, c>>[2] = c
    BY <2>3
  <2>5. Reads(<<l, c>>, Reading)
    BY <2>3, <2>4 DEF Reads, Reading, Naming
  <2> QED BY <2>2, <2>4, <2>5
<1>3. CASE ~IsVar(arg)
  <2> DEFINE v == MkStep("imm", Unnamed, Value(arg), Unnamed, <<0, 0>>)
  <2>1. <<0, 0>> \in Nat \X Nat /\ Unnamed \in Hows /\ Unnamed \in Names \cup {Unnamed}
    BY DEF Hows
  <2>2. IsStep(v, "imm", Unnamed, <<0, 0>>)
    BY <1>1, <1>3, <2>1, StepIs, Zenon DEF Operand
  <2>3. Get(arg) = <<v>>  BY <1>3 DEF Get
  <2> HIDE DEF v
  <2>4. Reads(<<v>>, Reading)
    <3>1. "imm" # "copy" /\ "imm" \notin Naming /\ "imm" \in Reading  BY DEF Naming, Reading
    <3> QED BY <2>2, <3>1, ReadsOne
  <2> QED BY <2>3, <2>4
<1> QED BY <1>2, <1>3

\* What a script is like, whatever its work does.
Scripted(s, w) ==
    /\ Reads(s, Kinds) /\ Len(s) > 0
    /\ \A k \in 1..Len(s) :
         /\ s[k].kind \in {"load", "store"} => \E j \in 1..(k - 1) : s[j].kind = "target"
         /\ s[k].kind = "write" => w.op = "OUT"
         /\ s[k].kind \in {"lock", "unlock"} =>
              w.op \in LockOps \cup {"OUT"} /\ s[k].at = w.at
         /\ s[k].kind = "thread" => w.op = "THREAD" /\ s[k].at = w.at
         /\ s[k].kind \in {"thread", "barrier"} => Len(s) = 1
         /\ s[k].kind = "jump" => w.op \in Jumps /\ s[k].at = w.at
    /\ w.op = "OUT" => OwnMutex(s, w.at)

\* Steps that any work may take, and those that follow a target.
Free == Reading \cup {"alloc", "target", "nop"}
Updating == Free \cup {"load", "store"}

LEMMA FreeKinds ==
    /\ Reading \subseteq Free /\ Free \subseteq Updating /\ Updating \subseteq Kinds
    /\ {"load", "store", "write", "lock", "unlock", "thread", "barrier", "jump"} \cap Free = {}
    /\ {"write", "lock", "unlock", "thread", "barrier", "jump"} \cap Updating = {}
BY DEF Reading, Free, Updating, Kinds

LEMMA ScriptedOne ==
    ASSUME NEW w, NEW s, NEW kind, NEW name, IsStep(s, kind, name, w.at), kind # "copy",
           kind \in Kinds \ {"load", "store", "write"}, kind \in Naming => name \in Names,
           kind \in {"lock", "unlock"} => w.op \in LockOps,
           kind = "thread" => w.op = "THREAD", kind = "jump" => w.op \in Jumps,
           w.op # "OUT"
    PROVE  Scripted(<<s>>, w)
<1>1. Reads(<<s>>, Kinds)
  BY ReadsOne
<1>2. Len(<<s>>) = 1 /\ \A k \in 1..1 : <<s>>[k] = s
  OBVIOUS
<1>3. s.kind = kind /\ s.at = w.at
  BY DEF IsStep
<1> QED BY <1>1, <1>2, <1>3 DEF Scripted

\* The same for a step whose place says nothing.
LEMMA ScriptedFree ==
    ASSUME NEW w, NEW s, Reads(s, Updating), Len(s) > 0, w.op # "OUT",
           NEW n \in 0..Len(s), n > 0 => s[n].kind = "target",
           \A k \in 1..Len(s) : n = 0 \/ k <= n => s[k].kind \notin {"load", "store"}
    PROVE  Scripted(s, w)
<1>1. Reads(s, Kinds)
  BY FreeKinds, ReadsMore
<1>2. s \in Seq(Step) /\ Len(s) \in Nat
  BY DEF Reads
<1>3. ASSUME NEW k \in 1..Len(s), s[k].kind \in {"load", "store"}
      PROVE  \E j \in 1..(k - 1) : s[j].kind = "target"
  <2>1. n > 0 /\ k > n  BY <1>2, <1>3
  <2>2. n \in 1..(k - 1) /\ s[n].kind = "target"  BY <1>2, <2>1
  <2> QED BY <2>2
<1>4. \A k \in 1..Len(s) :
        s[k].kind \notin {"write", "lock", "unlock", "thread", "barrier", "jump"}
  <2>1. \A k \in 1..Len(s) : s[k].kind \in Updating  BY DEF Reads
  <2> QED BY <2>1, FreeKinds
<1> QED BY <1>1, <1>3, <1>4 DEF Scripted

\* What a work is made of when its source is representable.
Represented(w) ==
    /\ w.op \in (Instructions \ (StringOps \cup Delimiters)) \cup {"THREAD"}
    /\ w.args \in Seq(Argument) /\ w.at \in Nat \X Nat
    /\ \A k \in 1..Len(w.args) : Operand(w.args[k])
    /\ w.op \in Math \cup {"ASSIGN", "VAR"} => w.name \in Names
    /\ w.op \in {"VAR", "SUB", "DIV"} => Len(w.args) = 2
    /\ w.op \in {"ASSIGN", "SLEEP"} => Len(w.args) = 1
    /\ w.op = "ASSIGN" => IsVar(w.args[1])

LEMMA FreeStep ==
    ASSUME NEW kind \in Updating \ {"copy"}
    PROVE  /\ kind \notin Naming => Reads(<<Plain(kind)>>, Updating)
           /\ kind \notin Naming => \A how \in Hows : Reads(<<Placed(kind, how, <<0, 0>>)>>, Updating)
           /\ \A name \in Names : \A how \in Hows : Reads(<<Named(kind, name, how)>>, Updating)
<1>1. kind \in Kinds /\ kind # "copy" /\ Unnamed \in Hows /\ <<0, 0>> \in Nat \X Nat
  BY FreeKinds DEF Hows
<1>2. ASSUME kind \notin Naming PROVE Reads(<<Plain(kind)>>, Updating)
  <2>1. IsStep(Plain(kind), kind, Unnamed, <<0, 0>>)  BY <1>1, StepsAre
  <2> QED BY <1>1, <1>2, <2>1, ReadsOne, Zenon
<1>3. ASSUME kind \notin Naming, NEW how \in Hows
      PROVE  Reads(<<Placed(kind, how, <<0, 0>>)>>, Updating)
  <2>1. IsStep(Placed(kind, how, <<0, 0>>), kind, Unnamed, <<0, 0>>)  BY <1>1, StepsAre
  <2> QED BY <1>1, <1>3, <2>1, ReadsOne, Zenon
<1>4. ASSUME NEW name \in Names, NEW how \in Hows
      PROVE  Reads(<<Named(kind, name, how)>>, Updating)
  <2>1. IsStep(Named(kind, name, how), kind, name, <<0, 0>>)  BY <1>1, StepsAre
  <2> QED BY <1>1, <1>4, <2>1, ReadsOne, Zenon
<1> QED BY <1>2, <1>3, <1>4

LEMMA DeclareIs ==
    ASSUME NEW w, Represented(w), w.op = "VAR"
    PROVE  Scripted(DeclareNumber(w), w)
<1> DEFINE v == Value(w.args[2])
           s == MkStep("alloc", w.name, v, Unnamed, <<0, 0>>)
<1>1. w.name \in Names /\ Operand(w.args[2])
  <2>1. Len(w.args) = 2  BY DEF Represented
  <2> QED BY <2>1 DEF Represented
<1>2. v \in Word
  BY <1>1, HalfAssumption DEF Operand, Value, IsVar, Word
<1>3. "alloc" \in Updating /\ "alloc" \in Kinds /\ Unnamed \in Hows /\ <<0, 0>> \in Nat \X Nat
      /\ "alloc" # "copy" /\ w.name \in Names \cup {Unnamed}
  BY <1>1 DEF Updating, Free, Kinds, Hows
<1>4. DeclareNumber(w) = <<s>>  BY DEF DeclareNumber
<1> HIDE DEF v
<1>5. IsStep(s, "alloc", w.name, <<0, 0>>)  BY <1>2, <1>3, StepIs, Zenon
<1> HIDE DEF s
<1>6. Reads(<<s>>, Updating)  BY <1>1, <1>3, <1>5, ReadsOne
<1>7. s.kind = "alloc" /\ Len(<<s>>) = 1 /\ <<s>>[1] = s  BY <1>5 DEF IsStep
<1>8. Scripted(<<s>>, w)
  <2> DEFINE one == <<s>>
  <2>1. \A k \in 1..Len(one) : one[k].kind \notin {"load", "store"}  BY <1>7
  <2>2. Reads(one, Updating) /\ Len(one) > 0 /\ 0 \in 0..Len(one)  BY <1>6, <1>7
  <2> HIDE DEF one
  <2>3. Scripted(one, w)  BY <2>1, <2>2, ScriptedFree
  <2> QED BY <2>3 DEF one
<1> QED BY <1>4, <1>8

\* Steps that begin with the lookup of the target.
LEMMA TargetFirst ==
    ASSUME NEW w, w.op # "OUT", w.name \in Names, NEW how \in Hows, NEW rest, Reads(rest, Updating)
    PROVE  Scripted(<<Named("target", w.name, how)>> \o rest, w)
<1> DEFINE t == Named("target", w.name, how)
           first == <<t>>
           s == first \o rest
<1>1. "target" \in Updating \ {"copy"} /\ "target" \in Kinds  BY DEF Updating, Free, Kinds
<1>2. Reads(first, Updating)  BY <1>1, FreeStep
<1>3. IsStep(t, "target", w.name, <<0, 0>>)  BY <1>1, StepsAre
<1> HIDE DEF t
<1>4. Len(first) = 1 /\ first[1].kind = "target"  BY <1>3 DEF IsStep
<1> HIDE DEF first
<1>5. Reads(s, Updating) /\ Len(s) = 1 + Len(rest) /\ s[1] = first[1]
  <2>1. /\ Reads(first \o rest, Updating) /\ Len(first \o rest) = Len(first) + Len(rest)
        /\ \A k \in 1..Len(first) : (first \o rest)[k] = first[k]
    BY <1>2, ReadsJoin
  <2>2. 1 \in 1..Len(first)  BY <1>4
  <2> QED BY <1>4, <2>1, <2>2
<1>6. Len(rest) \in Nat  BY DEF Reads
<1> HIDE DEF s
<1>7. Len(s) > 0 /\ 1 \in 0..Len(s) /\ s[1].kind = "target"  BY <1>4, <1>5, <1>6
<1>8. \A k \in 1..Len(s) : 1 = 0 \/ k <= 1 => s[k].kind \notin {"load", "store"}  BY <1>7
<1>9. Scripted(s, w)  BY <1>5, <1>7, <1>8, ScriptedFree
<1> QED BY <1>9 DEF s, first, t

LEMMA AccumulateIs ==
    ASSUME NEW w, Represented(w), w.op \in {"ADD", "MUL"}, NEW op \in Hows
    PROVE  Scripted(Accumulate(w, op), w)
<1> DEFINE N == Len(w.args)
           Part(i) == Get(w.args[i]) \o <<Plain("load"), Placed("store", op, <<0, 0>>)>>
           seqs == [i \in 1..N |-> Part(i)]
<1>1. N \in Nat /\ DOMAIN w.args = 1..N /\ w.name \in Names
      /\ \A k \in 1..N : Operand(w.args[k])
  BY DEF Represented, Math
<1>2. Accumulate(w, op) = <<Named("target", w.name, "throw")>> \o FlattenSeq(seqs)
  <2>1. seqs = [i \in DOMAIN w.args |-> Part(i)]  BY <1>1
  <2> QED BY <2>1 DEF Accumulate
<1>3. ASSUME NEW i \in 1..N PROVE Reads(seqs[i], Updating)
  <2> DEFINE g == Get(w.args[i])
             l == Plain("load")
             t == Placed("store", op, <<0, 0>>)
  <2>1. Reads(g, Updating)
    <3>1. Reads(g, Reading)  BY <1>1, GetIs
    <3> HIDE DEF g
    <3>2. Reading \subseteq Updating  BY FreeKinds
    <3> QED BY <3>1, <3>2, ReadsMore
  <2>2. Reads(<<l>>, Updating) /\ Reads(<<t>>, Updating)
    <3>1. /\ "load" \in Updating \ {"copy"} /\ "load" \notin Naming
          /\ "store" \in Updating \ {"copy"} /\ "store" \notin Naming
      BY DEF Updating, Naming
    <3> QED BY <3>1, FreeStep
  <2>3. Part(i) = g \o <<l, t>>  OBVIOUS
  <2> HIDE DEF g, l, t
  <2>4. <<l, t>> = <<l>> \o <<t>>  BY PairIs
  <2>5. Reads(<<l, t>>, Updating)  BY <2>2, <2>4, ReadsJoin, Zenon
  <2>6. Reads(g \o <<l, t>>, Updating)  BY <2>1, <2>5, ReadsJoin
  <2> HIDE DEF Part
  <2>7. seqs[i] = Part(i)  OBVIOUS
  <2> QED BY <2>3, <2>6, <2>7
<1> HIDE DEF Part
<1>4. Reads(FlattenSeq(seqs), Updating)
  <2>1. seqs = [i \in 1..N |-> seqs[i]]  OBVIOUS
  <2> HIDE DEF seqs, N
  <2> QED BY <1>1, <1>3, <2>1, ReadsAll
<1>5. "throw" \in Hows /\ w.op # "OUT"  BY DEF Hows
<1> HIDE DEF seqs
<1> QED BY <1>1, <1>2, <1>4, <1>5, TargetFirst

LEMMA ReadOperand ==
    ASSUME NEW arg, Operand(arg) PROVE Reads(Get(arg), Updating)
<1>1. Reading \subseteq Updating  BY FreeKinds
<1> DEFINE g == Get(arg)
<1>2. Reads(g, Reading)  BY GetIs
<1> HIDE DEF g
<1>3. Reads(g, Updating)  BY <1>1, <1>2, ReadsMore
<1> QED BY <1>3 DEF g

LEMMA StoreIs == ASSUME NEW op \in Hows PROVE Reads(<<Placed("store", op, <<0, 0>>)>>, Updating)
<1>1. "store" \in Updating \ {"copy"} /\ "store" \notin Naming  BY DEF Updating, Naming
<1> QED BY <1>1, FreeStep

LEMMA CombineIs ==
    ASSUME NEW w, Represented(w), w.op \in {"SUB", "DIV"}, NEW op \in Hows
    PROVE  Scripted(Combine(w, op), w)
<1> DEFINE first == <<Named("target", w.name, "skip")>>
           two == Get(w.args[2])
           one == Get(w.args[1])
           last == <<Placed("store", op, <<0, 0>>)>>
           rest == two \o (one \o last)
<1>1. w.name \in Names /\ Operand(w.args[1]) /\ Operand(w.args[2])
  BY DEF Represented, Math
<1>2. "skip" \in Hows /\ w.op # "OUT"  BY DEF Hows
<1>3. Reads(one, Updating) /\ Reads(two, Updating) /\ Reads(last, Updating)
  BY <1>1, ReadOperand, StoreIs
<1>4. Combine(w, op) = first \o two \o one \o last  BY DEF Combine
<1>5. first \in Seq(Step)
  <2>1. "target" \in Updating \ {"copy"}  BY DEF Updating, Free
  <2>2. Reads(first, Updating)  BY <1>1, <1>2, <2>1, FreeStep
  <2> HIDE DEF first
  <2> QED BY <2>2 DEF Reads
<1> HIDE DEF two, one, last, first
<1>6. Reads(rest, Updating)
  <2>1. Reads(one \o last, Updating)  BY <1>3, ReadsJoin
  <2> DEFINE end == one \o last
  <2> HIDE DEF end
  <2>2. Reads(two \o end, Updating)  BY <1>3, <2>1, ReadsJoin DEF end
  <2> QED BY <2>2 DEF end
<1>7. first \o two \o one \o last = first \o rest
  <2>1. one \in Seq(Step) /\ two \in Seq(Step) /\ last \in Seq(Step)  BY <1>3, Zenon DEF Reads
  <2>2. first \o two \in Seq(Step)  BY <1>5, <2>1
  <2>3. (first \o two) \o one \o last = (first \o two) \o (one \o last)
    <3> DEFINE front == first \o two
               S == Step
    <3>1. front \in Seq(S) /\ one \in Seq(S) /\ last \in Seq(S)  BY <2>1, <2>2
    <3> HIDE DEF front, S
    <3>2. front \o one \o last = front \o (one \o last)  BY <3>1, JoinIs
    <3> QED BY <3>2 DEF front
  <2>4. one \o last \in Seq(Step)  BY <2>1
  <2>5. (first \o two) \o (one \o last) = first \o (two \o (one \o last))
    <3> DEFINE end == one \o last
               S == Step
    <3>1. first \in Seq(S) /\ two \in Seq(S) /\ end \in Seq(S)  BY <1>5, <2>1, <2>4
    <3> HIDE DEF end, S
    <3>2. first \o two \o end = first \o (two \o end)  BY <3>1, JoinIs
    <3> QED BY <3>2 DEF end
  <2> QED BY <2>3, <2>5
<1> HIDE DEF rest
<1>8. Scripted(first \o rest, w)  BY <1>1, <1>2, <1>6, TargetFirst DEF first
<1> QED BY <1>4, <1>7, <1>8

LEMMA AssignIs ==
    ASSUME NEW w, Represented(w), w.op = "ASSIGN"
    PROVE  Scripted(Assign(w), w)
<1> DEFINE from == w.args[1][2]
           a == Named("lookup", w.name, "throw")
           b == Named("lookup", from, "throw")
           c == Named("target", w.name, "throw")
           first == <<a, b, c>>
           get == Get(w.args[1])
           last == <<Placed("store", "move", <<0, 0>>)>>
           s == first \o get \o last
<1>1. Len(w.args) = 1 /\ w.name \in Names /\ Operand(w.args[1]) /\ from \in Names
  <2>1. Len(w.args) = 1 /\ w.name \in Names  BY DEF Represented
  <2>2. Operand(w.args[1]) /\ IsVar(w.args[1])  BY <2>1 DEF Represented
  <2> QED BY <2>1, <2>2 DEF Operand
<1>2. /\ "throw" \in Hows /\ "move" \in Hows /\ w.op # "OUT"
      /\ "lookup" \in Kinds /\ "target" \in Kinds
  BY DEF Hows, Kinds
<1>3. Assign(w) = s  BY DEF Assign
<1>4. Reads(get, Updating) /\ Reads(last, Updating)
  BY <1>1, <1>2, ReadOperand, StoreIs
<1>5. /\ IsStep(a, "lookup", w.name, <<0, 0>>) /\ IsStep(b, "lookup", from, <<0, 0>>)
      /\ IsStep(c, "target", w.name, <<0, 0>>)
  <2> HIDE DEF from
  <2> QED BY <1>1, <1>2, StepsAre, Zenon
<1> HIDE DEF a, b, c, get, last, from
<1>6. /\ a \in Step /\ b \in Step /\ c \in Step /\ a.name \in Names /\ b.name \in Names
      /\ c.name \in Names /\ a.kind = "lookup" /\ b.kind = "lookup" /\ c.kind = "target"
  BY <1>1, <1>5 DEF IsStep
<1>7. /\ first \in Seq(Step) /\ Len(first) = 3 /\ first[1] = a /\ first[2] = b /\ first[3] = c
  BY <1>6
<1> HIDE DEF first
<1>8. \A k \in 1..3 : first[k].kind \in {"lookup", "target"} /\ first[k].name \in Names
  <2> SUFFICES ASSUME NEW k \in 1..3
               PROVE  first[k].kind \in {"lookup", "target"} /\ first[k].name \in Names
    OBVIOUS
  <2>1. k = 1 \/ k = 2 \/ k = 3  OBVIOUS
  <2> QED BY <1>6, <1>7, <2>1
<1>9. Reads(first, Updating)
  <2>1. {"lookup", "target"} \subseteq Updating  BY DEF Updating, Free, Reading
  <2> QED BY <1>7, <1>8, <2>1 DEF Reads
<1> DEFINE front == first \o get
<1>10. Reads(front, Updating) /\ Len(front) = 3 + Len(get) /\ \A k \in 1..3 : front[k] = first[k]
  <2>1. /\ Reads(first \o get, Updating) /\ Len(first \o get) = Len(first) + Len(get)
        /\ \A k \in 1..Len(first) : (first \o get)[k] = first[k]
    BY <1>4, <1>9, ReadsJoin
  <2> QED BY <1>7, <2>1
<1>11. Len(get) \in Nat /\ Len(last) \in Nat /\ Len(front) >= 3 /\ Len(front) \in Nat
  BY <1>4, <1>10 DEF Reads
<1> HIDE DEF front
<1>12. Reads(s, Updating) /\ Len(s) = Len(front) + Len(last) /\ \A k \in 1..Len(front) : s[k] = front[k]
  BY <1>4, <1>10, ReadsJoin DEF front
<1> HIDE DEF s
<1>13. Len(s) >= 3 /\ Len(s) > 0 /\ 3 \in 0..Len(s) /\ \A k \in 1..3 : s[k] = first[k]
  BY <1>10, <1>11, <1>12
<1>14. s[3].kind = "target"  BY <1>6, <1>7, <1>13
<1>15. \A k \in 1..Len(s) : 3 = 0 \/ k <= 3 => s[k].kind \notin {"load", "store"}
  BY <1>8, <1>13
<1>16. Scripted(s, w)
  BY <1>2, <1>12, <1>13, <1>14, <1>15, ScriptedFree
<1> QED BY <1>3, <1>16

LEMMA OutIs ==
    ASSUME NEW w, Represented(w), w.op = "OUT"
    PROVE  Scripted(Out(w), w)
<1> DEFINE N == Len(w.args)
           Part(i) == Get(w.args[i]) \o <<Plain("write")>>
           seqs == [i \in 1..N |-> Part(i)]
           body == FlattenSeq(seqs)
           l == Placed("lock", Unnamed, w.at)
           u == Placed("unlock", Unnamed, w.at)
           Writing == Reading \cup {"write"}
           s == <<l>> \o body \o <<u>>
<1>1. N \in Nat /\ DOMAIN w.args = 1..N /\ w.at \in Nat \X Nat
      /\ \A k \in 1..N : Operand(w.args[k])
  BY DEF Represented
<1>2. Out(w) = s
  <2>1. seqs = [i \in DOMAIN w.args |-> Part(i)]  BY <1>1
  <2> QED BY <2>1 DEF Out
<1>3. ASSUME NEW i \in 1..N PROVE Reads(seqs[i], Writing)
  <2> DEFINE g == Get(w.args[i])
             o == Plain("write")
  <2>1. Reads(g, Writing)
    <3>1. Reads(g, Reading)  BY <1>1, GetIs
    <3> HIDE DEF g
    <3>2. Reading \subseteq Writing  OBVIOUS
    <3> QED BY <3>1, <3>2, ReadsMore
  <2>2. IsStep(o, "write", Unnamed, <<0, 0>>)
    <3>1. "write" \in Kinds /\ Unnamed \in Hows  BY DEF Kinds, Hows
    <3> QED BY <3>1, StepsAre
  <2>3. Part(i) = g \o <<o>>  OBVIOUS
  <2> HIDE DEF g, o
  <2>4. Reads(<<o>>, Writing)
    <3>1. "write" \in Writing /\ "write" # "copy" /\ "write" \notin Naming  BY DEF Naming
    <3> HIDE DEF Writing
    <3> QED BY <2>2, <3>1, ReadsOne
  <2>5. Reads(g \o <<o>>, Writing)
    <3> HIDE DEF Writing
    <3> QED BY <2>1, <2>4, ReadsJoin
  <2> HIDE DEF Part
  <2>6. seqs[i] = Part(i)  OBVIOUS
  <2> QED BY <2>3, <2>5, <2>6
<1> HIDE DEF Part
<1>4. Reads(body, Writing)
  <2>1. seqs = [i \in 1..N |-> seqs[i]]  OBVIOUS
  <2> HIDE DEF seqs, N, Writing
  <2> QED BY <1>1, <1>3, <2>1, ReadsAll
<1>5. IsStep(l, "lock", Unnamed, w.at) /\ IsStep(u, "unlock", Unnamed, w.at)
  <2>1. "lock" \in Kinds /\ "unlock" \in Kinds /\ Unnamed \in Hows  BY DEF Kinds, Hows
  <2> QED BY <1>1, <2>1, StepsAre
<1>6. Writing \subseteq Kinds /\ "lock" \in Kinds /\ "unlock" \in Kinds
  BY DEF Kinds, Reading
<1> HIDE DEF body, l, u
<1>7. l.kind = "lock" /\ l.at = w.at /\ u.kind = "unlock" /\ u.at = w.at
  BY <1>5 DEF IsStep
<1>8. Reads(body, Kinds) /\ Reads(<<l>>, Kinds) /\ Reads(<<u>>, Kinds)
  <2>1. "lock" # "copy" /\ "unlock" # "copy" /\ "lock" \notin Naming /\ "unlock" \notin Naming
    BY DEF Naming
  <2>2. Reads(<<l>>, Kinds) /\ Reads(<<u>>, Kinds)
    BY <1>5, <1>6, <2>1, ReadsOne
  <2> HIDE DEF Writing
  <2>3. Reads(body, Kinds)
    BY <1>4, <1>6, ReadsMore
  <2> QED BY <2>2, <2>3
<1> DEFINE front == <<l>> \o body
           M == Len(body)
<1>9. M \in Nat  BY <1>4 DEF Reads
<1>10. /\ Reads(front, Kinds) /\ Len(front) = 1 + M /\ front[1] = l
       /\ \A k \in 1..M : front[k + 1] = body[k]
  <2>1. /\ Reads(<<l>> \o body, Kinds) /\ Len(<<l>> \o body) = Len(<<l>>) + Len(body)
        /\ \A k \in 1..Len(<<l>>) : (<<l>> \o body)[k] = <<l>>[k]
        /\ \A k \in 1..Len(body) : (<<l>> \o body)[k + Len(<<l>>)] = body[k]
    BY <1>8, ReadsJoin
  <2>2. Len(<<l>>) = 1 /\ <<l>>[1] = l /\ 1 \in 1..1  OBVIOUS
  <2> QED BY <2>1, <2>2
<1> HIDE DEF front
<1>11. /\ Reads(s, Kinds) /\ Len(s) = M + 2 /\ s[M + 2] = u
       /\ \A k \in 1..(M + 1) : s[k] = front[k]
  <2>1. /\ Reads(front \o <<u>>, Kinds) /\ Len(front \o <<u>>) = Len(front) + Len(<<u>>)
        /\ \A k \in 1..Len(front) : (front \o <<u>>)[k] = front[k]
        /\ \A k \in 1..Len(<<u>>) : (front \o <<u>>)[k + Len(front)] = <<u>>[k]
    BY <1>8, <1>10, ReadsJoin
  <2>2. Len(<<u>>) = 1 /\ <<u>>[1] = u /\ 1 \in 1..1  OBVIOUS
  <2>3. s = front \o <<u>>  BY DEF front
  <2>4. (front \o <<u>>)[1 + Len(front)] = u  BY <2>1, <2>2
  <2>5. Len(front) = M + 1 /\ 1 + (M + 1) = M + 2 /\ (M + 1) + 1 = M + 2  BY <1>9, <1>10
  <2> HIDE DEF s, M
  <2> QED BY <2>1, <2>2, <2>3, <2>4, <2>5
<1> HIDE DEF s, M
<1>12. \A k \in 2..(M + 1) : s[k].kind \in Writing
  <2> SUFFICES ASSUME NEW k \in 2..(M + 1) PROVE s[k].kind \in Writing  OBVIOUS
  <2> DEFINE j == k - 1
  <2>1. j \in 1..M /\ k = j + 1 /\ k \in 1..(M + 1)  BY <1>9
  <2> HIDE DEF j
  <2>2. s[k] = body[j]  BY <1>10, <1>11, <2>1
  <2> HIDE DEF Writing
  <2> QED BY <1>4, <2>1, <2>2 DEF Reads, M
<1>13. s[1] = l /\ 1 \in 1..(M + 1)  BY <1>9, <1>10, <1>11
<1>14. OwnMutex(s, w.at)
  <2>1. s[1].kind = "lock" /\ s[1].at = w.at  BY <1>7, <1>13
  <2>2. s[Len(s)].kind = "unlock" /\ s[Len(s)].at = w.at  BY <1>7, <1>11
  <2>3. Len(s) - 1 = M + 1  BY <1>9, <1>11
  <2>4. \A k \in 2..(Len(s) - 1) : s[k].kind \in {"lookup", "copy", "imm", "write"}
    BY <1>12, <2>3 DEF Reading
  <2> QED BY <2>1, <2>2, <2>4 DEF OwnMutex
<1>15. ASSUME NEW k \in 1..Len(s)
       PROVE  /\ s[k].kind \in Writing \cup {"lock", "unlock"}
              /\ s[k].kind \in {"lock", "unlock"} => s[k].at = w.at
  <2>1. k = 1 \/ k = M + 2 \/ k \in 2..(M + 1)  BY <1>9, <1>11, <1>15
  <2>2. CASE k = 1  BY <1>7, <1>13, <2>2
  <2>3. CASE k = M + 2  BY <1>7, <1>11, <2>3
  <2>4. CASE k \in 2..(M + 1)
    <3>1. s[k].kind \in Writing  BY <1>12, <2>4
    <3> QED BY <3>1 DEF Reading
  <2> QED BY <2>1, <2>2, <2>3, <2>4
<1>16. Len(s) > 0  BY <1>9, <1>11
<1>17. Scripted(s, w)
  <2>1. ("load" \notin Writing) /\ ("store" \notin Writing) /\ ("thread" \notin Writing)
        /\ ("barrier" \notin Writing) /\ ("jump" \notin Writing)
    BY DEF Reading
  <2> HIDE DEF Writing
  <2> QED BY <1>11, <1>14, <1>15, <1>16, <2>1 DEF Scripted
<1> QED BY <1>2, <1>17

\* Steps that only read, and a jump at their end.
LEMMA JumpLast ==
    ASSUME NEW w, NEW body, Reads(body, Reading), w.op \in Jumps, w.at \in Nat \X Nat
    PROVE  Scripted(body \o <<Placed("jump", w.op, w.at)>>, w)
<1> DEFINE j == Placed("jump", w.op, w.at)
           s == body \o <<j>>
           M == Len(body)
<1>1. "jump" \in Kinds /\ w.op \in Hows /\ "jump" # "copy" /\ "jump" \notin Naming
      /\ Reading \subseteq Kinds /\ w.op # "OUT"
  BY DEF Kinds, Hows, Jumps, Naming, Reading
<1>2. IsStep(j, "jump", Unnamed, w.at)  BY <1>1, StepsAre
<1> HIDE DEF j
<1>3. j.kind = "jump" /\ j.at = w.at  BY <1>2 DEF IsStep
<1>4. Reads(body, Kinds) /\ Reads(<<j>>, Kinds) /\ M \in Nat
  <2>1. Reads(<<j>>, Kinds)  BY <1>1, <1>2, ReadsOne
  <2>2. Reads(body, Kinds)  BY <1>1, ReadsMore
  <2> QED BY <2>1, <2>2 DEF Reads
<1>5. /\ Reads(s, Kinds) /\ Len(s) = M + 1 /\ s[M + 1] = j /\ \A k \in 1..M : s[k] = body[k]
  <2>1. /\ Reads(body \o <<j>>, Kinds) /\ Len(body \o <<j>>) = Len(body) + Len(<<j>>)
        /\ \A k \in 1..Len(body) : (body \o <<j>>)[k] = body[k]
        /\ \A k \in 1..Len(<<j>>) : (body \o <<j>>)[k + Len(body)] = <<j>>[k]
    BY <1>4, ReadsJoin
  <2>2. Len(<<j>>) = 1 /\ <<j>>[1] = j /\ 1 \in 1..1  OBVIOUS
  <2>3. (body \o <<j>>)[1 + Len(body)] = j  BY <2>1, <2>2
  <2>4. 1 + M = M + 1  BY <1>4
  <2> HIDE DEF M
  <2>5. M = Len(body)  BY DEF M
  <2> QED BY <2>1, <2>2, <2>3, <2>4, <2>5
<1> HIDE DEF s, M
<1>6. ASSUME NEW k \in 1..Len(s)
      PROVE  s[k].kind \in Reading \/ (s[k].kind = "jump" /\ s[k].at = w.at)
  <2>1. CASE k = M + 1  BY <1>3, <1>5, <2>1
  <2>2. CASE k # M + 1
    <3>1. k \in 1..M  BY <1>4, <1>5, <2>2
    <3>2. s[k] = body[k]  BY <1>5, <3>1
    <3>3. body[k].kind \in Reading  BY <3>1 DEF Reads, M
    <3> QED BY <3>2, <3>3
  <2> QED BY <2>1, <2>2
<1>7. Len(s) > 0  BY <1>4, <1>5
<1>8. Scripted(s, w)
  <2>1. ASSUME NEW k \in 1..Len(s)
        PROVE  /\ s[k].kind \notin {"load", "store", "write", "lock", "unlock", "thread", "barrier"}
               /\ s[k].kind = "jump" => s[k].at = w.at
    BY <1>6 DEF Reading
  <2> QED BY <1>1, <1>5, <1>7, <2>1 DEF Scripted
<1> QED BY <1>8 DEF s, j

LEMMA BranchIs ==
    ASSUME NEW w, Represented(w), w.op \in Jumps
    PROVE  Scripted(Branch(w), w)
<1> DEFINE N == Len(w.args)
           Part(i) == Get(w.args[N + 1 - i])
           seqs == [i \in 1..N |-> Part(i)]
           body == FlattenSeq(seqs)
<1>1. N \in Nat /\ DOMAIN w.args = 1..N /\ w.at \in Nat \X Nat
      /\ \A k \in 1..N : Operand(w.args[k])
  BY DEF Represented
<1>2. Branch(w) = body \o <<Placed("jump", w.op, w.at)>>
  <2>1. seqs = [i \in DOMAIN w.args |-> Part(i)]  BY <1>1
  <2> QED BY <2>1 DEF Branch
<1>3. ASSUME NEW i \in 1..N PROVE Reads(seqs[i], Reading)
  <2>1. N + 1 - i \in 1..N  BY <1>1
  <2>2. Reads(Part(i), Reading)  BY <1>1, <2>1, GetIs
  <2> HIDE DEF Part
  <2>3. seqs[i] = Part(i)  OBVIOUS
  <2> QED BY <2>2, <2>3
<1>4. Reads(body, Reading)
  <2>1. seqs = [i \in 1..N |-> seqs[i]]  OBVIOUS
  <2> HIDE DEF seqs, N
  <2> QED BY <1>1, <1>3, <2>1, ReadsAll
<1> HIDE DEF body
<1> QED BY <1>1, <1>2, <1>4, JumpLast

LEMMA SleepIs ==
    ASSUME NEW w, Represented(w), w.op = "SLEEP"
    PROVE  Scripted(Sleep(w), w)
<1> DEFINE get == Get(w.args[1])
           n == <<Plain("nop")>>
           s == get \o get \o n
<1>1. Operand(w.args[1])
  <2>1. Len(w.args) = 1  BY DEF Represented
  <2> QED BY <2>1 DEF Represented
<1>2. Reads(get, Reading) /\ Reads(get, Free)
  <2>1. Reads(get, Reading)  BY <1>1, GetIs
  <2> HIDE DEF get
  <2> QED BY <2>1, FreeKinds, ReadsMore
<1>3. Reads(n, Free)
  <2>1. "nop" \in Kinds /\ Unnamed \in Hows /\ "nop" # "copy" /\ "nop" \notin Naming
        /\ "nop" \in Free
    BY DEF Kinds, Hows, Naming, Free
  <2>2. IsStep(Plain("nop"), "nop", Unnamed, <<0, 0>>)  BY <2>1, StepsAre
  <2> QED BY <2>1, <2>2, ReadsOne
<1>4. Sleep(w) = s  BY DEF Sleep
<1>5. Len(n) = 1  OBVIOUS
<1> HIDE DEF get, n
<1> DEFINE two == get \o get
<1>6. Reads(two, Free)  BY <1>2, ReadsJoin
<1> HIDE DEF two
<1>7. Reads(s, Free) /\ Len(s) = Len(two) + 1
  <2>1. Reads(two \o n, Free) /\ Len(two \o n) = Len(two) + Len(n)  BY <1>3, <1>6, ReadsJoin
  <2>2. s = two \o n  BY DEF two
  <2> QED BY <1>5, <2>1, <2>2
<1>8. Len(two) \in Nat  BY <1>6 DEF Reads
<1> HIDE DEF s
<1>9. Len(s) > 0 /\ 0 \in 0..Len(s)  BY <1>7, <1>8
<1>10. \A k \in 1..Len(s) : s[k].kind \notin {"load", "store"}
  <2>1. \A k \in 1..Len(s) : s[k].kind \in Free  BY <1>7 DEF Reads
  <2> QED BY <2>1, FreeKinds
<1>11. Reads(s, Updating)  BY <1>7, FreeKinds, ReadsMore
<1>12. Scripted(s, w)  BY <1>9, <1>10, <1>11, ScriptedFree
<1> QED BY <1>4, <1>12

\* The works of one step.
LEMMA OneStepIs ==
    ASSUME NEW w, Represented(w)
    PROVE  /\ w.op = "LABEL" => Scripted(<<Plain("nop")>>, w)
           /\ w.op = "LOCK" => Scripted(<<Placed("lock", Unnamed, w.at)>>, w)
           /\ w.op = "UNLOCK" => Scripted(<<Placed("unlock", Unnamed, w.at)>>, w)
           /\ w.op = "THREAD" => Scripted(<<Placed("thread", Unnamed, w.at)>>, w)
           /\ w.op = "BARRIER" => Scripted(<<Plain("barrier")>>, w)
<1>1. /\ {"nop", "lock", "unlock", "thread", "barrier"} \subseteq Kinds /\ Unnamed \in Hows
      /\ {"nop", "lock", "unlock", "thread", "barrier"} \cap Naming = {} /\ w.at \in Nat \X Nat
  BY DEF Kinds, Hows, Naming, Represented
<1>2. ASSUME NEW kind \in {"lock", "unlock", "thread"}, w.op # "OUT",
             kind \in {"lock", "unlock"} => w.op \in LockOps, kind = "thread" => w.op = "THREAD"
      PROVE  Scripted(<<Placed(kind, Unnamed, w.at)>>, w)
  <2>1. IsStep(Placed(kind, Unnamed, w.at), kind, Unnamed, w.at)  BY <1>1, StepsAre
  <2> DEFINE s == Placed(kind, Unnamed, w.at)
  <2> HIDE DEF s
  <2>2. IsStep(s, kind, Unnamed, w.at)  BY <2>1 DEF s
  <2>3. Scripted(<<s>>, w)  BY <1>1, <1>2, <2>2, ScriptedOne
  <2> QED BY <2>3 DEF s
<1>3. ASSUME w.op = "LABEL" PROVE Scripted(<<Plain("nop")>>, w)
  <2> DEFINE s == <<Plain("nop")>>
  <2>1. IsStep(Plain("nop"), "nop", Unnamed, <<0, 0>>)  BY <1>1, StepsAre
  <2>2. "nop" \in Updating /\ "nop" # "copy"  BY DEF Updating, Free
  <2>3. Reads(s, Updating)  BY <1>1, <2>1, <2>2, ReadsOne
  <2>4. Len(s) = 1 /\ s[1].kind = "nop"  BY <2>1 DEF IsStep
  <2> HIDE DEF s
  <2>5. \A k \in 1..Len(s) : s[k].kind \notin {"load", "store"}  BY <2>4
  <2>6. 0 \in 0..Len(s) /\ Len(s) > 0 /\ w.op # "OUT"  BY <1>3, <2>4
  <2>7. Scripted(s, w)  BY <2>3, <2>5, <2>6, ScriptedFree
  <2> QED BY <2>7 DEF s
<1>4. ASSUME w.op = "BARRIER" PROVE Scripted(<<Plain("barrier")>>, w)
  <2> DEFINE p == Plain("barrier")
  <2>1. IsStep(p, "barrier", Unnamed, <<0, 0>>)  BY <1>1, StepsAre
  <2> HIDE DEF p
  <2>2. Reads(<<p>>, Kinds)  BY <1>1, <2>1, ReadsOne
  <2>3. p.kind = "barrier" /\ Len(<<p>>) = 1 /\ \A k \in 1..1 : <<p>>[k] = p  BY <2>1 DEF IsStep
  <2>4. Scripted(<<p>>, w)  BY <1>4, <2>2, <2>3 DEF Scripted
  <2> QED BY <2>4 DEF p
<1>5. "LOCK" \in LockOps /\ "UNLOCK" \in LockOps  BY DEF LockOps
<1> QED BY <1>2, <1>3, <1>4, <1>5

\* Every work of a representable source has a script that is like one.
LEMMA ScriptIs ==
    ASSUME NEW w, Represented(w)
    PROVE  Scripted(Script(w), w)
<1> USE DEF Jumps
<1>1. CASE w.op = "VAR"
  <2>1. Script(w) = DeclareNumber(w)  BY <1>1, Zenon DEF Script
  <2> QED BY <1>1, <2>1, DeclareIs
<1>2. CASE w.op \in {"ADD", "MUL"}
  <2>1. w.op = "ADD" => Script(w) = Accumulate(w, "add")  BY <1>2, Zenon DEF Script
  <2>2. w.op = "MUL" => Script(w) = Accumulate(w, "mul")  BY <1>2, Zenon DEF Script
  <2>3. "add" \in Hows /\ "mul" \in Hows  BY DEF Hows
  <2>4. Scripted(Accumulate(w, "add"), w) /\ Scripted(Accumulate(w, "mul"), w)
    BY <1>2, <2>3, AccumulateIs
  <2> QED BY <1>2, <2>1, <2>2, <2>4
<1>3. CASE w.op \in {"SUB", "DIV"}
  <2>1. w.op = "SUB" => Script(w) = Combine(w, "sub")  BY <1>3, Zenon DEF Script
  <2>2. w.op = "DIV" => Script(w) = Combine(w, "div")  BY <1>3, Zenon DEF Script
  <2>3. "sub" \in Hows /\ "div" \in Hows  BY DEF Hows
  <2>4. Scripted(Combine(w, "sub"), w) /\ Scripted(Combine(w, "div"), w)
    BY <1>3, <2>3, CombineIs
  <2> QED BY <1>3, <2>1, <2>2, <2>4
<1>4. CASE w.op = "ASSIGN"
  <2>1. Script(w) = Assign(w)  BY <1>4, Zenon DEF Script
  <2> QED BY <1>4, <2>1, AssignIs
<1>5. CASE w.op = "OUT"
  <2>1. Script(w) = Out(w)  BY <1>5, Zenon DEF Script
  <2> QED BY <1>5, <2>1, OutIs
<1>6. CASE w.op = "SLEEP"
  <2>1. Script(w) = Sleep(w)  BY <1>6, Zenon DEF Script
  <2> QED BY <1>6, <2>1, SleepIs
<1>7. CASE w.op \in Jumps
  <2>1. Script(w) = Branch(w)  BY <1>7, Zenon DEF Script
  <2> HIDE DEF Jumps
  <2> QED BY <1>7, <2>1, BranchIs
<1>8. CASE w.op \in {"LABEL", "LOCK", "UNLOCK", "THREAD", "BARRIER"}
  <2>1. /\ w.op = "LABEL" => Script(w) = <<Plain("nop")>>
        /\ w.op = "LOCK" => Script(w) = <<Placed("lock", Unnamed, w.at)>>
        /\ w.op = "UNLOCK" => Script(w) = <<Placed("unlock", Unnamed, w.at)>>
        /\ w.op = "THREAD" => Script(w) = <<Placed("thread", Unnamed, w.at)>>
        /\ w.op = "BARRIER" => Script(w) = <<Plain("barrier")>>
    BY <1>8, Zenon DEF Script
  <2> QED BY <1>8, <2>1, OneStepIs, Zenon
<1> HIDE DEF Jumps
<1>9. w.op \in {"VAR", "ADD", "MUL", "SUB", "DIV", "ASSIGN", "OUT", "SLEEP", "LABEL", "LOCK",
                "UNLOCK", "THREAD", "BARRIER"} \cup Jumps
  BY DEF Represented, Instructions, NamesVariable, Math, StringOps, Delimiters
<1> QED BY <1>1, <1>2, <1>3, <1>4, <1>5, <1>6, <1>7, <1>8, <1>9

-----------------------------------------------------------------------------
(* What the parser leaves of a line.                                       *)

Counted(w) ==
    /\ w.op \in Instructions
    /\ w.op \in {"VAR", "SUB", "DIV"} => Len(w.args) = 2
    /\ w.op \in {"ASSIGN", "SLEEP"} => Len(w.args) = 1

LEMMA BuiltIsCounted ==
    ASSUME NEW line, NEW types, Builds(line, types)
    PROVE  Counted(Unit(line))
<1> DEFINE unit == Unit(line)
<1>1. line \in WrittenLine /\ line.op \in Instructions /\ line.args \in Seq(Argument)
  BY DEF Builds, Accepted, WrittenLine
<1>2. /\ unit.op = line.op
      /\ Len(line.args) >= Arity(line.op) => Len(unit.args) = Arity(line.op)
  BY <1>1, UnitIs
<1>3. CASE line.op = "VAR"
  <2>1. Len(line.args) >= 2 /\ Arity(line.op) = 2  BY <1>3, DeclarationFits, ArityIs
  <2> QED BY <1>1, <1>2, <1>3, <2>1 DEF Counted
<1>4. CASE line.op \in {"SUB", "DIV"}
  <2>1. line.op \in NamesVariable  BY <1>4 DEF NamesVariable, Math
  <2>2. 2 + 1 \in DOMAIN Shape(line.op) /\ ~Shape(line.op)[2 + 1].rest
    BY <1>4, ShapeIs DEF One
  <2>3. 2 <= Len(line.args)  BY <2>1, <2>2, NameFits
  <2>4. Arity(line.op) = 2 /\ Len(line.args) \in Nat  BY <1>1, <1>4, ArityIs
  <2>5. Len(unit.args) = 2  BY <1>2, <2>3, <2>4
  <2> QED BY <1>1, <1>2, <1>4, <2>5 DEF Counted
<1>5. CASE line.op = "ASSIGN"
  <2>1. Len(line.args) >= 1 /\ Arity(line.op) = 1  BY <1>5, AssignFits, ArityIs
  <2> QED BY <1>1, <1>2, <1>5, <2>1 DEF Counted
<1>6. CASE line.op = "SLEEP"
  <2>1. 1 \in DOMAIN Shape(line.op) /\ ~Shape(line.op)[1].rest  BY <1>6, ShapeIs DEF One
  <2>2. 1 <= Len(Arguments(line))  BY <2>1, PartFits
  <2>3. Arguments(line) = line.args
    BY <1>1, <1>6, ArgumentsAre DEF NamesVariable, Jumps, Math, StringOps
  <2>4. Arity(line.op) = 1 /\ Len(line.args) \in Nat  BY <1>1, <1>6, ArityIs
  <2>5. Len(unit.args) = 1  BY <1>2, <2>2, <2>3, <2>4
  <2> QED BY <1>1, <1>2, <1>6, <2>5 DEF Counted
<1>7. CASE line.op \notin {"VAR", "SUB", "DIV", "ASSIGN", "SLEEP"}
  BY <1>1, <1>2, <1>7 DEF Counted
<1> QED BY <1>3, <1>4, <1>5, <1>6, <1>7

CountInv == \A i \in DOMAIN works : Counted(works[i])

LEMMA CountInvariant == PSpec => []CountInv
<1>1. PInit => CountInv
  <2> SUFFICES ASSUME PInit PROVE CountInv  OBVIOUS
  <2>1. works = <<>>  BY DEF PInit
  <2>2. DOMAIN works = {}  BY <2>1
  <2> QED BY <2>2 DEF CountInv
<1>2. ParserInv /\ CountInv /\ [PNext]_pvars => CountInv'
  <2> SUFFICES ASSUME ParserInv, CountInv, [PNext]_pvars PROVE CountInv'
    OBVIOUS
  <2>1. ASSUME NEW line, ParseLine(line), Accepted(line, context) PROVE CountInv'
    <3> DEFINE n == Len(works)
    <3>1. /\ Builds(line, context) /\ n \in Nat /\ DOMAIN works = 1..n /\ DOMAIN works' = 1..(n + 1)
          /\ \A i \in 1..n : works'[i] = works[i]
          /\ works'[n + 1] = Unit(line)
      BY <2>1, LineBuilt
    <3>2. Counted(Unit(line))  BY <3>1, BuiltIsCounted
    <3> HIDE DEF n
    <3>3. ASSUME NEW i \in DOMAIN works' PROVE Counted(works'[i])
      <4>1. CASE i = n + 1  BY <3>1, <3>2, <4>1
      <4>2. CASE i # n + 1
        <5>1. i \in 1..n  BY <3>1, <4>2
        <5> QED BY <3>1, <5>1 DEF CountInv
      <4> QED BY <4>1, <4>2
    <3> QED BY <3>3 DEF CountInv
  <2>2. ASSUME works' = works PROVE CountInv'
    BY <2>2 DEF CountInv
  <2>3. ASSUME NEW line, ParseLine(line), ~Accepted(line, context) PROVE works' = works
    BY <2>3 DEF ParseLine
  <2>4. CASE Link  BY <2>2, <2>4 DEF Link
  <2>5. CASE UNCHANGED pvars  BY <2>2, <2>5 DEF pvars
  <2> QED BY <2>1, <2>2, <2>3, <2>4, <2>5, Zenon DEF PNext
<1> QED BY <1>1, <1>2, ParserInvariant, PTL DEF PSpec

LEMMA OperandIs ==
    ASSUME NEW arg \in Argument, NEW types, \A x \in DOMAIN types : x \in Names,
           arg[1] = "const" => arg[2] \in Word
    PROVE  /\ ANumber(arg, types) => Operand(arg)
           /\ Printed(arg, types) => Operand(arg)
           /\ arg[1] = "type" \/ ALiteral(arg) => Operand(arg)
<1>1. 0 \in Word  BY HalfAssumption DEF Word
<1>2. ~IsVar(arg) => Operand(arg)  BY <1>1 DEF Operand, Value
<1>3. IsVar(arg) /\ arg[2] \in DOMAIN types => Operand(arg)  BY DEF Operand
<1>4. arg[1] = "type" \/ ALiteral(arg) => ~IsVar(arg)  BY DEF ALiteral, NumberLiteral, IsVar
<1>5. ANumber(arg, types) => ~IsVar(arg) \/ (IsVar(arg) /\ arg[2] \in DOMAIN types)
  <2>1. NumberLiteral(arg) => ~IsVar(arg)  BY <1>4, Zenon DEF ALiteral
  <2>2. VarOf(arg, types, {"NUMERIC", "REAL"}) => IsVar(arg) /\ arg[2] \in DOMAIN types
    BY Zenon DEF VarOf
  <2> QED BY <2>1, <2>2, Zenon DEF ANumber
<1>6. Printed(arg, types) => ~IsVar(arg) \/ (IsVar(arg) /\ arg[2] \in DOMAIN types)
  BY <1>4 DEF Printed
<1> QED BY <1>2, <1>3, <1>4, <1>5, <1>6

\* The works of a representable source but for the mutex or target that a
\* linker gives them.
LEMMA RepresentedIs ==
    ASSUME ParserInv, CountInv, Representable, NEW i \in DOMAIN works,
           works[i].op \notin Delimiters, NEW w \in AWork, SameButAt(w, works[i])
    PROVE  Represented(w)
<1> DEFINE v == works[i]
<1>1. /\ works \in Seq(WorkRecord) /\ Context(context) /\ ParserTypeOK /\ OperandsTyped
  BY DEF ParserInv
<1>2. v.args \in Seq(Argument) /\ Counted(v) /\ WorkTyped(v, context)
  <2>1. v \in WorkRecord  BY <1>1
  <2> QED BY <1>1, <2>1 DEF WorkRecord, CountInv, OperandsTyped
<1>3. \A x \in DOMAIN context : x \in Names /\ context[x] = "NUMERIC"
  BY DEF Representable
<1>4. \A k \in 1..Len(v.args) :
        v.args[k] \in Argument /\ (v.args[k][1] = "const" => v.args[k][2] \in Word)
  BY <1>2 DEF Representable
<1>5. v.op = "VAR" => v.name \in DOMAIN context /\ v.args[1] = Typename(context[v.name])
  BY <1>1 DEF ParserTypeOK, Positions
<1>6. v.op \notin Delimiters /\ SameButAt(w, v) /\ w.at \in Nat \X Nat
  BY DEF AWork
<1> HIDE DEF v
<1>7. w.op = v.op /\ w.name = v.name /\ w.args = v.args
  BY <1>6 DEF SameButAt
<1>8. v.op \notin StringOps
  <2> SUFFICES ASSUME v.op \in StringOps PROVE FALSE  OBVIOUS
  <2>1. VarOf(Var(v.name), context, {"STRING"})  BY <1>2, WorkTypedIs
  <2> QED BY <1>3, <2>1 DEF VarOf
<1>9. ASSUME NEW k \in 1..Len(v.args)
      PROVE  /\ v.op = "VAR" \/ ANumber(v.args[k], context) \/ Printed(v.args[k], context)
             /\ v.op = "VAR" => v.args[k][1] = "type" \/ ALiteral(v.args[k])
  <2>1. CASE v.op = "VAR"
    <3>1. Len(v.args) = 2 /\ ALiteral(v.args[2])  BY <1>2, <2>1, WorkTypedIs
    <3>2. k = 1 \/ k = 2  BY <3>1
    <3>3. v.args[1][1] = "type"  BY <1>5, <2>1 DEF Typename
    <3> QED BY <2>1, <3>1, <3>2, <3>3
  <2>2. CASE v.op = "ASSIGN"
    <3>1. Len(v.args) = 1  BY <1>2, <2>2 DEF Counted
    <3>2. VarOf(v.args[1], context, {context[v.name]})  BY <1>2, <2>2, WorkTypedIs
    <3>3. Printed(v.args[k], context)  BY <3>1, <3>2 DEF VarOf, Printed
    <3> QED BY <2>2, <3>3
  <2>3. CASE v.op = "OUT"
    <3>1. Printed(v.args[k], context)  BY <1>2, <2>3, WorkTypedIs
    <3> QED BY <2>3, <3>1
  <2>4. CASE v.op \notin {"VAR", "ASSIGN", "OUT"}
    <3>1. AllNumbers(v, context)  BY <1>2, <1>8, <2>4, WorkTypedIs, Zenon
    <3> QED BY <2>4, <3>1 DEF AllNumbers
  <2> QED BY <2>1, <2>2, <2>3, <2>4
<1>10. \A k \in 1..Len(v.args) : Operand(v.args[k])
  BY <1>3, <1>4, <1>9, OperandIs
<1>11. v.op \in Math \cup {"ASSIGN", "VAR"} => v.name \in Names
  <2>1. v.op \in Math => ANumber(Var(v.name), context)  BY <1>2, WorkTypedIs
  <2>2. ANumber(Var(v.name), context) => v.name \in DOMAIN context
    BY DEF ANumber, NumberLiteral, VarOf, Var
  <2>3. v.op = "ASSIGN" => v.name \in DOMAIN context  BY <1>2, WorkTypedIs
  <2> QED BY <1>3, <1>5, <2>1, <2>2, <2>3
<1>12. v.op = "ASSIGN" => IsVar(v.args[1])
  BY <1>2, WorkTypedIs DEF VarOf
<1>13. v.op \in Instructions \ (StringOps \cup Delimiters)
  BY <1>2, <1>6, <1>8 DEF Counted
<1> QED BY <1>2, <1>6, <1>7, <1>10, <1>11, <1>12, <1>13 DEF Represented, Counted

-----------------------------------------------------------------------------
(* The linked works and their scripts.                                     *)

\* The place that a linker leaves in a work of segment g.
PlacedIn(w, g) ==
    /\ w.op = "THREAD" => g = 1 /\ w.at[1] \in 2..Len(segs)
    /\ w.op \in LockOps => /\ w.at[1] = g /\ w.at[2] \in DOMAIN segs[g]
                           /\ segs[g][w.at[2]].op \in LockOps
    /\ w.op \in Jumps => IF g = 1 THEN w.at[1] = 1 /\ w.at[2] \in 1..Len(segs[1])
                         ELSE w.at[1] = 0

LEMMA SpawnerRepresented ==
    ASSUME NEW w \in AWork, NEW seg \in Nat, SameButAt(w, Spawner(seg))
    PROVE  Represented(w)
<1> DEFINE none == <<>>
           thread == "THREAD"
           v == Spawner(seg)
<1>1. v = [op |-> thread, name |-> thread, args |-> none, at |-> <<seg, 0>>]
  BY DEF Spawner
<1>2. none \in Seq(Argument) /\ Len(none) = 0
  OBVIOUS
<1> HIDE DEF none, thread, v
<1>3. w.op = thread /\ w.args = none /\ w.at \in Nat \X Nat
  BY <1>1 DEF SameButAt, AWork, v
<1>4. w.op = "THREAD" /\ w.args \in Seq(Argument) /\ Len(w.args) = 0
  BY <1>2, <1>3 DEF thread
<1>5. 1..Len(w.args) = {}
  BY <1>4
<1> QED BY <1>3, <1>4, <1>5 DEF Represented, Math

\* Where the block that ends at i is linked to.
LEMMA SpawnedSegment ==
    ASSUME LinkedOrNot, phase = "linked", NEW i \in Positions("THREAD_END")
    PROVE  SpawnAt(i) \in Nat /\ SpawnAt(i) \in 2..Len(segs)
<1>1. works \in Seq(AWork) /\ Len(segs) = Cardinality(Positions("THREAD_END")) + 1
  BY Zenon DEF LinkedOrNot
<1> DEFINE B(n) == CountBefore("THREAD_END", n)
           N == Len(works)
<1>2. i \in 1..N /\ N \in Nat /\ works[i].op = "THREAD_END"
  BY <1>1 DEF Positions
<1>3. /\ \A n \in Nat : B(n) \in Nat
      /\ B(i + 1) = B(i) + 1
      /\ \A m, n \in Nat : m <= n => B(m) <= B(n)
      /\ Cardinality(Positions("THREAD_END")) = B(N + 1)
  <2>1. i \in DOMAIN works  BY <1>2
  <2> QED BY <1>1, <1>2, <2>1, CountTurn
<1>4. SpawnAt(i) = B(i) + 2
  BY DEF SpawnAt
<1> HIDE DEF B, N
<1>5. i \in Nat /\ i + 1 \in Nat /\ N + 1 \in Nat /\ i + 1 <= N + 1
  BY <1>2
<1>6. B(i) \in Nat /\ B(i) + 1 <= B(N + 1) /\ B(N + 1) \in Nat
  <2>1. B(i + 1) <= B(N + 1)  BY <1>3, <1>5
  <2> QED BY <1>3, <1>5, <2>1
<1> DEFINE b == B(i)
           ends == Cardinality(Positions("THREAD_END"))
           s == SpawnAt(i)
<1>7. b \in Nat /\ ends \in Nat /\ b + 1 <= ends /\ s = b + 2 /\ Len(segs) = ends + 1
  BY <1>1, <1>3, <1>4, <1>6
<1> HIDE DEF b, ends, s
<1>8. s \in Nat /\ s \in 2..Len(segs)
  BY <1>7
<1> QED BY <1>8 DEF s

LEMMA LinkedWork ==
    ASSUME ParserInv, LinkedOrNot, CountInv, Representable,
           NEW g \in DOMAIN segs, NEW k \in DOMAIN segs[g]
    PROVE  Represented(segs[g][k]) /\ PlacedIn(segs[g][k], g)
<1> DEFINE done == segs[g]
           w == done[k]
<1>1. /\ phase = "linked" /\ IsSegment(done, g) /\ works \in Seq(AWork)
      /\ done \in Seq(AWork) /\ g \in Nat /\ k \in DOMAIN done
  BY SegmentsLinked
<1> HIDE DEF done
<1>2. PICK raw : /\ Lists(raw, g, Len(works)) /\ KeptBut(LockOps \cup Jumps, done, raw)
                 /\ MutexPerName(done, raw, g) /\ JumpsResolved(done, raw, g)
  BY <1>1 DEF IsSegment
<1>3. raw \in Seq(AWork)
  BY <1>2 DEF Lists
<1>4. /\ DOMAIN done = DOMAIN raw
      /\ \A j \in DOMAIN raw : SameButAt(done[j], raw[j])
                               /\ (raw[j].op \notin LockOps \cup Jumps => done[j] = raw[j])
  BY <1>1, <1>2, <1>3 DEF KeptBut
<1>5. \A j \in DOMAIN raw : done[j].op = raw[j].op
  BY <1>4 DEF SameButAt
<1>6. w \in AWork /\ k \in DOMAIN raw
  BY <1>1, <1>4
<1>7. PICK i \in Members(g) : Rank(g, i) = k
  BY <1>1, <1>2, <1>6, ListedAt
<1>8. i \in DOMAIN works /\ i <= Len(works) /\ i \in Nat
  BY <1>1 DEF Members
<1>9. Holds(raw[k], i)
  BY <1>2, <1>7, <1>8 DEF Lists
<1>10. SameButAt(w, raw[k]) /\ (raw[k].op \notin LockOps \cup Jumps => w = raw[k])
  BY <1>4, <1>6
<1>11. w.op \in LockOps =>
         w.at[1] = g /\ w.at[2] \in DOMAIN done /\ done[w.at[2]].op \in LockOps
  <2>1. w.op = raw[k].op  BY <1>5, <1>6
  <2>2. w.op \in LockOps => w.at[1] = g /\ w.at[2] \in DOMAIN raw /\ raw[w.at[2]].op \in LockOps
    BY <1>2, <1>6, <2>1 DEF MutexPerName
  <2> HIDE DEF w
  <2> QED BY <1>4, <1>5, <2>2
<1>12. w.op \in Jumps => w.at[1] = VectorOf(g) /\ w.at[2] \in DOMAIN done
  <2>1. w.op = raw[k].op  BY <1>5, <1>6
  <2>2. w.op \in Jumps => w.at[1] = VectorOf(g) /\ w.at[2] \in DOMAIN raw
    BY <1>2, <1>6, <2>1 DEF JumpsResolved, IsLastLabel
  <2> QED BY <1>4, <2>2
<1> HIDE DEF w
<1>13. w.op \in Jumps => IF g = 1 THEN w.at[1] = 1 /\ w.at[2] \in 1..Len(done)
                         ELSE w.at[1] = 0
  <2>1. DOMAIN done = 1..Len(done)  BY <1>1
  <2> QED BY <1>12, <2>1 DEF VectorOf
<1>14. Represented(w) /\ (w.op = "THREAD" => g = 1 /\ w.at[1] \in 2..Len(segs))
  <2>1. CASE works[i].op = "THREAD_END"
    <3> DEFINE s == SpawnAt(i)
    <3>1. g = 1  BY <1>1, <1>8, <2>1, MembersAre
    <3>2. s \in Nat /\ s \in 2..Len(segs)
      <4>1. i \in Positions("THREAD_END")  BY <1>8, <2>1 DEF Positions
      <4> QED BY <1>1, <4>1, SpawnedSegment
    <3>3. raw[k] = Spawner(s)  BY <1>9, <2>1 DEF Holds
    <3> HIDE DEF s
    <3>4. raw[k].op = "THREAD" /\ raw[k].at = <<s, 0>>
      BY <3>2, <3>3, SpawnerIs, Zenon
    <3>5. "THREAD" \notin LockOps \cup Jumps  BY DEF LockOps, Jumps
    <3>6. w = raw[k]  BY <1>10, <3>4, <3>5
    <3>7. w.at[1] \in 2..Len(segs)  BY <3>2, <3>4, <3>6
    <3>8. Represented(w)  BY <1>6, <1>10, <3>2, <3>3, SpawnerRepresented
    <3> QED BY <3>1, <3>7, <3>8
  <2>2. CASE works[i].op # "THREAD_END"
    <3>1. raw[k] = works[i]  BY <1>9, <2>2 DEF Holds
    <3>2. works[i].op \notin Delimiters
      BY <1>8, <2>2, MembersAre DEF Delimiters
    <3>3. Represented(w)
      <4>1. SameButAt(w, works[i])  BY <1>10, <3>1
      <4> QED BY <1>6, <1>8, <3>2, <4>1, RepresentedIs
    <3>4. w.op # "THREAD"
      <4>1. w.op = works[i].op  BY <1>10, <3>1 DEF SameButAt
      <4>2. works[i].op \in Instructions  BY <1>8 DEF CountInv, Counted
      <4> QED BY <4>1, <4>2 DEF Instructions, NamesVariable, Math, StringOps, Jumps
    <3> QED BY <3>3, <3>4
  <2> QED BY <2>1, <2>2
<1>15. PlacedIn(w, g)
  BY <1>11, <1>13, <1>14, Zenon DEF PlacedIn, done
<1> QED BY <1>14, <1>15 DEF w, done

\* Where the mutex, the target or the segment of the assembled work is.
PlaceOf(g, i) == IF segs[g][i].op = "OUT" THEN <<g, i>> ELSE segs[g][i].at
Assembled(s, g, i) ==
    \E v : Scripted(s, v) /\ v.op = segs[g][i].op /\ v.at = PlaceOf(g, i)

LEMMA AssembledWork ==
    ASSUME ParserInv, LinkedOrNot, CountInv, Representable,
           NEW g \in DOMAIN segs, NEW i \in DOMAIN segs[g]
    PROVE  Assembled(Assemble(segs)[g][i], g, i)
<1> DEFINE w == segs[g][i]
           place == <<g, i>>
           out == [w EXCEPT !.at = place]
<1>1. Represented(w)
  BY LinkedWork
<1>2. w \in AWork /\ place \in Nat \X Nat
  <2>1. segs[g] \in Seq(AWork) /\ g \in Nat  BY SegmentsLinked
  <2> QED BY <2>1
<1>3. Assemble(segs)[g][i] = Script(IF w.op = "OUT" THEN out ELSE w)
  BY DEF Assemble
<1>4. PlaceOf(g, i) = IF w.op = "OUT" THEN place ELSE w.at
  BY DEF PlaceOf
<1> HIDE DEF w, place
<1>5. CASE w.op = "OUT"
  <2>1. out = [op |-> w.op, name |-> w.name, args |-> w.args, at |-> place]
    BY <1>2 DEF AWork
  <2> HIDE DEF out
  <2>2. out.op = w.op /\ out.name = w.name /\ out.args = w.args /\ out.at = place
    BY <2>1
  <2>3. Represented(out)
    BY <1>1, <1>2, <2>2 DEF Represented
  <2>4. Scripted(Script(out), out)
    BY <2>3, ScriptIs
  <2>5. Assemble(segs)[g][i] = Script(out) /\ out.at = PlaceOf(g, i)
    BY <1>3, <1>4, <1>5, <2>2
  <2> QED BY <2>2, <2>4, <2>5, Zenon DEF Assembled, w
<1>6. CASE w.op # "OUT"
  <2>1. Scripted(Script(w), w)
    BY <1>1, ScriptIs
  <2>2. Assemble(segs)[g][i] = Script(w) /\ w.at = PlaceOf(g, i)
    BY <1>3, <1>4, <1>6
  <2> QED BY <2>1, <2>2, Zenon DEF Assembled, w
<1> QED BY <1>5, <1>6

\* An assembled work is a sequence of steps, it is an OUT if it writes, and its
\* mutex, target and segment are those that its linkers placed.
LikeItsWork(s, g, i) ==
    /\ s \in Seq(Step) /\ Len(s) > 0
    /\ Writes(s) => segs[g][i].op = "OUT" /\ OwnMutex(s, <<g, i>>)
    /\ \A k \in 1..Len(s) :
         /\ s[k].kind \in Naming => s[k].name \in Names
         /\ s[k].kind = "copy" => k > 1 /\ s[k - 1].kind = "lookup"
         /\ s[k].kind \in {"load", "store"} => \E j \in 1..(k - 1) : s[j].kind = "target"
         /\ s[k].kind \in {"lock", "unlock"} =>
              segs[g][i].op \in LockOps \cup {"OUT"} /\ s[k].at = PlaceOf(g, i)
         /\ s[k].kind = "thread" => segs[g][i].op = "THREAD" /\ s[k].at = segs[g][i].at
         /\ s[k].kind \in {"thread", "barrier"} => Len(s) = 1
         /\ s[k].kind = "jump" => segs[g][i].op \in Jumps /\ s[k].at = segs[g][i].at

LEMMA AssembledSteps ==
    ASSUME NEW s, NEW g, NEW i, Assembled(s, g, i)
    PROVE  LikeItsWork(s, g, i)
<1>1. PICK v : Scripted(s, v) /\ v.op = segs[g][i].op /\ v.at = PlaceOf(g, i)
  BY Zenon DEF Assembled
<1> DEFINE op == segs[g][i].op
           at == segs[g][i].at
<1>2. Reads(s, Kinds) /\ Len(s) > 0
  BY <1>1, Zenon DEF Scripted
<1>3. s \in Seq(Step) /\ \A k \in 1..Len(s) :
        /\ s[k].kind \in Naming => s[k].name \in Names
        /\ s[k].kind = "copy" => k > 1 /\ s[k - 1].kind = "lookup"
  BY <1>2 DEF Reads
<1>4. op # "OUT" => PlaceOf(g, i) = at
  BY DEF PlaceOf
<1>5. op = "OUT" => PlaceOf(g, i) = <<g, i>>
  BY DEF PlaceOf
<1>6. v.op = op /\ v.at = PlaceOf(g, i)
  BY <1>1
<1> HIDE DEF op, at
<1>7. Writes(s) => op = "OUT" /\ OwnMutex(s, <<g, i>>)
  <2>1. Writes(s) => op = "OUT"  BY <1>1, <1>6 DEF Writes, Scripted
  <2>2. op = "OUT" => OwnMutex(s, PlaceOf(g, i))  BY <1>1, <1>6, Zenon DEF Scripted
  <2> QED BY <1>5, <2>1, <2>2
<1>8. ASSUME NEW k \in 1..Len(s)
      PROVE  /\ s[k].kind \in {"load", "store"} => \E j \in 1..(k - 1) : s[j].kind = "target"
             /\ s[k].kind \in {"lock", "unlock"} => op \in LockOps \cup {"OUT"} /\ s[k].at = v.at
             /\ s[k].kind = "thread" => op = "THREAD" /\ s[k].at = v.at
             /\ s[k].kind \in {"thread", "barrier"} => Len(s) = 1
             /\ s[k].kind = "jump" => op \in Jumps /\ s[k].at = v.at
  BY <1>1, <1>6 DEF Scripted
<1>9. "THREAD" # "OUT" /\ "OUT" \notin Jumps
  BY DEF Jumps
<1>10. \A k \in 1..Len(s) :
         /\ s[k].kind = "thread" => op = "THREAD" /\ s[k].at = at
         /\ s[k].kind = "jump" => op \in Jumps /\ s[k].at = at
  BY <1>4, <1>6, <1>8, <1>9
<1> QED BY <1>2, <1>3, <1>6, <1>7, <1>8, <1>10 DEF LikeItsWork, op, at

\* What a work has of the code it is in: its own mutex or none that an OUT has,
\* and steps that are like code.
WorkIsCode(c, g, i) ==
    /\ IF Writes(c[g][i]) THEN OwnMutex(c[g][i], <<g, i>>) ELSE OthersMutex(c, c[g][i])
    /\ \A k \in 1..Len(c[g][i]) : LET s == c[g][i][k] IN
         /\ s.kind \in Naming => s.name \in Names
         /\ s.kind = "copy" => k > 1 /\ c[g][i][k - 1].kind = "lookup"
         /\ s.kind \in {"load", "store"} => \E j \in 1..(k - 1) : c[g][i][j].kind = "target"
         /\ s.kind = "thread" => g = 1 /\ s.at[1] \in 2..Len(c)
         /\ s.kind \in {"thread", "barrier"} => Len(c[g][i]) = 1
         /\ s.kind = "jump" => IF g = 1 THEN s.at[1] = 1 /\ s.at[2] \in 1..Len(c[1])
                               ELSE s.at[1] = 0

LEMMA AssembledIsCode ==
    ASSUME ParserInv, LinkedOrNot, CountInv, Representable, phase = "linked"
    PROVE  IsCode(Assemble(segs))
<1> DEFINE c == Assemble(segs)
           G == Len(segs)
<1>1. segs \in Seq(Seq(AWork)) /\ Len(segs) = Cardinality(Positions("THREAD_END")) + 1
  BY Zenon DEF LinkedOrNot
<1>2. G \in Nat /\ G > 0 /\ DOMAIN segs = 1..G
  <2>1. works \in Seq(AWork)  BY Zenon DEF LinkedOrNot
  <2> DEFINE ends == Cardinality(Positions("THREAD_END"))
  <2>2. ends \in Nat
    <3>1. Len(works) + 1 \in Nat  BY <2>1
    <3>2. ends = CountBefore("THREAD_END", Len(works) + 1)  BY <2>1, CountTurn
    <3> QED BY <2>1, <3>1, <3>2, CountTurn
  <2> HIDE DEF ends
  <2>3. Len(segs) = ends + 1  BY <1>1 DEF ends
  <2> QED BY <1>1, <2>2, <2>3
<1>3. ASSUME NEW g \in 1..G
      PROVE  /\ c[g] = [i \in DOMAIN segs[g] |-> c[g][i]]
             /\ Len(segs[g]) \in Nat /\ DOMAIN segs[g] = 1..Len(segs[g])
             /\ \A i \in DOMAIN segs[g] : Assembled(c[g][i], g, i) /\ PlacedIn(segs[g][i], g)
  <2>1. g \in DOMAIN segs  BY <1>2
  <2>2. segs[g] \in Seq(AWork)  BY <2>1, SegmentsLinked
  <2>3. c[g] = [i \in DOMAIN segs[g] |-> c[g][i]]  BY <2>1 DEF Assemble
  <2>4. \A i \in DOMAIN segs[g] : Assembled(c[g][i], g, i)  BY <2>1, AssembledWork
  <2>5. \A i \in DOMAIN segs[g] : PlacedIn(segs[g][i], g)  BY <2>1, LinkedWork
  <2>6. Len(segs[g]) \in Nat /\ DOMAIN segs[g] = 1..Len(segs[g])  BY <2>2
  <2> HIDE DEF c
  <2> QED BY <2>3, <2>4, <2>5, <2>6, Zenon
<1>4. c = [g \in 1..G |-> c[g]]
  BY <1>2 DEF Assemble
<1> HIDE DEF c, G
<1>5. ASSUME NEW g \in 1..G
      PROVE  /\ c[g] \in Seq(Seq(Step)) /\ Len(c[g]) = Len(segs[g])
             /\ DOMAIN segs[g] = 1..Len(c[g])
  <2> DEFINE body == segs[g]
             done == c[g]
             S == Seq(Step)
  <2>1. done = [i \in 1..Len(body) |-> done[i]] /\ Len(body) \in Nat /\ DOMAIN body = 1..Len(body)
    BY <1>3
  <2>2. \A i \in 1..Len(body) : done[i] \in S
    BY <1>3, AssembledSteps DEF LikeItsWork
  <2> HIDE DEF body, done, S
  <2>3. done \in Seq(S) /\ Len(done) = Len(body)
    BY <2>1, <2>2
  <2> QED BY <2>1, <2>3 DEF body, done, S
<1>6. c \in Seq(Seq(Seq(Step))) /\ Len(c) = G
  <2> DEFINE S == Seq(Seq(Step))
  <2>1. \A g \in 1..G : c[g] \in S  BY <1>5
  <2> HIDE DEF S
  <2>2. c \in Seq(S) /\ Len(c) = G  BY <1>2, <1>4, <2>1
  <2> QED BY <2>2 DEF S
<1>7. ASSUME NEW g \in 1..Len(c), NEW i \in 1..Len(c[g])
      PROVE  /\ Assembled(c[g][i], g, i) /\ PlacedIn(segs[g][i], g)
             /\ g \in DOMAIN segs /\ i \in DOMAIN segs[g]
  BY <1>2, <1>3, <1>5, <1>6
<1>8. ASSUME NEW g \in 1..Len(c), NEW i \in 1..Len(c[g])
      PROVE  Len(c[g][i]) > 0 /\ WorkIsCode(c, g, i)
  <2> DEFINE s == c[g][i]
             op == segs[g][i].op
             at == segs[g][i].at
  <2>1. Assembled(s, g, i) /\ PlacedIn(segs[g][i], g)  BY <1>7
  <2>2. /\ s \in Seq(Step) /\ Len(s) > 0
        /\ Writes(s) => op = "OUT" /\ OwnMutex(s, <<g, i>>)
        /\ \A k \in 1..Len(s) :
             /\ s[k].kind \in Naming => s[k].name \in Names
             /\ s[k].kind = "copy" => k > 1 /\ s[k - 1].kind = "lookup"
             /\ s[k].kind \in {"load", "store"} => \E j \in 1..(k - 1) : s[j].kind = "target"
             /\ s[k].kind \in {"lock", "unlock"} =>
                  op \in LockOps \cup {"OUT"} /\ s[k].at = PlaceOf(g, i)
             /\ s[k].kind = "thread" => op = "THREAD" /\ s[k].at = at
             /\ s[k].kind \in {"thread", "barrier"} => Len(s) = 1
             /\ s[k].kind = "jump" => op \in Jumps /\ s[k].at = at
    <3>1. LikeItsWork(s, g, i)  BY <2>1, AssembledSteps
    <3> HIDE DEF s
    <3> QED BY <3>1, Zenon DEF LikeItsWork
  <2>3. /\ op = "THREAD" => g = 1 /\ at[1] \in 2..Len(segs)
        /\ op \in LockOps => at[1] = g /\ segs[g][at[2]].op \in LockOps
        /\ op \in Jumps => IF g = 1 THEN at[1] = 1 /\ at[2] \in 1..Len(segs[1]) ELSE at[1] = 0
    BY <2>1, Zenon DEF PlacedIn
  <2>4. PlaceOf(g, i) = IF op = "OUT" THEN <<g, i>> ELSE at
    BY DEF PlaceOf
  <2>5. "OUT" \notin LockOps  BY DEF LockOps
  <2>6. ASSUME ~Writes(s) PROVE OthersMutex(c, s)
    <3> SUFFICES ASSUME NEW k \in 1..Len(s), s[k].kind \in {"lock", "unlock"},
                        NEW h \in 1..Len(c), NEW j \in 1..Len(c[h]), Writes(c[h][j]),
                        s[k].at = <<h, j>>
                 PROVE  FALSE
      BY DEF OthersMutex
    <3>1. segs[h][j].op = "OUT"
      BY <1>7, AssembledSteps DEF LikeItsWork
    <3> HIDE DEF s, op, at
    <3>2. op \in LockOps \cup {"OUT"} /\ <<h, j>> = PlaceOf(g, i)
      BY <2>2
    <3>3. CASE op = "OUT"
      <4>1. <<h, j>> = <<g, i>>  BY <2>4, <3>2, <3>3
      <4>2. h = g /\ j = i  BY <4>1
      <4> QED BY <2>6, <4>2 DEF s
    <3>4. CASE op # "OUT"
      <4>1. at = <<h, j>> /\ op \in LockOps  BY <2>4, <3>2, <3>4
      <4>2. h = g /\ segs[g][j].op \in LockOps  BY <2>3, <4>1
      <4> QED BY <2>5, <3>1, <4>2
    <3> QED BY <3>3, <3>4
  <2>7. Len(segs) = Len(c)  BY <1>6 DEF G
  <2>8. 1 \in 1..G /\ Len(segs[1]) = Len(c[1])
    <3>1. 1 \in 1..G  BY <1>2
    <3> QED BY <1>5, <3>1
  <2> HIDE DEF op, at, s
  <2>9. IF Writes(s) THEN OwnMutex(s, <<g, i>>) ELSE OthersMutex(c, s)
    BY <2>2, <2>6
  <2>10. ASSUME NEW k \in 1..Len(s)
         PROVE  /\ s[k].kind = "thread" => g = 1 /\ s[k].at[1] \in 2..Len(c)
                /\ s[k].kind = "jump" => IF g = 1 THEN s[k].at[1] = 1 /\ s[k].at[2] \in 1..Len(c[1])
                                         ELSE s[k].at[1] = 0
    BY <2>2, <2>3, <2>7, <2>8
  <2>11. WorkIsCode(c, g, i)
    BY <2>2, <2>9, <2>10 DEF WorkIsCode, s
  <2> QED BY <2>2, <2>11 DEF s
<1>9. Len(c) > 0
  BY <1>2, <1>6
<1>10. IsCode(c)
  BY <1>6, <1>8, <1>9, Zenon DEF IsCode, WorkIsCode
<1> QED BY <1>10 DEF c

\* What the linkers make of a source whose variables are numeric and whose
\* literals are words is code: the programs that every theorem about runs
\* assumes (ProgramsAssumption) are the ones that parsing produces.
THEOREM LinkedProgramsAreCode == PSpec => []LinkedIsCode
<1>1. ParserInv /\ LinkInv /\ CountInv => LinkedIsCode
  BY LinkedOrNotIs, AssembledIsCode DEF LinkedIsCode
<1> QED BY <1>1, ParserInvariant, LinkerInvariant, CountInvariant, PTL
=============================================================================

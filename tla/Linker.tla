------------------------------- MODULE Linker -------------------------------
(***************************************************************************)
(* The pure part of Parser::parse: which lines become works, and the       *)
(* linkers it applies to the works in the order they are registered:       *)
(* threads, locks, jumps.  A line is [op, name, args]: name is the         *)
(* variable, label or lock it is about, args the operands; the number or   *)
(* variable that a LOCK or UNLOCK takes its name from is its operand.      *)
(***************************************************************************)
EXTENDS TypeMatcher

NamesVariable == Math \cup StringOps \cup {"ASSIGN"}
OperandVars(line) == {line.args[i][2] : i \in {k \in DOMAIN line.args : IsVar(line.args[k])}}
Mentions(line) ==
    OperandVars(line) \cup (IF line.op \in NamesVariable THEN {line.name} ELSE {})

\* The arguments as they are written, and their tokens.
Arguments(line) ==
    CASE line.op \in NamesVariable \cup {"VAR"} -> <<Var(line.name)>> \o line.args
      [] line.op \in Jumps \cup {"LABEL"} -> <<Text(line.name)>> \o line.args
      [] OTHER -> line.args
Tokens(line, context) ==
    [i \in DOMAIN Arguments(line) |-> Filter(Arguments(line)[i], context)]

\* ASSIGN compares the context's entries of its variables, name and type.
SameEntry(line) == line.name = line.args[1][2]

\* The instructions that a builder is registered for.
Instructions ==
    NamesVariable \cup Jumps \cup {"VAR", "OUT", "LABEL", "SLEEP", "LOCK", "UNLOCK",
                                  "THREAD_BEGIN", "THREAD_END", "BARRIER"}

\* The line becomes a work; a line that does not is reported and left out.
Accepted(line, context) ==
    /\ line.op \in Instructions
    /\ line.op # "VAR" => Mentions(line) \subseteq DOMAIN context
    /\ Match(Shape(line.op), Tokens(line, context))
    /\ Wraps(line.op, Tokens(line, context))
    /\ line.op = "ASSIGN" => SameEntry(line)

\* What an accepted line adds to the context: VAR the type it is given.
Declaring(line, context) ==
    IF line.op = "VAR" THEN Bind(context, line.name, line.args[1][2]) ELSE context

\* The work a line is turned into, before any linker has seen it.
Unit(line) ==
    LET kept == {i \in DOMAIN line.args : i <= Arity(line.op)}
    IN [op |-> line.op, name |-> line.name,
        args |-> [i \in kept |-> line.args[i]], at |-> <<0, 0>>]

-----------------------------------------------------------------------------
(* The linkers.  Each returns the works it leaves and the error it throws. *)
NoError == "none"

\* Mutated: a mutex for each LOCK; the first label of a name; an iterator
\* that stays valid.
MutexNew(map, name, place) == place
VisitLabelFirst(map, body, i) ==
    IF body[i].op = "LABEL" THEN map @@ (body[i].name :> i) ELSE map
VectorKept(seg) == 1

MutexOf(map, name, place) == IF name \in DOMAIN map THEN map[name] ELSE place

VisitLock(acc, seg, i) ==
    LET w == acc.works[i]
        at == MutexOf(acc.map, w.name, <<seg, i>>)
    IN IF acc.err # NoError \/ w.op \notin {"LOCK", "UNLOCK"} THEN acc
       ELSE IF w.op = "UNLOCK" /\ w.name \notin DOMAIN acc.map
            THEN [acc EXCEPT !.err = "nolock"]
       ELSE [acc EXCEPT !.map = Bind(@, w.name, at), !.works[i].at = at]

LinkLocks(body, seg) ==
    LET after[n \in 0..Len(body)] ==
          IF n = 0 THEN [works |-> body, map |-> <<>>, err |-> NoError]
          ELSE VisitLock(after[n - 1], seg, n)
    IN after[Len(body)]

\* labelMap keeps the last label of a name.
VisitLabel(map, body, i) ==
    IF body[i].op = "LABEL" THEN Bind(map, body[i].name, i) ELSE map
LabelMap(body) ==
    LET after[n \in 0..Len(body)] ==
          IF n = 0 THEN <<>> ELSE VisitLabel(after[n - 1], body, n)
    IN after[Len(body)]

\* The iterators point into the vector being linked: parse()'s own for the
\* main program, a local of the thread linker for the body of a THREAD.
VectorOf(seg) == IF seg = 1 THEN 1 ELSE 0

LinkJumps(body, seg) ==
    LET map == LabelMap(body)
        unknown == \E i \in DOMAIN body :
                      body[i].op \in Jumps /\ body[i].name \notin DOMAIN map
        Resolve(w) == IF w.op \in Jumps THEN [w EXCEPT !.at = <<VectorOf(seg), map[w.name]>>]
                      ELSE w
    IN IF unknown THEN [works |-> body, err |-> "nolabel"]
       ELSE [works |-> [i \in DOMAIN body |-> Resolve(body[i])], err |-> NoError]

\* Mutated: the locks are not linked.
LinkSegmentJumpsOnly(body, seg) == LinkJumps(body, seg)

LinkSegment(body, seg) ==
    LET locked == LinkLocks(body, seg)
    IN IF locked.err # NoError THEN [works |-> body, err |-> locked.err]
       ELSE LinkJumps(locked.works, seg)

\* THREAD_END: the buffer is linked as a program of its own and becomes a
\* block; a work that starts it takes its place.
Spawner(seg) == [op |-> "THREAD", name |-> "THREAD", args |-> <<>>, at |-> <<seg, 0>>]

\* Mutated: the buffer is not cleared.
CloseBlockKept(acc) ==
    LET seg == Len(acc.blocks) + 2
        linked == LinkSegment(acc.buffer, seg)
    IN [acc EXCEPT !.in = FALSE, !.rebuild = Append(@, Spawner(seg)),
                   !.blocks = Append(@, linked.works), !.err = linked.err]

CloseBlock(acc) ==
    LET seg == Len(acc.blocks) + 2
        linked == LinkSegment(acc.buffer, seg)
    IN [acc EXCEPT !.in = FALSE, !.rebuild = Append(@, Spawner(seg)), !.buffer = <<>>,
                   !.blocks = Append(@, linked.works), !.err = linked.err]

\* The thread linker.  What is in the buffer when the works end is in no block.
Fail(acc, err) == [acc EXCEPT !.err = err]
VisitWork(acc, w) ==
    CASE acc.err # NoError -> acc
      [] acc.err = NoError /\ w.op = "THREAD_BEGIN" ->
           IF acc.in THEN Fail(acc, "nested") ELSE [acc EXCEPT !.in = TRUE]
      [] acc.err = NoError /\ w.op = "THREAD_END" ->
           IF acc.in THEN CloseBlock(acc) ELSE Fail(acc, "unpaired")
      [] OTHER -> IF acc.in THEN [acc EXCEPT !.buffer = Append(@, w)]
                  ELSE [acc EXCEPT !.rebuild = Append(@, w)]

LinkThreads(body) ==
    LET after[n \in 0..Len(body)] ==
          IF n = 0 THEN [in |-> FALSE, rebuild |-> <<>>, buffer |-> <<>>,
                         blocks |-> <<>>, err |-> NoError]
          ELSE VisitWork(after[n - 1], body[n])
    IN after[Len(body)]

\* All linkers on the main program: the segments, or the error thrown.
LinkAll(body) ==
    LET threaded == LinkThreads(body)
        main == LinkSegment(threaded.rebuild, 1)
    IN IF threaded.err # NoError THEN [segs |-> <<>>, err |-> threaded.err]
       ELSE IF main.err # NoError THEN [segs |-> <<>>, err |-> main.err]
       ELSE [segs |-> <<main.works>> \o threaded.blocks, err |-> NoError]

\* The program run() is given; an OUT work has a mutex of its own.
Assemble(linked) ==
    [g \in DOMAIN linked |-> [i \in DOMAIN linked[g] |->
        Script(IF linked[g][i].op = "OUT" THEN [linked[g][i] EXCEPT !.at = <<g, i>>]
               ELSE linked[g][i])]]
=============================================================================

--------------------------- MODULE ParserReference ---------------------------
(***************************************************************************)
(* What parsing and linking are meant to compute, stated on the accepted   *)
(* works themselves: which segment a line belongs to, when the source is   *)
(* refused, and what a lock name or a label stands for.                    *)
(***************************************************************************)
EXTENDS Parser

Positions(op) == {i \in DOMAIN works : works[i].op = op}
CountBefore(op, i) == Cardinality({j \in Positions(op) : j < i})

Delimiters == {"THREAD_BEGIN", "THREAD_END"}
Inside(i) == CountBefore("THREAD_BEGIN", i) > CountBefore("THREAD_END", i)
SegOf(i) == IF Inside(i) THEN CountBefore("THREAD_BEGIN", i) + 1 ELSE 1
Closed(g) == g <= Cardinality(Positions("THREAD_END")) + 1

MisNested == \E i \in DOMAIN works :
                \/ works[i].op = "THREAD_BEGIN" /\ Inside(i)
                \/ works[i].op = "THREAD_END" /\ ~Inside(i)

SameScope(i, j) == works[i].name = works[j].name /\ SegOf(i) = SegOf(j)

UnlocksUnknown ==
    \E i \in Positions("UNLOCK") :
        /\ Closed(SegOf(i))
        /\ \A j \in Positions("LOCK") : j < i => ~SameScope(i, j)

JumpsNowhere ==
    \E i \in DOMAIN works :
        /\ works[i].op \in Jumps /\ Closed(SegOf(i))
        /\ \A j \in Positions("LABEL") : ~SameScope(i, j)

-----------------------------------------------------------------------------
(* What a run of the parser must satisfy.                                  *)

ParserTypeOK ==
    /\ \A k \in DOMAIN source : source[k] \in shape.lines[k]
    /\ DOMAIN context = {works[i].name : i \in Positions("VAR")}
    /\ \A i \in Positions("VAR") : Typename(context[works[i].name]) = works[i].args[1]
    /\ Len(works) <= Len(source)
    /\ phase \in {"parsing", "linked", "failed"}

DeclaredBefore(i, x) == {j \in Positions("VAR") : j < i /\ works[j].name = x}

\* However lines are dropped, a variable is declared by one work at most and
\* every work that survives uses variables declared by a work before it
\* (instruction_impl.cpp:105-136, WorkDeclVar.cpp:55-61).
DeclaredBeforeUse ==
    \A i \in DOMAIN works :
        IF works[i].op = "VAR" THEN DeclaredBefore(i, works[i].name) = {}
        ELSE \A x \in Mentions(works[i]) : DeclaredBefore(i, x) # {}

\* Whatever a line's arguments are, each operand of a work is one that its
\* Getter evaluates, and the variable the work is about has the type that
\* its performance() looks for (restriction.cpp:61-142,
\* instruction_impl.cpp:21-96, WorkString.cpp:57-96).
OperandsTyped == \A i \in DOMAIN works : WorkTyped(works[i], context)

\* The linkers refuse a source exactly when its blocks do not pair up, a
\* linked segment unlocks what it has not locked above, or jumps to a label
\* it does not hold (WorkMultiThread.cpp:125-174, WorkJump.cpp:210-248).
RefusesExactly ==
    phase # "parsing" =>
        (phase = "failed" <=> MisNested \/ UnlocksUnknown \/ JumpsNowhere)

\* The works of segment g in the order of the source; a THREAD_END stands for
\* the work that starts its block.
Members(g) ==
    {i \in DOMAIN works :
        \/ works[i].op \notin Delimiters /\ SegOf(i) = g
        \/ g = 1 /\ works[i].op = "THREAD_END"}
SpawnAt(i) == CountBefore("THREAD_END", i) + 2

\* Linking keeps every work of the main program and of a closed block, in
\* order and in its segment, and puts the start of a block where the block
\* stood (WorkMultiThread.cpp:125-151).
Rank(g, i) == Cardinality({j \in Members(g) : j <= i})
StandsFor(linked, i) ==
    IF works[i].op = "THREAD_END" THEN linked.op = "THREAD" /\ linked.at = <<SpawnAt(i), 0>>
    ELSE [linked EXCEPT !.at = works[i].at] = works[i]
KeepsOrder ==
    phase = "linked" =>
        /\ Len(segs) = Cardinality(Positions("THREAD_END")) + 1
        /\ \A g \in DOMAIN segs :
             /\ Len(segs[g]) = Cardinality(Members(g))
             /\ \A i \in Members(g) : StandsFor(segs[g][Rank(g, i)], i)

LockWorks == {p \in UNION {{g} \X DOMAIN segs[g] : g \in DOMAIN segs} :
                 segs[p[1]][p[2]].op \in {"LOCK", "UNLOCK"}}

\* Two lock works share a mutex exactly when they are in the same segment
\* and use the same name (WorkMultiThread.cpp:153-174).
OneMutexPerScope ==
    \A p, q \in LockWorks :
        segs[p[1]][p[2]].at = segs[q[1]][q[2]].at
            <=> p[1] = q[1] /\ segs[p[1]][p[2]].name = segs[q[1]][q[2]].name

\* A jump of the main program targets the last label of its name in the main
\* program; a jump in a block targets no vector that exists at run time
\* (WorkJump.cpp:210-248, WorkMultiThread.cpp:128-142).
JumpsToLastLabel ==
    \A g \in DOMAIN segs : \A i \in DOMAIN segs[g] :
        segs[g][i].op \in Jumps =>
            LET at == segs[g][i].at
                labels == {k \in DOMAIN segs[g] : /\ segs[g][k].op = "LABEL"
                                                  /\ segs[g][k].name = segs[g][i].name}
            IN /\ at[1] = (IF g = 1 THEN 1 ELSE 0)
               /\ at[2] \in labels /\ \A k \in labels : k <= at[2]

\* A source that the machine's model may be given: its variables are numeric
\* and among Names, and its literals are words.
Representable ==
    /\ \A x \in DOMAIN context : x \in Names /\ context[x] = "NUMERIC"
    /\ \A i \in DOMAIN works : \A k \in DOMAIN works[i].args :
         works[i].args[k][1] = "const" => works[i].args[k][2] \in Word

\* What the linkers make of such a source is a program the machine's model
\* may be given: the assumption under which VirtualMachine is checked and
\* proved (WorkMultiThread.cpp:125-174, WorkJump.cpp:210-248).
LinkedIsCode == phase = "linked" /\ Representable => IsCode(Assemble(segs))

\* A line whose variables are declared and whose label, if it jumps, exists:
\* nothing in the documents lets a parser leave it out.
Legal(i) ==
    LET line == source[i]
        declared == {source[j].name : j \in {k \in 1..(i - 1) : source[k].op = "VAR"}}
    IN Mentions(line) \subseteq declared
Survives(line) ==
    \E g \in DOMAIN segs : \E k \in DOMAIN segs[g] :
        [segs[g][k] EXCEPT !.at = <<0, 0>>] = Unit(line)

\* includes/mis-core/parser.h:48: "Parse all the content into works."
AllContentLinked ==
    phase = "linked" =>
        \A i \in DOMAIN source :
            source[i].op \notin Delimiters /\ Legal(i) => Survives(source[i])
=============================================================================

------------------------------- MODULE Parser -------------------------------
(***************************************************************************)
(* Parser::parse: the lines of the source one by one, then the linkers of  *)
(* module Linker.                                                          *)
(***************************************************************************)
EXTENDS Linker

\* The sources that are parsed: of at least least lines and at most
\* Len(lines), the k-th one of the set lines[k].
CONSTANT Shapes

WrittenLine == [op : STRING, name : STRING, args : Seq(Argument)]

\* A shorter line makes its matcher read past its tokens.
ASSUME ShapesAssumption ==
    \A s \in Shapes :
        /\ s.lines \in Seq(SUBSET WrittenLine)
        /\ \A k \in DOMAIN s.lines : \A line \in s.lines[k] :
             LongEnough(Shape(line.op), Len(Arguments(line)))

VARIABLES shape,    \* which sources this one is of
          source,   \* history: the lines read so far
          context,  \* the type of each variable declared so far
          works,    \* the works built so far
          phase,    \* parsing, linked, failed
          segs      \* the linked works, one sequence for each segment

pvars == <<shape, source, context, works, phase, segs>>

-----------------------------------------------------------------------------
PInit == /\ shape \in Shapes /\ source = <<>> /\ context = <<>> /\ works = <<>>
         /\ phase = "parsing" /\ segs = <<>>

NextLines == IF Len(source) < Len(shape.lines) THEN shape.lines[Len(source) + 1] ELSE {}

\* Mutated: the context records the name of every line it is given.
ParseLineRecords(line) ==
    /\ phase = "parsing" /\ line \in NextLines
    /\ source' = Append(source, line)
    /\ works' = IF Accepted(line, context) THEN Append(works, Unit(line)) ELSE works
    /\ context' = context @@ (line.name :> "NUMERIC")
    /\ UNCHANGED <<shape, phase, segs>>

ParseLine(line) ==
    /\ phase = "parsing" /\ line \in NextLines
    /\ source' = Append(source, line)
    /\ IF Accepted(line, context)
       THEN /\ works' = Append(works, Unit(line))
            /\ context' = Declaring(line, context)
       ELSE UNCHANGED <<works, context>>
    /\ UNCHANGED <<shape, phase, segs>>

\* A linker's exception leaves parse().
Link ==
    /\ phase = "parsing" /\ Len(source) >= shape.least
    /\ LET linked == LinkAll(works)
       IN /\ segs' = linked.segs
          /\ phase' = IF linked.err = NoError THEN "linked" ELSE "failed"
    /\ UNCHANGED <<shape, source, context, works>>

PNext == (\E line \in NextLines : ParseLine(line)) \/ Link

PSpec == PInit /\ [][PNext]_pvars
=============================================================================

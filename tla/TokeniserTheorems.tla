-------------------------- MODULE TokeniserTheorems --------------------------
(***************************************************************************)
(* What the tokeniser makes of a text, for texts of every length.          *)
(***************************************************************************)
EXTENDS TokeniserReference, IterationTheorems, FiniteSetTheorems

Delimiters == {Newline, Space, Comma}

LEMMA Kinds ==
    /\ Unquoted \notin {Single, Double} /\ Single # Double
    /\ Delimiters \cap {Single, Double} = {}
BY DEF Unquoted, Single, Double, Delimiters, Newline, Space, Comma

-----------------------------------------------------------------------------
(* Counting quotes.                                                        *)

QuotesBefore(s, i) == {q \in Quotes(s) : q < i}

LEMMA QuotesFinite ==
    ASSUME NEW C, NEW s \in Seq(C), NEW i
    PROVE  IsFiniteSet(QuotesBefore(s, i)) /\ Cardinality(QuotesBefore(s, i)) \in Nat
<1>1. IsFiniteSet(1..Len(s))
  BY FS_Interval
<1>2. QuotesBefore(s, i) \in SUBSET (1..Len(s))
  BY DEF QuotesBefore, Quotes
<1> QED BY <1>1, <1>2, FS_Subset, FS_CardinalityType

\* No quote stands before the first character; a quote, and nothing else,
\* changes from outside of quotes to within them or back.
LEMMA FreeStep ==
    ASSUME NEW C, NEW s \in Seq(C)
    PROVE  /\ Free(s, 1)
           /\ \A i \in 1..Len(s) : Free(s, i + 1) <=> (Free(s, i) <=> i \notin Quotes(s))
<1>1. Free(s, 1)
  <2>1. QuotesBefore(s, 1) = {}
    BY DEF QuotesBefore, Quotes
  <2>2. Cardinality(QuotesBefore(s, 1)) = 0
    BY <2>1, FS_EmptySet
  <2> QED BY <2>2 DEF Free, QuotesBefore
<1>2. ASSUME NEW i \in 1..Len(s)
      PROVE  Free(s, i + 1) <=> (Free(s, i) <=> i \notin Quotes(s))
  <2> DEFINE n == Cardinality(QuotesBefore(s, i))
             m == Cardinality(QuotesBefore(s, i + 1))
  <2>1. n \in Nat /\ IsFiniteSet(QuotesBefore(s, i))
    BY QuotesFinite
  <2>2. (Free(s, i) <=> n % 2 = 0) /\ (Free(s, i + 1) <=> m % 2 = 0)
    BY DEF Free, QuotesBefore
  <2>3. CASE i \in Quotes(s)
    <3>1. QuotesBefore(s, i + 1) = QuotesBefore(s, i) \cup {i} /\ i \notin QuotesBefore(s, i)
      BY <2>3 DEF QuotesBefore, Quotes
    <3>2. m = n + 1
      BY <2>1, <3>1, FS_AddElement
    <3> HIDE DEF n, m
    <3>3. (n + 1) % 2 = 0 <=> n % 2 # 0
      BY <2>1
    <3> QED BY <2>2, <2>3, <3>2, <3>3
  <2>4. CASE i \notin Quotes(s)
    <3>1. QuotesBefore(s, i + 1) = QuotesBefore(s, i)
      BY <2>4 DEF QuotesBefore, Quotes
    <3> QED BY <2>2, <2>4, <3>1
  <2> QED BY <2>3, <2>4
<1> QED BY <1>1, <1>2

\* Between two quotes that follow one another nothing changes.
LEMMA FreeKept ==
    ASSUME NEW C, NEW s \in Seq(C), NEW a \in 1..(Len(s) + 1), NEW b \in a..(Len(s) + 1),
           \A k \in a..(b - 1) : k \notin Quotes(s)
    PROVE  Free(s, a) <=> Free(s, b)
<1> DEFINE T == {n \in 0..(b - a) : Free(s, a) <=> Free(s, a + n)}
<1>0. Len(s) \in Nat /\ a \in Nat /\ b \in Nat /\ b - a \in Nat /\ a + 0 = a
  OBVIOUS
<1>1. 0 \in T
  BY <1>0
<1>2. ASSUME NEW n \in 1..(b - a), n - 1 \in T PROVE n \in T
  <2>1. a + (n - 1) \in 1..Len(s) /\ a + (n - 1) \in a..(b - 1) /\ (a + (n - 1)) + 1 = a + n
    BY <1>0
  <2>2. Free(s, a + n) <=> Free(s, a + (n - 1))
    BY <2>1, FreeStep
  <2> QED BY <1>2, <2>2
<1>3. 0..(b - a) \subseteq T
  <2> HIDE DEF T
  <2> QED BY <1>0, <1>1, <1>2, UpToSet
<1>4. b - a \in T /\ a + (b - a) = b
  <2> HIDE DEF T
  <2> QED BY <1>0, <1>3
<1> QED BY <1>4

-----------------------------------------------------------------------------
(* The loop over the characters.                                           *)

Scan(C) == [last : Nat \ {0}, embraced : {Unquoted, Single, Double},
            pieces : Seq(Seq(C)), failed : BOOLEAN]
Start == [last |-> 1, embraced |-> Unquoted, pieces |-> <<>>, failed |-> FALSE]

\* What one character changes.
Changed(new, m, last, embraced, pieces, failed) ==
    new.last = last /\ new.embraced = embraced /\ new.pieces = pieces /\ new.failed = failed

IsVisit(C, new, m, s, delim, n) ==
    LET c == s[n]
        piece == SubSeq(s, m.last, n - 1)
    IN /\ new \in Scan(C)
       /\ m.failed => new = m
       /\ ~m.failed /\ c = delim /\ m.embraced = Unquoted =>
            piece \in Seq(C) /\ Changed(new, m, n + 1, Unquoted, Append(m.pieces, piece), FALSE)
       /\ ~m.failed /\ c = delim /\ m.embraced # Unquoted => new = m
       /\ ~m.failed /\ n \in Quotes(s) =>
            Changed(new, m, m.last,
                    IF m.embraced = Unquoted THEN c
                    ELSE IF m.embraced = c THEN Unquoted ELSE m.embraced,
                    m.pieces, m.embraced \notin {Unquoted, c})
       /\ ~m.failed /\ c # delim /\ n \notin Quotes(s) => new = m

LEMMA Visits ==
    ASSUME NEW C, NEW s \in Seq(C), NEW delim \in Delimiters, NEW n \in 1..Len(s), NEW m \in Scan(C)
    PROVE  IsVisit(C, VisitChar(m, s, delim, n), m, s, delim, n)
<1> DEFINE new == VisitChar(m, s, delim, n)
           c == s[n]
           piece == SubSeq(s, m.last, n - 1)
<1>1. n \in DOMAIN s /\ n \in Nat /\ (n \in Quotes(s) <=> c \in {Single, Double})
  BY DEF Quotes
<1>2. /\ m.last \in Nat \ {0} /\ m.embraced \in {Unquoted, Single, Double}
      /\ m.pieces \in Seq(Seq(C)) /\ m.failed \in BOOLEAN
      /\ m = [last |-> m.last, embraced |-> m.embraced, pieces |-> m.pieces, failed |-> m.failed]
  BY DEF Scan
<1>3. piece \in Seq(C)
  BY <1>2
<1> HIDE DEF piece
<1>4. CASE m.failed
  <2>1. new = m  BY <1>4 DEF VisitChar
  <2> HIDE DEF new
  <2> QED BY <1>4, <2>1 DEF new, IsVisit
<1>5. CASE ~m.failed /\ c = delim /\ m.embraced = Unquoted
  <2>1. c \notin {Single, Double}  BY <1>5, Kinds
  <2>2. new = Cut(m, s, n)  BY <1>5, <2>1 DEF VisitChar
  <2>3. new = [m EXCEPT !.pieces = Append(m.pieces, piece), !.last = n + 1]
    BY <2>2 DEF Cut, piece
  <2>4. new = [last |-> n + 1, embraced |-> m.embraced, pieces |-> Append(m.pieces, piece),
               failed |-> m.failed]
    BY <1>2, <2>3
  <2>5. Append(m.pieces, piece) \in Seq(Seq(C))  BY <1>2, <1>3
  <2>6. new \in Scan(C)  BY <1>1, <1>2, <2>4, <2>5 DEF Scan
  <2>7. Changed(new, m, n + 1, Unquoted, Append(m.pieces, piece), FALSE)
    BY <1>2, <1>5, <2>4 DEF Changed
  <2> HIDE DEF new, IsVisit
  <2> QED BY <1>1, <1>3, <1>5, <2>1, <2>6, <2>7 DEF new, piece, IsVisit
<1>6. CASE ~m.failed /\ c \in {Single, Double}
  <2>1. c # delim  BY <1>6, Kinds
  <2>2. new = Embrace(m, c)  BY <1>6, <2>1 DEF VisitChar
  <2> DEFINE opens == IF m.embraced = Unquoted THEN c
                      ELSE IF m.embraced = c THEN Unquoted ELSE m.embraced
  <2>3. new = [last |-> m.last, embraced |-> opens, pieces |-> m.pieces,
               failed |-> m.embraced \notin {Unquoted, c}]
    <3>1. c # Unquoted  BY <1>6, Kinds
    <3>2. CASE m.embraced = Unquoted
      <4>1. new = [m EXCEPT !.embraced = c]  BY <2>2, <3>1, <3>2 DEF Embrace
      <4> HIDE DEF new, c
      <4> QED BY <1>2, <1>6, <3>2, <4>1
    <3>3. CASE m.embraced = c
      <4>1. new = [m EXCEPT !.embraced = Unquoted]  BY <2>2, <3>1, <3>3 DEF Embrace
      <4> HIDE DEF new, c
      <4> QED BY <1>2, <1>6, <3>1, <3>3, <4>1
    <3>4. CASE m.embraced \notin {Unquoted, c}
      <4>1. new = [m EXCEPT !.failed = TRUE]  BY <2>2, <3>4 DEF Embrace
      <4> HIDE DEF new, c
      <4> QED BY <1>2, <3>4, <4>1
    <3> QED BY <3>2, <3>3, <3>4
  <2> HIDE DEF new, IsVisit
  <2>4. new \in Scan(C)  BY <1>2, <1>6, <2>3 DEF Scan
  <2>5. Changed(new, m, m.last, opens, m.pieces, m.embraced \notin {Unquoted, c})
    BY <2>3 DEF Changed
  <2> QED BY <1>1, <1>6, <2>1, <2>4, <2>5 DEF new, IsVisit
<1>7. CASE ~m.failed /\ c \notin {Single, Double} /\ ~(c = delim /\ m.embraced = Unquoted)
  <2>1. new = m  BY <1>7 DEF VisitChar
  <2> HIDE DEF new, IsVisit
  <2> QED BY <1>1, <1>2, <1>7, <2>1 DEF new, IsVisit
<1> QED BY <1>4, <1>5, <1>6, <1>7

\* The loop, turn by turn.
LEMMA SplitTurns ==
    ASSUME NEW C, NEW s \in Seq(C), NEW delim \in Delimiters
    PROVE  \E after \in [0..Len(s) -> Scan(C)] :
             /\ after[0] = Start
             /\ \A n \in 1..Len(s) : after[n] = VisitChar(after[n - 1], s, delim, n)
             /\ LET end == after[Len(s)]
                IN Split(s, delim) = [pieces |-> LastPiece(end, s),
                                      failed |-> end.failed \/ end.embraced # Unquoted]
<1> DEFINE N == Len(s)
           S == Scan(C)
           none == Start
           step == [n \in 1..N |-> [m \in S |-> VisitChar(m, s, delim, n)]]
           Is(f) == f = [n \in 0..N |-> IF n = 0 THEN none ELSE VisitChar(f[n - 1], s, delim, n)]
           h == CHOOSE g : Is(g)
<1>1. N \in Nat
  OBVIOUS
<1>2. step \in [1..N -> [S -> S]]
  <2>1. ASSUME NEW n \in 1..N, NEW m \in S PROVE VisitChar(m, s, delim, n) \in S
    BY Visits DEF IsVisit
  <2> HIDE DEF S, N
  <2> QED BY <2>1
<1>3. none \in S
  BY DEF Start, Scan
<1>4. Split(s, delim) = [pieces |-> LastPiece(h[N], s),
                         failed |-> h[N].failed \/ h[N].embraced # Unquoted]
  BY DEF Split, Start
<1> HIDE DEF none, S, N
<1>5. PICK f : Loops(f, N, S, none, step)
  <2> HIDE DEF step
  <2> QED BY <1>1, <1>2, <1>3, Loop
<1>6. Is(f)
  <2> USE DEF Loops
  <2>1. ASSUME NEW n \in 1..N PROVE f[n] = VisitChar(f[n - 1], s, delim, n)
    <3>1. n - 1 \in 0..N  BY <1>1
    <3>2. f[n - 1] \in S  BY <1>5, <3>1
    <3> QED BY <1>5, <3>2
  <2>2. \A n \in 0..N : f[n] = IF n = 0 THEN none ELSE VisitChar(f[n - 1], s, delim, n)
    <3>1. \A n \in 0..N : n # 0 => n \in 1..N  BY <1>1
    <3> QED BY <1>5, <2>1, <3>1
  <2>3. f = [n \in 0..N |-> f[n]]  BY <1>5
  <2> HIDE DEF step
  <2> QED BY <2>2, <2>3
<1>7. Is(h)
  <2> HIDE DEF Is
  <2> QED BY <1>6
<1> HIDE DEF h
<1>8. h[0] = none /\ \A n \in 1..N : h[n] = VisitChar(h[n - 1], s, delim, n)
  <2>1. \A n \in 0..N : h[n] = IF n = 0 THEN none ELSE VisitChar(h[n - 1], s, delim, n)
    BY <1>7
  <2>2. 0 \in 0..N /\ \A n \in 1..N : n \in 0..N /\ n # 0  BY <1>1
  <2> QED BY <2>1, <2>2
<1>9. h \in [0..N -> S]
  <2>1. \A n \in 1..N : h[n - 1] \in S => h[n] = step[n][h[n - 1]]
    BY <1>8
  <2>2. h = [n \in 0..N |-> h[n]]
    BY <1>7
  <2>3. GoesOn(h, N, S, none, step)
    BY <1>8, <2>1, <2>2 DEF GoesOn
  <2> HIDE DEF step
  <2> QED BY <1>1, <1>2, <1>3, <2>3, LoopStays
<1> QED BY <1>4, <1>8, <1>9 DEF N, S, none

-----------------------------------------------------------------------------
(* What the loop keeps of the quotes.                                      *)

Mates(s, n) ==
    \A i \in Quotes(s), j \in Quotes(s) : j <= n /\ Free(s, i) /\ Follows(s, i, j) => s[i] = s[j]
OpenSince(s, n, q) ==
    q \in Quotes(s) /\ q <= n /\ Free(s, q) /\ \A k \in (q + 1)..n : k \notin Quotes(s)

QuotesSeen(s, n, m) ==
    IF m.failed THEN ~Paired(s)
    ELSE /\ Mates(s, n)
         /\ m.embraced = Unquoted <=> Free(s, n + 1)
         /\ m.embraced # Unquoted => \E q \in Quotes(s) : OpenSince(s, n, q) /\ s[q] = m.embraced

LEMMA QuotesStep ==
    ASSUME NEW C, NEW s \in Seq(C), NEW delim \in Delimiters, NEW n \in 1..Len(s),
           NEW m \in Scan(C), QuotesSeen(s, n - 1, m)
    PROVE  QuotesSeen(s, n, VisitChar(m, s, delim, n))
<1> DEFINE new == VisitChar(m, s, delim, n)
           c == s[n]
<1>1. /\ n \in Nat /\ Len(s) \in Nat /\ n <= Len(s) /\ (n - 1) + 1 = n
      /\ Quotes(s) \subseteq 1..Len(s)
  BY DEF Quotes
<1>2. Free(s, n + 1) <=> (Free(s, n) <=> n \notin Quotes(s))
  BY FreeStep
<1>3. /\ new \in Scan(C)
      /\ m.failed => new = m
      /\ ~m.failed /\ n \in Quotes(s) =>
           Changed(new, m, m.last,
                   IF m.embraced = Unquoted THEN c
                   ELSE IF m.embraced = c THEN Unquoted ELSE m.embraced,
                   m.pieces, m.embraced \notin {Unquoted, c})
      /\ ~m.failed /\ n \notin Quotes(s) =>
           new = m \/ (m.embraced = Unquoted /\ Changed(new, m, n + 1, Unquoted, new.pieces, FALSE))
  <2>1. IsVisit(C, new, m, s, delim, n)
    BY Visits
  <2> HIDE DEF new, c
  <2>2. new \in Scan(C) /\ (m.failed => new = m)
    BY <2>1 DEF IsVisit
  <2>3. ASSUME ~m.failed, n \in Quotes(s)
        PROVE  Changed(new, m, m.last,
                       IF m.embraced = Unquoted THEN c
                       ELSE IF m.embraced = c THEN Unquoted ELSE m.embraced,
                       m.pieces, m.embraced \notin {Unquoted, c})
    BY <2>1, <2>3 DEF IsVisit, c
  <2>4. ASSUME ~m.failed, n \notin Quotes(s)
        PROVE  new = m \/ (m.embraced = Unquoted /\ Changed(new, m, n + 1, Unquoted, new.pieces, FALSE))
    <3>1. CASE c = delim /\ m.embraced = Unquoted
      <4>1. Changed(new, m, n + 1, Unquoted, Append(m.pieces, SubSeq(s, m.last, n - 1)), FALSE)
        BY <2>1, <2>4, <3>1 DEF IsVisit, c
      <4> QED BY <3>1, <4>1 DEF Changed
    <3>2. CASE c = delim /\ m.embraced # Unquoted
      <4>1. new = m  BY <2>1, <2>4, <3>2, Zenon DEF IsVisit, c
      <4> QED BY <4>1
    <3>3. CASE c # delim
      <4>1. new = m  BY <2>1, <2>4, <3>3, Zenon DEF IsVisit, c
      <4> QED BY <4>1
    <3> QED BY <3>1, <3>2, <3>3
  <2> QED BY <2>2, <2>3, <2>4
<1> HIDE DEF new, c
<1> SUFFICES QuotesSeen(s, n, new)
  BY DEF new
<1>4. CASE m.failed
  BY <1>3, <1>4 DEF QuotesSeen
<1>5. CASE ~m.failed /\ n \notin Quotes(s)
  <2>1. /\ Mates(s, n - 1) /\ (m.embraced = Unquoted <=> Free(s, n))
        /\ m.embraced # Unquoted =>
             \E q \in Quotes(s) : OpenSince(s, n - 1, q) /\ s[q] = m.embraced
    BY <1>1, <1>5 DEF QuotesSeen
  <2>2. new.embraced = m.embraced /\ ~new.failed
    BY <1>3, <1>5 DEF Changed
  <2>3. Mates(s, n)
    <3>1. \A j \in Quotes(s) : j <= n => j <= n - 1  BY <1>1, <1>5
    <3> QED BY <2>1, <3>1 DEF Mates
  <2>4. \A q \in Quotes(s) : OpenSince(s, n - 1, q) => OpenSince(s, n, q)
    BY <1>1, <1>5 DEF OpenSince
  <2>5. Free(s, n + 1) <=> Free(s, n)
    BY <1>2, <1>5
  <2> QED BY <2>1, <2>2, <2>3, <2>4, <2>5 DEF QuotesSeen
<1>6. CASE ~m.failed /\ n \in Quotes(s)
  <2>1. /\ Mates(s, n - 1) /\ (m.embraced = Unquoted <=> Free(s, n))
        /\ m.embraced # Unquoted =>
             \E q \in Quotes(s) : OpenSince(s, n - 1, q) /\ s[q] = m.embraced
    BY <1>1, <1>6 DEF QuotesSeen
  <2>2. Free(s, n + 1) <=> ~Free(s, n)
    BY <1>2, <1>6
  <2>3. /\ new.embraced = IF m.embraced = Unquoted THEN c
                          ELSE IF m.embraced = c THEN Unquoted ELSE m.embraced
        /\ new.failed = (m.embraced \notin {Unquoted, c})
    BY <1>3, <1>6 DEF Changed
  <2>4. CASE m.embraced = Unquoted
    <3>1. c # Unquoted /\ new.embraced = c /\ ~new.failed
      BY <1>6, <2>3, <2>4, Kinds DEF Quotes, c
    <3>2. ASSUME NEW i \in Quotes(s), Follows(s, i, n), Free(s, i) PROVE FALSE
      <4>1. i \in 1..Len(s) /\ i < n /\ i + 1 \in 1..(Len(s) + 1) /\ n \in (i + 1)..(Len(s) + 1)
        BY <1>1, <3>2 DEF Follows
      <4>2. ~Free(s, i + 1)
        BY <3>2, <4>1, FreeStep
      <4>3. \A k \in (i + 1)..(n - 1) : k \notin Quotes(s)
        BY <3>2 DEF Follows
      <4>4. Free(s, i + 1) <=> Free(s, n)
        BY <4>1, <4>3, FreeKept
      <4> QED BY <2>1, <2>4, <4>2, <4>4
    <3>3. Mates(s, n)
      <4>1. \A j \in Quotes(s) : j <= n => j <= n - 1 \/ j = n  BY <1>1
      <4> QED BY <2>1, <3>2, <4>1 DEF Mates
    <3>4. OpenSince(s, n, n) /\ s[n] = new.embraced
      BY <1>1, <1>6, <2>1, <2>4, <3>1 DEF OpenSince, c
    <3> QED BY <1>6, <2>1, <2>2, <2>4, <3>1, <3>3, <3>4 DEF QuotesSeen
  <2>5. CASE m.embraced # Unquoted
    <3>1. PICK q \in Quotes(s) : OpenSince(s, n - 1, q) /\ s[q] = m.embraced
      BY <2>1, <2>5
    <3>2. q \in 1..Len(s) /\ q < n /\ Free(s, q) /\ \A k \in (q + 1)..(n - 1) : k \notin Quotes(s)
      BY <1>1, <3>1 DEF OpenSince
    <3>3. Follows(s, q, n)
      BY <3>2 DEF Follows
    <3>4. CASE m.embraced = c
      <4>1. new.embraced = Unquoted /\ ~new.failed
        BY <2>3, <2>5, <3>4
      <4>2. ASSUME NEW i \in Quotes(s), Follows(s, i, n) PROVE i = q
        <5>1. i \in 1..Len(s) /\ i < n /\ \A k \in (i + 1)..(n - 1) : k \notin Quotes(s)
          BY <1>1, <4>2 DEF Follows
        <5>2. ~(i < q) /\ ~(q < i)
          BY <3>2, <5>1
        <5> QED BY <3>2, <5>1, <5>2
      <4>3. Mates(s, n)
        <5>1. \A j \in Quotes(s) : j <= n => j <= n - 1 \/ j = n  BY <1>1
        <5>2. s[q] = s[n]  BY <3>1, <3>4 DEF c
        <5> QED BY <2>1, <4>2, <5>1, <5>2 DEF Mates
      <4> QED BY <2>1, <2>2, <2>5, <4>1, <4>3 DEF QuotesSeen
    <3>5. CASE m.embraced # c
      <4>1. new.failed
        BY <2>3, <2>5, <3>5
      <4>2. s[q] # s[n]
        BY <3>1, <3>5 DEF c
      <4>3. ~Paired(s)
        BY <1>6, <3>2, <3>3, <4>2 DEF Paired
      <4> QED BY <4>1, <4>3 DEF QuotesSeen
    <3> QED BY <3>4, <3>5
  <2> QED BY <2>4, <2>5
<1> QED BY <1>4, <1>5, <1>6

-----------------------------------------------------------------------------
(* Counting ends.                                                          *)

LEMMA EndsAre ==
    ASSUME NEW C, NEW s \in Seq(C), NEW delim \in Delimiters
    PROVE  /\ Ends(s, delim) \subseteq 1..(Len(s) + 1) /\ IsFiniteSet(Ends(s, delim))
           /\ \A i \in 1..Len(s) : i \in Ends(s, delim) <=> i \in Cuts(s, delim)
           /\ Cuts(s, delim) \subseteq 1..Len(s) /\ Cuts(s, delim) \subseteq Ends(s, delim)
           /\ \A i \in Cuts(s, delim) : s[i] = delim /\ Free(s, i) /\ i \notin Quotes(s)
<1>1. /\ Cuts(s, delim) \subseteq 1..Len(s) /\ Cuts(s, delim) \subseteq Ends(s, delim)
      /\ \A i \in Cuts(s, delim) : s[i] = delim /\ Free(s, i) /\ i \notin Quotes(s)
  BY Kinds DEF Cuts, Ends, Quotes
<1>2. /\ Ends(s, delim) \subseteq 1..(Len(s) + 1)
      /\ \A i \in 1..Len(s) : i \in Ends(s, delim) <=> i \in Cuts(s, delim)
  BY <1>1 DEF Ends
<1>3. IsFiniteSet(1..(Len(s) + 1))
  BY FS_Interval
<1> QED BY <1>1, <1>2, <1>3, FS_Subset

EndsUpTo(s, delim, n) == {e \in Ends(s, delim) : e <= n}

LEMMA Counts ==
    ASSUME NEW C, NEW s \in Seq(C), NEW delim \in Delimiters
    PROVE  /\ \A n \in Nat : Count(s, delim, n) \in Nat
           /\ Count(s, delim, 0) = 0
           /\ \A n \in 1..(Len(s) + 1) :
                Count(s, delim, n) = Count(s, delim, n - 1) + (IF n \in Ends(s, delim) THEN 1 ELSE 0)
           /\ Count(s, delim, Len(s) + 1) = Cardinality(Ends(s, delim))
           /\ \A e, f \in Ends(s, delim) :
                /\ e < f => Count(s, delim, e) < Count(s, delim, f)
                /\ Count(s, delim, e) = Count(s, delim, f) => e = f
           /\ \A e \in Ends(s, delim) : Count(s, delim, e) \in 1..Cardinality(Ends(s, delim))
<1> DEFINE E == Ends(s, delim)
           U(n) == EndsUpTo(s, delim, n)
<1>1. E \subseteq 1..(Len(s) + 1) /\ IsFiniteSet(E) /\ Len(s) \in Nat
  BY EndsAre
<1>2. \A n : U(n) \in SUBSET E
  BY DEF EndsUpTo
<1>3. ASSUME NEW n PROVE IsFiniteSet(U(n)) /\ Cardinality(U(n)) \in Nat
  BY <1>1, <1>2, FS_Subset, FS_CardinalityType
<1>4. \A n : Count(s, delim, n) = Cardinality(U(n))
  BY DEF Count, EndsUpTo
<1>5. Count(s, delim, 0) = 0
  <2>1. U(0) = {}  BY <1>1 DEF EndsUpTo
  <2> QED BY <1>4, <2>1, FS_EmptySet
<1>6. ASSUME NEW n \in 1..(Len(s) + 1)
      PROVE  Count(s, delim, n) = Count(s, delim, n - 1) + (IF n \in E THEN 1 ELSE 0)
  <2>1. CASE n \in E
    <3>1. U(n) = U(n - 1) \cup {n} /\ n \notin U(n - 1)
      BY <1>1, <2>1 DEF EndsUpTo
    <3>2. Cardinality(U(n)) = Cardinality(U(n - 1)) + 1
      <4> HIDE DEF U
      <4> QED BY <1>3, <3>1, FS_AddElement
    <3> QED BY <1>4, <2>1, <3>2
  <2>2. CASE n \notin E
    <3>1. U(n) = U(n - 1)
      BY <1>1, <2>2 DEF EndsUpTo
    <3>2. Count(s, delim, n) = Count(s, delim, n - 1) /\ Count(s, delim, n - 1) \in Nat
      BY <1>3, <1>4, <3>1
    <3> QED BY <2>2, <3>2
  <2> QED BY <2>1, <2>2
<1>7. Count(s, delim, Len(s) + 1) = Cardinality(E)
  <2>1. U(Len(s) + 1) = E  BY <1>1 DEF EndsUpTo
  <2> QED BY <1>4, <2>1
<1>8. ASSUME NEW e \in E, NEW f \in E, e < f
      PROVE  Count(s, delim, e) < Count(s, delim, f)
  <2>1. U(e) \in SUBSET U(f) /\ f \in U(f) /\ f \notin U(e)
    BY <1>1, <1>8 DEF EndsUpTo
  <2>2. Cardinality(U(e)) <= Cardinality(U(f)) /\ Cardinality(U(e)) # Cardinality(U(f))
    <3> HIDE DEF U
    <3> QED BY <1>3, <2>1, FS_Subset
  <2>3. Cardinality(U(e)) \in Nat /\ Cardinality(U(f)) \in Nat
    BY <1>3
  <2> QED BY <1>4, <2>2, <2>3
<1>9. ASSUME NEW e \in E, NEW f \in E, Count(s, delim, e) = Count(s, delim, f)
      PROVE  e = f
  <2>1. Count(s, delim, e) \in Nat /\ Count(s, delim, f) \in Nat /\ e \in Nat /\ f \in Nat
    BY <1>1, <1>3, <1>4
  <2>2. ~(e < f) /\ ~(f < e)
    <3> HIDE DEF E
    <3> QED BY <1>8, <1>9, <2>1
  <2> QED BY <2>1, <2>2
<1>10. ASSUME NEW e \in E PROVE Count(s, delim, e) \in 1..Cardinality(E)
  <2>1. e \in U(e)  BY <1>1 DEF EndsUpTo
  <2>2. Cardinality(U(e)) # 0 /\ Cardinality(U(e)) \in Nat
    <3> HIDE DEF U
    <3> QED BY <1>3, <2>1, FS_EmptySet
  <2>3. Cardinality(U(e)) <= Cardinality(E) /\ Cardinality(E) \in Nat
    <3>1. Cardinality(U(e)) <= Cardinality(E)
      <4> HIDE DEF U, E
      <4> QED BY <1>1, <1>2, FS_Subset
    <3> QED BY <1>1, <3>1, FS_CardinalityType
  <2> HIDE DEF U, E
  <2> QED BY <1>4, <2>2, <2>3
<1>11. \A n \in Nat : Count(s, delim, n) \in Nat
  BY <1>3, <1>4
<1> QED BY <1>5, <1>6, <1>7, <1>8, <1>9, <1>10, <1>11

-----------------------------------------------------------------------------
(* What the loop keeps of the pieces.                                      *)

PieceNumber(k, piece, s, delim) ==
    \E e \in Ends(s, delim) :
        /\ Count(s, delim, e) = k
        /\ \E a \in 1..e : IsPiece(s, delim, a, e) /\ piece = SubSeq(s, a, e - 1)

PiecesSeen(s, delim, n, m) ==
    ~m.failed =>
        /\ m.last \in 1..(n + 1) /\ StartsAt(s, delim, m.last)
        /\ \A j \in m.last..n : j \notin Cuts(s, delim)
        /\ Len(m.pieces) = Count(s, delim, n)
        /\ \A k \in 1..Len(m.pieces) : PieceNumber(k, m.pieces[k], s, delim)

LEMMA PiecesStep ==
    ASSUME NEW C, NEW s \in Seq(C), NEW delim \in Delimiters, NEW n \in 1..Len(s),
           NEW m \in Scan(C), QuotesSeen(s, n - 1, m), PiecesSeen(s, delim, n - 1, m)
    PROVE  PiecesSeen(s, delim, n, VisitChar(m, s, delim, n))
<1> DEFINE new == VisitChar(m, s, delim, n)
           c == s[n]
           piece == SubSeq(s, m.last, n - 1)
<1>1. /\ n \in Nat /\ Len(s) \in Nat /\ n <= Len(s) /\ (n - 1) + 1 = n /\ n \in DOMAIN s
      /\ n \in 1..(Len(s) + 1)
  OBVIOUS
<1>2. IsVisit(C, new, m, s, delim, n)
  BY Visits
<1> HIDE DEF new
<1> SUFFICES ASSUME ~new.failed PROVE PiecesSeen(s, delim, n, new)
  BY DEF new, PiecesSeen
<1>3. ~m.failed
  <2>1. m.failed => new = m  BY <1>2 DEF IsVisit
  <2> QED BY <2>1
<1>4. m.embraced = Unquoted <=> Free(s, n)
  BY <1>1, <1>3 DEF QuotesSeen
<1>5. /\ m.last \in 1..n /\ StartsAt(s, delim, m.last)
      /\ \A j \in m.last..(n - 1) : j \notin Cuts(s, delim)
      /\ Len(m.pieces) = Count(s, delim, n - 1)
      /\ \A k \in 1..Len(m.pieces) : PieceNumber(k, m.pieces[k], s, delim)
  BY <1>1, <1>3 DEF PiecesSeen
<1>6. Count(s, delim, n) = Count(s, delim, n - 1) + (IF n \in Ends(s, delim) THEN 1 ELSE 0)
  BY <1>1, Counts
<1>7. n \in Ends(s, delim) <=> n \in Cuts(s, delim)
  BY EndsAre
<1>8. m.pieces \in Seq(Seq(C)) /\ new.pieces \in Seq(Seq(C)) /\ Count(s, delim, n - 1) \in Nat
  <2>1. new \in Scan(C)  BY <1>2 DEF IsVisit
  <2>2. n - 1 \in Nat  BY <1>1
  <2> QED BY <2>1, <2>2, Counts DEF Scan
<1>9. CASE n \in Cuts(s, delim)
  <2>1. c = delim /\ Free(s, n)
    BY <1>9, EndsAre
  <2>2. piece \in Seq(C) /\ Changed(new, m, n + 1, Unquoted, Append(m.pieces, piece), FALSE)
    BY <1>2, <1>3, <1>4, <2>1 DEF IsVisit
  <2>3. new.last = n + 1 /\ new.pieces = Append(m.pieces, piece)
    BY <2>2 DEF Changed
  <2>4. Count(s, delim, n) = Len(m.pieces) + 1
    BY <1>5, <1>6, <1>7, <1>9
  <2>5. IsPiece(s, delim, m.last, n)
    BY <1>5, <1>7, <1>9 DEF IsPiece
  <2>6. PieceNumber(Len(m.pieces) + 1, piece, s, delim)
    BY <1>5, <1>7, <1>9, <2>4, <2>5 DEF PieceNumber
  <2> HIDE DEF piece
  <2>7. Len(new.pieces) = Len(m.pieces) + 1
    BY <1>8, <2>2, <2>3
  <2>8. ASSUME NEW k \in 1..Len(new.pieces) PROVE PieceNumber(k, new.pieces[k], s, delim)
    <3>1. CASE k = Len(m.pieces) + 1
      <4>1. new.pieces[k] = piece  BY <1>8, <2>2, <2>3, <3>1
      <4> QED BY <2>6, <3>1, <4>1
    <3>2. CASE k # Len(m.pieces) + 1
      <4>1. k \in 1..Len(m.pieces)  BY <1>8, <2>7, <3>2
      <4>2. new.pieces[k] = m.pieces[k]  BY <1>8, <2>2, <2>3, <4>1
      <4> QED BY <1>5, <4>1, <4>2
    <3> QED BY <3>1, <3>2
  <2>9. StartsAt(s, delim, n + 1)
    BY <1>1, <1>9 DEF StartsAt
  <2> QED BY <1>1, <2>3, <2>4, <2>7, <2>8, <2>9 DEF PiecesSeen
<1>10. CASE n \notin Cuts(s, delim)
  <2>1. new.last = m.last /\ new.pieces = m.pieces
    <3>1. CASE c = delim
      <4>1. ~Free(s, n)  BY <1>1, <1>10, <3>1 DEF Cuts
      <4>2. new = m  BY <1>2, <1>3, <1>4, <3>1, <4>1, Zenon DEF IsVisit
      <4> QED BY <4>2
    <3>2. CASE c # delim /\ n \in Quotes(s)
      BY <1>2, <1>3, <3>2 DEF IsVisit, Changed
    <3>3. CASE c # delim /\ n \notin Quotes(s)
      <4>1. new = m  BY <1>2, <1>3, <3>3, Zenon DEF IsVisit
      <4> QED BY <4>1
    <3> QED BY <3>1, <3>2, <3>3
  <2>2. Count(s, delim, n) = Len(m.pieces)
    BY <1>5, <1>6, <1>7, <1>8, <1>10
  <2>3. \A j \in m.last..n : j \notin Cuts(s, delim)
    BY <1>1, <1>5, <1>10
  <2>4. m.last \in 1..(n + 1)
    BY <1>1, <1>5
  <2> QED BY <1>5, <2>1, <2>2, <2>3, <2>4 DEF PiecesSeen
<1> QED BY <1>9, <1>10

\* splitDetectStringChar cuts a text whose quotes pair up into its pieces, and
\* throws on any other.
IsSplit(C, split, s, delim) ==
    /\ split.failed \in BOOLEAN /\ (split.failed <=> ~Paired(s))
    /\ Paired(s) =>
         /\ split.pieces \in Seq(Seq(C))
         /\ Len(split.pieces) = Cardinality(Ends(s, delim))
         /\ \A k \in 1..Len(split.pieces) : PieceNumber(k, split.pieces[k], s, delim)

LEMMA Splits ==
    ASSUME NEW C, NEW s \in Seq(C), NEW delim \in Delimiters
    PROVE  IsSplit(C, Split(s, delim), s, delim)
<1> DEFINE N == Len(s)
           split == Split(s, delim)
<1>1. PICK after \in [0..N -> Scan(C)] :
             /\ after[0] = Start
             /\ \A n \in 1..N : after[n] = VisitChar(after[n - 1], s, delim, n)
             /\ split = [pieces |-> LastPiece(after[N], s),
                         failed |-> after[N].failed \/ after[N].embraced # Unquoted]
  BY SplitTurns
<1> DEFINE T == {n \in 0..N : QuotesSeen(s, n, after[n]) /\ PiecesSeen(s, delim, n, after[n])}
           end == after[N]
<1>2. N \in Nat
  OBVIOUS
<1>3. 0 \in T
  <2>1. /\ after[0].last = 1 /\ after[0].embraced = Unquoted /\ after[0].pieces = <<>>
        /\ ~after[0].failed
    BY <1>1 DEF Start
  <2>2. QuotesSeen(s, 0, after[0])
    <3>1. Free(s, 1)  BY FreeStep
    <3>2. Mates(s, 0)  BY DEF Mates, Quotes
    <3> QED BY <2>1, <3>1, <3>2 DEF QuotesSeen
  <2>3. PiecesSeen(s, delim, 0, after[0])
    <3>1. Count(s, delim, 0) = 0  BY Counts
    <3>2. StartsAt(s, delim, 1)  BY DEF StartsAt
    <3> QED BY <2>1, <3>1, <3>2 DEF PiecesSeen
  <2> QED BY <1>2, <2>2, <2>3
<1>4. ASSUME NEW n \in 1..N, n - 1 \in T PROVE n \in T
  <2>1. after[n - 1] \in Scan(C) /\ after[n] = VisitChar(after[n - 1], s, delim, n) /\ n \in 0..N
    BY <1>1, <1>4
  <2>2. QuotesSeen(s, n, after[n]) /\ PiecesSeen(s, delim, n, after[n])
    BY <1>4, <2>1, QuotesStep, PiecesStep
  <2> QED BY <2>1, <2>2
<1>5. QuotesSeen(s, N, end) /\ PiecesSeen(s, delim, N, end) /\ end \in Scan(C)
  <2>1. 0..N \subseteq T
    <3> HIDE DEF T, N
    <3> QED BY <1>2, <1>3, <1>4, UpToSet
  <2>2. N \in T /\ N \in 0..N
    <3> HIDE DEF T, N
    <3> QED BY <1>2, <2>1
  <2> QED BY <1>1, <2>2
<1>6. split.pieces = LastPiece(end, s) /\ split.failed = (end.failed \/ end.embraced # Unquoted)
  BY <1>1
<1> HIDE DEF end, split
<1> SUFFICES IsSplit(C, split, s, delim)
  BY DEF split
<1>7. split.failed <=> ~Paired(s)
  <2>1. CASE end.failed
    BY <1>5, <1>6, <2>1 DEF QuotesSeen
  <2>2. CASE ~end.failed
    <3>1. Mates(s, N) /\ (end.embraced = Unquoted <=> Free(s, N + 1))
      BY <1>5, <2>2 DEF QuotesSeen
    <3>2. \A j \in Quotes(s) : j <= N
      BY DEF Quotes
    <3>3. Paired(s) <=> Free(s, N + 1)
      BY <3>1, <3>2 DEF Paired, Mates
    <3> QED BY <1>6, <2>2, <3>1, <3>3
  <2> QED BY <2>1, <2>2
<1>8. split.failed \in BOOLEAN
  BY <1>5, <1>6 DEF Scan
<1>9. ASSUME Paired(s)
      PROVE  /\ split.pieces \in Seq(Seq(C))
             /\ Len(split.pieces) = Cardinality(Ends(s, delim))
             /\ \A k \in 1..Len(split.pieces) : PieceNumber(k, split.pieces[k], s, delim)
  <2>1. ~end.failed
    BY <1>6, <1>7, <1>9
  <2>2. /\ end.last \in 1..(N + 1) /\ StartsAt(s, delim, end.last)
        /\ \A j \in end.last..N : j \notin Cuts(s, delim)
        /\ Len(end.pieces) = Count(s, delim, N)
        /\ \A k \in 1..Len(end.pieces) : PieceNumber(k, end.pieces[k], s, delim)
    BY <1>5, <2>1 DEF PiecesSeen
  <2>3. end.pieces \in Seq(Seq(C))
    BY <1>5 DEF Scan
  <2>4. /\ Cardinality(Ends(s, delim)) = Count(s, delim, N + 1)
        /\ Count(s, delim, N + 1) =
             Count(s, delim, N) + (IF N + 1 \in Ends(s, delim) THEN 1 ELSE 0)
        /\ Count(s, delim, N) \in Nat
    <3>1. N + 1 \in 1..(Len(s) + 1) /\ (N + 1) - 1 = N  BY <1>2
    <3>2. Count(s, delim, N) \in Nat /\ Count(s, delim, N + 1) = Cardinality(Ends(s, delim))
      BY <1>2, Counts
    <3>3. Count(s, delim, N + 1) =
            Count(s, delim, (N + 1) - 1) + (IF N + 1 \in Ends(s, delim) THEN 1 ELSE 0)
      <4> HIDE DEF N
      <4>1. \A n \in 1..(Len(s) + 1) :
              Count(s, delim, n) = Count(s, delim, n - 1) + (IF n \in Ends(s, delim) THEN 1 ELSE 0)
        BY Counts
      <4> QED BY <3>1, <4>1
    <3> QED BY <3>1, <3>2, <3>3
  <2>5. N + 1 \in Ends(s, delim) <=> end.last <= N
    <3>1. N + 1 \in Ends(s, delim) <=> ~(s = <<>> \/ N \in Cuts(s, delim))
      <4>1. N + 1 \notin Cuts(s, delim)  BY <1>2, EndsAre
      <4> QED BY <1>2, <4>1 DEF Ends
    <3>2. s = <<>> <=> N = 0
      OBVIOUS
    <3>3. N \in Cuts(s, delim) => N > 0
      BY EndsAre
    <3>4. end.last = N + 1 => N = 0 \/ N \in Cuts(s, delim)
      BY <1>2, <2>2 DEF StartsAt
    <3>5. end.last <= N => N \notin Cuts(s, delim) /\ N # 0
      BY <1>2, <2>2
    <3> HIDE DEF N
    <3> QED BY <1>2, <2>2, <3>1, <3>2, <3>3, <3>4, <3>5
  <2>6. CASE end.last > N
    <3>1. split.pieces = end.pieces
      BY <1>6, <2>6 DEF LastPiece
    <3>2. N + 1 \notin Ends(s, delim)
      BY <1>2, <2>2, <2>5, <2>6
    <3> QED BY <2>2, <2>3, <2>4, <3>1, <3>2
  <2>7. CASE ~(end.last > N)
    <3> DEFINE piece == SubSeq(s, end.last, N)
    <3>1. split.pieces = Append(end.pieces, piece)
      BY <1>6, <2>7 DEF LastPiece
    <3>2. N + 1 \in Ends(s, delim)
      BY <1>2, <2>2, <2>5, <2>7
    <3>3. piece \in Seq(C)
      BY <1>2, <2>2
    <3>4. IsPiece(s, delim, end.last, N + 1)
      <4>1. (N + 1) - 1 = N  BY <1>2
      <4> QED BY <2>2, <3>2, <4>1 DEF IsPiece
    <3>5. Cardinality(Ends(s, delim)) = Len(end.pieces) + 1
      BY <2>2, <2>4, <3>2
    <3>6. PieceNumber(Len(end.pieces) + 1, piece, s, delim)
      <4>1. (N + 1) - 1 = N  BY <1>2
      <4> QED BY <2>2, <2>4, <3>2, <3>4, <3>5, <4>1 DEF PieceNumber
    <3> HIDE DEF piece
    <3>7. split.pieces \in Seq(Seq(C)) /\ Len(split.pieces) = Len(end.pieces) + 1
      BY <2>3, <3>1, <3>3
    <3>8. ASSUME NEW k \in 1..Len(split.pieces) PROVE PieceNumber(k, split.pieces[k], s, delim)
      <4>1. CASE k = Len(end.pieces) + 1
        <5>1. split.pieces[k] = piece  BY <2>3, <3>1, <3>3, <4>1
        <5> QED BY <3>6, <4>1, <5>1
      <4>2. CASE k # Len(end.pieces) + 1
        <5>1. k \in 1..Len(end.pieces)  BY <2>3, <3>7, <4>2
        <5>2. split.pieces[k] = end.pieces[k]  BY <2>3, <3>1, <3>3, <5>1
        <5> QED BY <2>2, <5>1, <5>2
      <4> QED BY <4>1, <4>2
    <3> QED BY <3>5, <3>7, <3>8
  <2> QED BY <2>6, <2>7
<1> QED BY <1>7, <1>8, <1>9 DEF IsSplit

-----------------------------------------------------------------------------
(* Pieces and parts.                                                       *)

\* A piece is known by its end, and there is one from each start.
LEMMA PieceEnds ==
    ASSUME NEW C, NEW s \in Seq(C), NEW delim \in Delimiters, NEW a, NEW b, NEW e,
           IsPiece(s, delim, a, e), IsPiece(s, delim, b, e)
    PROVE  a = b
<1>1. e \in Nat /\ a \in 1..e /\ b \in 1..e
  BY EndsAre DEF IsPiece
<1>2. ~(a < b) /\ ~(b < a)
  BY <1>1 DEF IsPiece, StartsAt
<1> QED BY <1>1, <1>2

\* No quote is open where a piece begins or ends.
LEMMA PieceFree ==
    ASSUME NEW C, NEW s \in Seq(C), NEW delim \in Delimiters, Paired(s), NEW a, NEW e,
           IsPiece(s, delim, a, e)
    PROVE  /\ a \in 1..(Len(s) + 1) /\ e \in a..(Len(s) + 1)
           /\ Free(s, a) /\ Free(s, e)
<1>1. /\ Ends(s, delim) \subseteq 1..(Len(s) + 1) /\ Len(s) \in Nat
      /\ \A i \in 1..Len(s) : i \in Ends(s, delim) <=> i \in Cuts(s, delim)
      /\ Cuts(s, delim) \subseteq 1..Len(s)
      /\ \A i \in Cuts(s, delim) : Free(s, i) /\ i \notin Quotes(s)
  BY EndsAre
<1>2. a \in 1..(Len(s) + 1) /\ e \in a..(Len(s) + 1)
  BY <1>1 DEF IsPiece
<1>3. Free(s, e)
  <2>1. CASE e = Len(s) + 1  BY <2>1 DEF Paired
  <2>2. CASE e # Len(s) + 1
    <3>1. e \in 1..Len(s) /\ e \in Ends(s, delim)  BY <1>1, <1>2, <2>2 DEF IsPiece
    <3> QED BY <1>1, <3>1
  <2> QED BY <2>1, <2>2
<1>4. Free(s, a)
  <2>1. CASE a = 1  BY <2>1, FreeStep
  <2>2. CASE a # 1
    <3>1. a - 1 \in Cuts(s, delim) /\ (a - 1) + 1 = a
      BY <1>2, <2>2 DEF IsPiece, StartsAt
    <3>2. a - 1 \in 1..Len(s) /\ Free(s, a - 1) /\ a - 1 \notin Quotes(s)
      BY <1>1, <3>1
    <3>3. Free(s, (a - 1) + 1)
      BY <3>2, FreeStep
    <3> QED BY <3>1, <3>3
  <2> QED BY <2>1, <2>2
<1> QED BY <1>2, <1>3, <1>4

\* A part of a text between two places that are outside of quotes.
IsPart(C, t, s, a, e) ==
    /\ t \in Seq(C) /\ Len(t) = e - a
    /\ \A i \in 1..(e - a) :
         /\ t[i] = s[a + i - 1]
         /\ \A delim \in Delimiters : i \in Cuts(t, delim) <=> a + i - 1 \in Cuts(s, delim)
    /\ \A i \in 1..(e - a + 1) : Free(t, i) <=> Free(s, a + i - 1)
    /\ Paired(s) => Paired(t)

LEMMA Parts ==
    ASSUME NEW C, NEW s \in Seq(C), NEW a \in 1..(Len(s) + 1), NEW e \in a..(Len(s) + 1),
           Free(s, a), Free(s, e)
    PROVE  IsPart(C, SubSeq(s, a, e - 1), s, a, e)
<1> DEFINE t == SubSeq(s, a, e - 1)
           L == e - a
<1>1. /\ Len(s) \in Nat /\ a \in Nat /\ e \in Nat /\ L \in Nat /\ e = a + L /\ e <= Len(s) + 1
      /\ 1 <= a
  OBVIOUS
<1>2. t \in Seq(C) /\ Len(t) = L /\ DOMAIN t = 1..L
  BY <1>1
<1>3. \A i \in 1..L : t[i] = s[a + i - 1] /\ a + i - 1 \in 1..Len(s)
  BY <1>1
<1> HIDE DEF t, L
<1>4. \A i \in 1..L : i \in Quotes(t) <=> a + i - 1 \in Quotes(s)
  BY <1>2, <1>3 DEF Quotes
<1>5. \A i \in 1..(L + 1) : Free(t, i) <=> Free(s, a + i - 1)
  <2> DEFINE T == {n \in 0..L : Free(t, n + 1) <=> Free(s, a + n)}
  <2>1. 0 \in T
    <3>1. Free(t, 1)  BY <1>2, FreeStep
    <3>2. 0 + 1 = 1 /\ a + 0 = a /\ 0 \in 0..L  BY <1>1
    <3> QED BY <3>1, <3>2
  <2>2. ASSUME NEW n \in 1..L, n - 1 \in T PROVE n \in T
    <3>1. (n - 1) + 1 = n /\ a + (n - 1) = a + n - 1 /\ (a + n - 1) + 1 = a + n /\ n \in 0..L
      BY <1>1
    <3>2. Free(t, n) <=> Free(s, a + n - 1)  BY <2>2, <3>1
    <3>3. Free(t, n + 1) <=> (Free(t, n) <=> n \notin Quotes(t))
      BY <1>2, FreeStep
    <3>4. Free(s, a + n) <=> (Free(s, a + n - 1) <=> a + n - 1 \notin Quotes(s))
      BY <1>3, <3>1, FreeStep
    <3> QED BY <1>4, <3>1, <3>2, <3>3, <3>4
  <2>3. 0..L \subseteq T
    <3> HIDE DEF T
    <3> QED BY <1>1, <2>1, <2>2, UpToSet
  <2>4. ASSUME NEW i \in 1..(L + 1) PROVE Free(t, i) <=> Free(s, a + i - 1)
    <3>1. i - 1 \in 0..L /\ (i - 1) + 1 = i /\ a + (i - 1) = a + i - 1  BY <1>1
    <3>2. i - 1 \in T
      <4> HIDE DEF T
      <4> QED BY <2>3, <3>1
    <3>3. Free(t, (i - 1) + 1) <=> Free(s, a + (i - 1))  BY <3>2
    <3> QED BY <3>1, <3>3
  <2> QED BY <2>4
<1>6. ASSUME NEW i \in 1..L, NEW delim \in Delimiters
      PROVE  i \in Cuts(t, delim) <=> a + i - 1 \in Cuts(s, delim)
  <2>1. Free(t, i) <=> Free(s, a + i - 1)  BY <1>1, <1>5
  <2> QED BY <1>2, <1>3, <2>1 DEF Cuts
<1>7. ASSUME Paired(s) PROVE Paired(t)
  <2>1. Free(t, Len(t) + 1)
    <3>1. L + 1 \in 1..(L + 1) /\ a + (L + 1) - 1 = e  BY <1>1
    <3> QED BY <1>2, <1>5, <3>1
  <2>2. ASSUME NEW i \in Quotes(t), NEW j \in Quotes(t), Free(t, i), Follows(t, i, j)
        PROVE  t[i] = t[j]
    <3>1. i \in 1..L /\ j \in 1..L /\ i < j
      BY <1>2, <2>2 DEF Quotes, Follows
    <3>2. a + i - 1 \in Quotes(s) /\ a + j - 1 \in Quotes(s)
      BY <1>4, <2>2, <3>1
    <3>3. Free(s, a + i - 1)
      <4>1. i \in 1..(L + 1)  BY <1>1, <3>1
      <4> QED BY <1>5, <2>2, <4>1
    <3>4. Follows(s, a + i - 1, a + j - 1)
      <4>1. ASSUME NEW k \in (a + i - 1 + 1)..(a + j - 1 - 1) PROVE k \notin Quotes(s)
        <5>1. k - a + 1 \in (i + 1)..(j - 1) /\ k - a + 1 \in 1..L /\ a + (k - a + 1) - 1 = k
          BY <1>1, <3>1
        <5>2. k - a + 1 \notin Quotes(t)
          BY <2>2, <5>1 DEF Follows
        <5> QED BY <1>4, <5>1, <5>2
      <4> QED BY <1>1, <3>1, <4>1 DEF Follows
    <3>5. s[a + i - 1] = s[a + j - 1]
      BY <1>7, <3>2, <3>3, <3>4 DEF Paired
    <3> QED BY <1>3, <3>1, <3>5
  <2> QED BY <2>1, <2>2 DEF Paired
<1>8. IsPart(C, t, s, a, e)
  BY <1>2, <1>3, <1>5, <1>6, <1>7 DEF IsPart, L
<1> QED BY <1>8 DEF t

-----------------------------------------------------------------------------
(* The words of a line.                                                    *)

\* The one space, but for one at the end of the line, between two words.
SpaceAt(t, sp) ==
    /\ sp \in Cuts(t, Space) /\ sp < Len(t)
    /\ \A j \in Cuts(t, Space) : j \in {sp, Len(t)}

LEMMA NoWords ==
    ASSUME NEW C, NEW t \in Seq(C), NEW delim \in Delimiters
    PROVE  Cardinality(Ends(t, delim)) \in Nat /\ (Cardinality(Ends(t, delim)) = 0 <=> t = <<>>)
<1>1. /\ IsFiniteSet(Ends(t, delim)) /\ Cuts(t, delim) \subseteq 1..Len(t)
      /\ Cuts(t, delim) \subseteq Ends(t, delim)
  BY EndsAre
<1>2. Ends(t, delim) = {} <=> t = <<>>
  <2>1. CASE t = <<>>
    <3>1. Len(t) = 0  BY <2>1
    <3>2. Cuts(t, delim) = {}  BY <1>1, <3>1
    <3> QED BY <2>1, <3>2 DEF Ends
  <2>2. CASE t # <<>>
    <3>1. Len(t) \in Cuts(t, delim) \/ Len(t) + 1 \in Ends(t, delim)
      BY <2>2 DEF Ends
    <3> QED BY <1>1, <2>2, <3>1
  <2> QED BY <2>1, <2>2
<1> QED BY <1>1, <1>2, FS_EmptySet, FS_CardinalityType

\* Two words, and where they are.
LEMMA SpaceParts ==
    ASSUME NEW C, NEW t \in Seq(C), NEW sp, SpaceAt(t, sp)
    PROVE  /\ sp \in 1..Len(t) /\ LastEnd(t) \in (sp + 1)..(Len(t) + 1)
           /\ Cardinality(Ends(t, Space)) = 2
           /\ Count(t, Space, sp) = 1 /\ Count(t, Space, LastEnd(t)) = 2
           /\ IsPiece(t, Space, 1, sp) /\ IsPiece(t, Space, sp + 1, LastEnd(t))
<1> DEFINE f == LastEnd(t)
           E == Ends(t, Space)
<1>0. Space \in Delimiters
  BY DEF Delimiters
<1>1. /\ IsFiniteSet(E) /\ Cuts(t, Space) \subseteq 1..Len(t) /\ Cuts(t, Space) \subseteq E
      /\ E \subseteq 1..(Len(t) + 1)
      /\ \A i \in 1..Len(t) : i \in E <=> i \in Cuts(t, Space)
  BY <1>0, EndsAre
<1>2. sp \in Cuts(t, Space) /\ sp \in 1..Len(t) /\ sp < Len(t) /\ Len(t) \in Nat
  BY <1>1 DEF SpaceAt
<1>3. f \in (sp + 1)..(Len(t) + 1) /\ (f = Len(t) \/ f = Len(t) + 1)
  BY <1>2 DEF LastEnd
<1>4. E = {sp, f}
  <2>1. t # <<>>
    BY <1>2
  <2>2. CASE Len(t) \in Cuts(t, Space)
    <3>1. E = Cuts(t, Space) /\ f = Len(t)  BY <2>2 DEF Ends, LastEnd
    <3> QED BY <1>2, <2>2, <3>1 DEF SpaceAt
  <2>3. CASE Len(t) \notin Cuts(t, Space)
    <3>1. E = Cuts(t, Space) \cup {Len(t) + 1} /\ f = Len(t) + 1
      BY <2>1, <2>3 DEF Ends, LastEnd
    <3>2. Cuts(t, Space) = {sp}  BY <1>2, <2>3 DEF SpaceAt
    <3> QED BY <3>1, <3>2
  <2> QED BY <2>2, <2>3
<1> HIDE DEF f, E
<1>5. Cardinality(E) = 2
  <2>1. IsFiniteSet({sp}) /\ Cardinality({sp}) = 1
    BY FS_Singleton
  <2>2. E = {sp} \cup {f} /\ f \notin {sp}
    BY <1>2, <1>3, <1>4
  <2>3. Cardinality(E) = Cardinality({sp}) + 1
    BY <2>1, <2>2, FS_AddElement
  <2> QED BY <2>1, <2>3
<1>6. Count(t, Space, sp) = 1 /\ Count(t, Space, f) = 2
  <2>1. sp \in E /\ f \in E /\ sp < f
    BY <1>2, <1>3, <1>4
  <2>2. /\ Count(t, Space, sp) \in 1..2 /\ Count(t, Space, f) \in 1..2
        /\ Count(t, Space, sp) < Count(t, Space, f)
    BY <1>0, <1>5, <2>1, Counts DEF E
  <2> QED BY <2>2
<1>7. IsPiece(t, Space, 1, sp)
  <2>1. \A j \in 1..(sp - 1) : j \notin Cuts(t, Space)
    BY <1>2 DEF SpaceAt
  <2> QED BY <1>2, <1>4, <2>1 DEF IsPiece, StartsAt, E
<1>8. IsPiece(t, Space, sp + 1, f)
  <2>1. \A j \in (sp + 1)..(f - 1) : j \notin Cuts(t, Space)
    <3>1. ASSUME NEW j \in (sp + 1)..(f - 1), j \in Cuts(t, Space) PROVE FALSE
      <4>1. j = Len(t) /\ j < f  BY <1>2, <1>3, <3>1 DEF SpaceAt
      <4>2. f = Len(t)  BY <3>1, <4>1 DEF LastEnd, f
      <4> QED BY <1>2, <4>1, <4>2
    <3> QED BY <3>1
  <2>2. f \in E /\ sp + 1 \in 1..f /\ (sp + 1) - 1 = sp
    BY <1>2, <1>3, <1>4
  <2> QED BY <1>2, <2>1, <2>2 DEF IsPiece, StartsAt, E
<1> QED BY <1>2, <1>3, <1>5, <1>6, <1>7, <1>8 DEF f, E

LEMMA TwoEnds ==
    ASSUME NEW C, NEW t \in Seq(C), Cardinality(Ends(t, Space)) = 2,
           NEW e \in Ends(t, Space), Count(t, Space, e) = 1,
           NEW f \in Ends(t, Space), Count(t, Space, f) = 2
    PROVE  SpaceAt(t, e)
<1>0. Space \in Delimiters
  BY DEF Delimiters
<1>1. /\ Cuts(t, Space) \subseteq 1..Len(t) /\ Cuts(t, Space) \subseteq Ends(t, Space)
      /\ Ends(t, Space) \subseteq 1..(Len(t) + 1) /\ Len(t) \in Nat
      /\ \A i \in 1..Len(t) : i \in Ends(t, Space) <=> i \in Cuts(t, Space)
  BY <1>0, EndsAre
<1>2. \A x \in Ends(t, Space) : x = e \/ x = f
  <2>1. ASSUME NEW x \in Ends(t, Space) PROVE x = e \/ x = f
    <3>1. Count(t, Space, x) \in 1..2  BY <1>0, Counts
    <3>2. Count(t, Space, x) = Count(t, Space, e) \/ Count(t, Space, x) = Count(t, Space, f)
      BY <3>1
    <3> QED BY <1>0, <3>2, Counts
  <2> QED BY <2>1
<1>3. e < f
  <2>1. f < e => Count(t, Space, f) < Count(t, Space, e)
    BY <1>0, Counts
  <2>2. e # f /\ ~(f < e)
    BY <2>1
  <2> QED BY <1>1, <2>2
<1>4. e \in 1..Len(t) /\ e \in Cuts(t, Space)
  BY <1>1, <1>3
<1>5. f = Len(t) \/ f = Len(t) + 1
  <2>1. t # <<>>
    BY <1>4
  <2>2. Len(t) \in Cuts(t, Space) \/ Len(t) + 1 \in Ends(t, Space)
    BY <2>1 DEF Ends
  <2>3. Len(t) \in Ends(t, Space) \/ Len(t) + 1 \in Ends(t, Space)
    BY <1>1, <2>2
  <2>4. e = Len(t) => f = Len(t) + 1
    BY <1>1, <1>3
  <2> QED BY <1>2, <1>4, <2>3, <2>4
<1>6. e < Len(t)
  <2>1. ASSUME e = Len(t) PROVE FALSE
    <3>1. f = Len(t) + 1  BY <1>1, <1>3, <2>1
    <3>2. Len(t) + 1 \notin Ends(t, Space)
      <4>1. Len(t) + 1 \notin Cuts(t, Space)  BY <1>1
      <4> QED BY <1>4, <2>1, <4>1 DEF Ends
    <3> QED BY <3>1, <3>2
  <2> QED BY <1>4, <2>1
<1>7. ASSUME NEW j \in Cuts(t, Space) PROVE j \in {e, Len(t)}
  <2>1. j \in 1..Len(t) /\ (j = e \/ j = f)  BY <1>1, <1>2
  <2> QED BY <1>1, <1>5, <2>1
<1> QED BY <1>4, <1>6, <1>7 DEF SpaceAt

\* The one word of a line without a space in it.
LEMMA OneEnd ==
    ASSUME NEW C, NEW t \in Seq(C), NEW sp, NameEnds(t, sp), ~SpaceAt(t, sp)
    PROVE  /\ sp \in 1..(Len(t) + 1) /\ Cardinality(Ends(t, Space)) = 1
           /\ Count(t, Space, sp) = 1 /\ ArgumentText(t, sp) = <<>>
<1>0. Space \in Delimiters
  BY DEF Delimiters
<1>1. /\ Cuts(t, Space) \subseteq 1..Len(t) /\ Cuts(t, Space) \subseteq Ends(t, Space)
      /\ Ends(t, Space) \subseteq 1..(Len(t) + 1) /\ Len(t) \in Nat
      /\ \A i \in 1..Len(t) : i \in Ends(t, Space) <=> i \in Cuts(t, Space)
  BY <1>0, EndsAre
<1>2. sp \in Ends(t, Space) /\ sp \in 1..(Len(t) + 1) /\ Cuts(t, Space) \subseteq {sp, Len(t)}
  BY <1>1 DEF NameEnds, IsPiece
<1>3. sp >= Len(t)
  <2>1. sp < Len(t) => sp \in Cuts(t, Space)
    BY <1>1, <1>2
  <2> QED BY <1>1, <1>2, <2>1 DEF SpaceAt
<1>4. Ends(t, Space) = {sp}
  <2>1. CASE Len(t) \in Cuts(t, Space)
    <3>1. Ends(t, Space) = Cuts(t, Space)  BY <2>1 DEF Ends
    <3>2. sp = Len(t)  BY <1>1, <1>2, <1>3, <3>1
    <3> QED BY <1>2, <3>1, <3>2
  <2>2. CASE Len(t) \notin Cuts(t, Space)
    <3>1. sp # Len(t)
      <4>1. sp = Len(t) => sp \in Cuts(t, Space)  BY <1>1, <1>2
      <4> QED BY <2>2, <4>1
    <3>2. sp = Len(t) + 1  BY <1>1, <1>2, <1>3, <3>1
    <3>3. Cuts(t, Space) = {}  BY <1>1, <1>2, <2>2, <3>2
    <3> QED BY <1>2, <3>2, <3>3 DEF Ends
  <2> QED BY <2>1, <2>2
<1>5. Cardinality(Ends(t, Space)) = 1
  BY <1>4, FS_Singleton
<1>6. Count(t, Space, sp) = 1
  <2>1. Count(t, Space, sp) \in 1..1
    BY <1>0, <1>2, <1>5, Counts
  <2> QED BY <2>1
<1>7. ArgumentText(t, sp) = <<>>
  <2>1. LastEnd(t) - 1 < sp + 1 /\ LastEnd(t) \in Nat
    BY <1>1, <1>2, <1>3 DEF LastEnd
  <2> QED BY <1>2, <2>1 DEF ArgumentText
<1> QED BY <1>2, <1>5, <1>6, <1>7

\* The pieces of a text, by their numbers.
LEMMA PiecesIn ==
    ASSUME NEW C, NEW s \in Seq(C), NEW delim \in Delimiters, NEW pieces \in Seq(Seq(C)),
           Len(pieces) = Cardinality(Ends(s, delim)),
           \A k \in 1..Len(pieces) : PieceNumber(k, pieces[k], s, delim)
    PROVE  /\ Pieces(pieces, s, delim)
           /\ \A k, S : PieceIn(k, S, s, delim) <=> k \in 1..Len(pieces) /\ pieces[k] \in S
<1>1. DOMAIN pieces = 1..Len(pieces) /\ Len(pieces) \in Nat
  OBVIOUS
<1>2. ASSUME NEW k \in 1..Len(pieces), NEW S, pieces[k] \in S PROVE PieceIn(k, S, s, delim)
  <2>1. PieceNumber(k, pieces[k], s, delim)
    OBVIOUS
  <2> QED BY <1>2, <2>1 DEF PieceNumber, PieceIn
<1>3. ASSUME NEW k, NEW S, PieceIn(k, S, s, delim)
      PROVE  k \in 1..Len(pieces) /\ pieces[k] \in S
  <2>1. PICK e \in Ends(s, delim) :
          /\ Count(s, delim, e) = k
          /\ \E a \in 1..e : IsPiece(s, delim, a, e) /\ SubSeq(s, a, e - 1) \in S
    BY <1>3 DEF PieceIn
  <2>2. PICK a \in 1..e : IsPiece(s, delim, a, e) /\ SubSeq(s, a, e - 1) \in S
    BY <2>1
  <2>3. k \in 1..Len(pieces)
    BY <2>1, Counts
  <2>4. PICK f \in Ends(s, delim) :
          /\ Count(s, delim, f) = k
          /\ \E b \in 1..f : IsPiece(s, delim, b, f) /\ pieces[k] = SubSeq(s, b, f - 1)
    BY <2>3 DEF PieceNumber
  <2>5. f = e
    BY <2>1, <2>4, Counts
  <2>6. PICK b \in 1..e : IsPiece(s, delim, b, e) /\ pieces[k] = SubSeq(s, b, e - 1)
    BY <2>4, <2>5
  <2>7. a = b
    BY <2>2, <2>6, PieceEnds
  <2> QED BY <2>2, <2>3, <2>6, <2>7
<1>4. Pieces(pieces, s, delim)
  <2>1. 0 + Len(pieces) = Len(pieces) /\ \A k \in 1..Len(pieces) : 0 + k = k
    BY <1>1
  <2>2. \A k \in 1..Len(pieces) : PieceIn(k, {pieces[k]}, s, delim)
    BY <1>2
  <2> QED BY <1>1, <2>1, <2>2 DEF Pieces, PiecesAfter
<1> QED BY <1>2, <1>3, <1>4

-----------------------------------------------------------------------------
(* The arguments of a line.                                                *)

IsBad(piece, inst) == piece = <<>> \/ Refused(piece, inst)

LEMMA ArgumentsAre ==
    ASSUME NEW C, NEW split, split.pieces \in Seq(Seq(C)), ~split.failed, NEW inst
    PROVE  LET unit == Arguments(split, inst)
               pieces == split.pieces
           IN /\ unit.end \in {"built", "dropped", "out_of_range"}
              /\ unit.end = "built" =>
                   /\ unit.args = pieces /\ unit.inst = inst
                   /\ \A k \in 1..Len(pieces) : ~IsBad(pieces[k], inst)
              /\ unit.end = "dropped" =>
                   \E k \in 1..Len(pieces) : pieces[k] # <<>> /\ Refused(pieces[k], inst)
              /\ unit.end = "out_of_range" <=>
                   \E k \in 1..Len(pieces) :
                       pieces[k] = <<>> /\ \A l \in 1..(k - 1) : ~IsBad(pieces[l], inst)
<1> DEFINE unit == Arguments(split, inst)
           pieces == split.pieces
           bad == {k \in DOMAIN pieces : pieces[k] = <<>> \/ Refused(pieces[k], inst)}
           first == CHOOSE k \in bad : \A l \in bad : k <= l
<1>1. Len(pieces) \in Nat /\ DOMAIN pieces = 1..Len(pieces)
  OBVIOUS
<1>2. /\ bad = {} => unit = [end |-> "built", inst |-> inst, args |-> pieces]
      /\ bad # {} => unit = [end |-> IF pieces[first] = <<>> THEN "out_of_range" ELSE "dropped"]
  BY DEF Arguments
<1>3. \A k \in 1..Len(pieces) : k \in bad <=> IsBad(pieces[k], inst)
  BY <1>1 DEF IsBad
<1>4. bad \in SUBSET Nat /\ bad \subseteq 1..Len(pieces)
  BY <1>1
<1> HIDE DEF unit, bad, pieces
<1>5. CASE bad = {}
  <2>1. unit.end = "built" /\ unit.args = pieces /\ unit.inst = inst
    BY <1>2, <1>5
  <2>2. \A k \in 1..Len(pieces) : ~IsBad(pieces[k], inst) /\ pieces[k] # <<>>
    BY <1>3, <1>5 DEF IsBad
  <2> QED BY <2>1, <2>2 DEF unit, pieces
<1>6. CASE bad # {}
  <2>1. first \in bad /\ \A l \in bad : first <= l
    <3>1. \E k \in bad : \A l \in bad : k <= l
      BY <1>4, <1>6, Least
    <3> QED BY <3>1
  <2> HIDE DEF first
  <2>2. unit.end = IF pieces[first] = <<>> THEN "out_of_range" ELSE "dropped"
    BY <1>2, <1>6
  <2>3. first \in 1..Len(pieces) /\ \A l \in 1..(first - 1) : ~IsBad(pieces[l], inst)
    <3>1. first \in 1..Len(pieces)  BY <1>4, <2>1
    <3>2. ASSUME NEW l \in 1..(first - 1), IsBad(pieces[l], inst) PROVE FALSE
      <4>1. l \in 1..Len(pieces) /\ l < first  BY <1>1, <3>1
      <4>2. l \in bad  BY <1>3, <3>2, <4>1
      <4> QED BY <2>1, <3>1, <4>1, <4>2
    <3> QED BY <3>1, <3>2
  <2>4. ASSUME NEW k \in 1..Len(pieces), pieces[k] = <<>>,
               \A l \in 1..(k - 1) : ~IsBad(pieces[l], inst)
        PROVE  k = first
    <3>1. k \in bad  BY <1>3, <2>4 DEF IsBad
    <3>2. first <= k  BY <2>1, <3>1
    <3>3. ~(first < k)  BY <1>3, <2>1, <2>3, <2>4
    <3> QED BY <2>3, <3>2, <3>3
  <2>5. (unit.end = "out_of_range") <=> pieces[first] = <<>>
    BY <2>2
  <2>6. unit.end \in {"dropped", "out_of_range"} /\ unit.end # "built"
    BY <2>2
  <2>7. IsBad(pieces[first], inst)
    BY <1>3, <2>1, <2>3
  <2>8. unit.end = "dropped" => pieces[first] # <<>> /\ Refused(pieces[first], inst)
    BY <2>2, <2>7 DEF IsBad
  <2> QED BY <2>3, <2>4, <2>5, <2>6, <2>8 DEF unit, pieces
<1> QED BY <1>5, <1>6

\* A variable that the filter takes, and an empty argument before which all
\* are such, on the text of the arguments.
Allowed(inst, name) == name # CurrentInst /\ (inst = Declare \/ name \in context)
EmptyIn(p, inst) ==
    \E i \in Cuts(p, Comma) :
        /\ StartsAt(p, Comma, i)
        /\ \A f \in Ends(p, Comma) : \A j \in 1..f :
             f < i /\ IsPiece(p, Comma, j, f) /\ p[j] = Dollar => Allowed(inst, SubSeq(p, j + 1, f - 1))

LEMMA RefusedIs ==
    ASSUME NEW C, NEW q \in Seq(C), NEW inst
    PROVE  Refused(q, inst) <=> Head(q) = Dollar /\ ~Allowed(inst, Tail(q))
BY DEF Refused, Allowed

LEMMA FirstOfPiece ==
    ASSUME NEW C, NEW p \in Seq(C), NEW a, NEW e, IsPiece(p, Comma, a, e)
    PROVE  /\ a \in 1..e /\ e \in 1..(Len(p) + 1)
           /\ SubSeq(p, a, e - 1) \in Seq(C)
           /\ SubSeq(p, a, e - 1) = <<>> <=> a = e
           /\ a < e => /\ Head(SubSeq(p, a, e - 1)) = p[a]
                       /\ Tail(SubSeq(p, a, e - 1)) = SubSeq(p, a + 1, e - 1)
                       /\ \A inst : Refused(SubSeq(p, a, e - 1), inst) <=>
                                       p[a] = Dollar /\ ~Allowed(inst, SubSeq(p, a + 1, e - 1))
<1> DEFINE q == SubSeq(p, a, e - 1)
           r == SubSeq(p, a + 1, e - 1)
<1>1. Ends(p, Comma) \subseteq 1..(Len(p) + 1) /\ Len(p) \in Nat
  BY EndsAre DEF Delimiters
<1>2. a \in 1..e /\ e \in 1..(Len(p) + 1)
  BY <1>1 DEF IsPiece
<1>3. q \in Seq(C) /\ Len(q) = e - a /\ \A i \in 1..(e - a) : q[i] = p[a + i - 1]
  BY <1>1, <1>2
<1>4. q = <<>> <=> Len(q) = 0
  <2> HIDE DEF q
  <2> QED BY <1>3
<1>5. ASSUME a < e PROVE Head(q) = p[a] /\ Tail(q) = r
  <2>1. r \in Seq(C) /\ Len(r) = e - a - 1 /\ \A i \in 1..(e - a - 1) : r[i] = p[a + i]
    BY <1>1, <1>2, <1>5
  <2> HIDE DEF q, r
  <2>2. Head(q) = q[1] /\ q[1] = p[a]
    BY <1>2, <1>3, <1>5
  <2>3. Tail(q) \in Seq(C) /\ Len(Tail(q)) = e - a - 1
        /\ \A i \in 1..(e - a - 1) : Tail(q)[i] = q[i + 1]
    BY <1>1, <1>2, <1>3, <1>5
  <2>4. \A i \in 1..(e - a - 1) : Tail(q)[i] = r[i]
    <3>1. ASSUME NEW i \in 1..(e - a - 1) PROVE Tail(q)[i] = r[i]
      <4>1. i + 1 \in 1..(e - a) /\ a + (i + 1) - 1 = a + i
        BY <1>1, <1>2, <1>5
      <4> QED BY <1>3, <2>1, <2>3, <4>1
    <3> QED BY <3>1
  <2> DEFINE u == Tail(q)
  <2>5. u = [i \in 1..(e - a - 1) |-> u[i]] /\ r = [i \in 1..(e - a - 1) |-> r[i]]
    <3>1. u \in Seq(C) /\ Len(u) = e - a - 1  BY <2>3
    <3> HIDE DEF u
    <3> QED BY <2>1, <3>1
  <2> QED BY <2>2, <2>4, <2>5
<1>6. q = <<>> <=> a = e
  BY <1>1, <1>2, <1>3, <1>4
<1> HIDE DEF q, r
<1>7. a < e => \A inst : Refused(q, inst) <=> p[a] = Dollar /\ ~Allowed(inst, r)
  BY <1>3, <1>5, RefusedIs
<1>8. /\ a \in 1..e /\ e \in 1..(Len(p) + 1) /\ q \in Seq(C) /\ (q = <<>> <=> a = e)
      /\ a < e => /\ Head(q) = p[a] /\ Tail(q) = r
                  /\ \A inst : Refused(q, inst) <=> p[a] = Dollar /\ ~Allowed(inst, r)
  BY <1>2, <1>3, <1>5, <1>6, <1>7
<1> QED BY <1>8 DEF q, r

\* The variable named by an argument that the filter takes.
LEMMA TakenName ==
    ASSUME NEW C, NEW p \in Seq(C), NEW a, NEW e, IsPiece(p, Comma, a, e), NEW inst,
           ~IsBad(SubSeq(p, a, e - 1), inst), p[a] = Dollar
    PROVE  Allowed(inst, SubSeq(p, a + 1, e - 1))
<1>1. SubSeq(p, a, e - 1) # <<>> /\ ~Refused(SubSeq(p, a, e - 1), inst)
  BY DEF IsBad
<1>2. a < e
  BY <1>1, FirstOfPiece
<1>3. Refused(SubSeq(p, a, e - 1), inst) <=> p[a] = Dollar /\ ~Allowed(inst, SubSeq(p, a + 1, e - 1))
  BY <1>2, FirstOfPiece
<1> QED BY <1>1, <1>3

\* What becomes of the text p of the arguments of inst.
IsArguments(C, unit, p, inst) ==
    /\ unit.end \in {"built", "dropped", "out_of_range"}
    /\ unit.end = "out_of_range" <=> EmptyIn(p, inst)
    /\ unit.end = "built" =>
         /\ unit.inst = inst /\ unit.args \in Seq(Seq(C))
         /\ Len(unit.args) = Cardinality(Ends(p, Comma))
         /\ Pieces(unit.args, p, Comma)
         /\ \A k, S : PieceIn(k, S, p, Comma) <=> k \in 1..Len(unit.args) /\ unit.args[k] \in S
         /\ \A n \in 1..Len(unit.args) : unit.args[n] # <<>> /\ ~Refused(unit.args[n], inst)
    /\ unit.end = "dropped" =>
         \E k \in 1..Cardinality(Ends(p, Comma)) : \E q \in Seq(C) :
             q # <<>> /\ Refused(q, inst) /\ PieceIn(k, {q}, p, Comma)

LEMMA ArgumentsOf ==
    ASSUME NEW C, NEW p \in Seq(C), Paired(p), NEW inst
    PROVE  IsArguments(C, Arguments(Split(p, Comma), inst), p, inst)
<1> DEFINE split == Split(p, Comma)
           unit == Arguments(split, inst)
           pieces == split.pieces
<1>0. Comma \in Delimiters
  BY DEF Delimiters
<1>1. IsSplit(C, split, p, Comma)
  BY <1>0, Splits
<1> HIDE DEF split
<1>2. /\ ~split.failed /\ pieces \in Seq(Seq(C)) /\ Len(pieces) = Cardinality(Ends(p, Comma))
      /\ \A k \in 1..Len(pieces) : PieceNumber(k, pieces[k], p, Comma)
  BY <1>1 DEF IsSplit
<1>3. /\ unit.end \in {"built", "dropped", "out_of_range"}
      /\ unit.end = "built" =>
           /\ unit.args = pieces /\ unit.inst = inst
           /\ \A k \in 1..Len(pieces) : ~IsBad(pieces[k], inst)
      /\ unit.end = "dropped" =>
           \E k \in 1..Len(pieces) : pieces[k] # <<>> /\ Refused(pieces[k], inst)
      /\ unit.end = "out_of_range" <=>
           \E k \in 1..Len(pieces) :
               pieces[k] = <<>> /\ \A l \in 1..(k - 1) : ~IsBad(pieces[l], inst)
  BY <1>2, ArgumentsAre
<1> HIDE DEF unit, pieces
<1>4. /\ Ends(p, Comma) \subseteq 1..(Len(p) + 1) /\ Cuts(p, Comma) \subseteq Ends(p, Comma)
      /\ Cuts(p, Comma) \subseteq 1..Len(p) /\ Len(p) \in Nat
      /\ \A i \in 1..Len(p) : i \in Ends(p, Comma) <=> i \in Cuts(p, Comma)
      /\ \A i \in Cuts(p, Comma) : p[i] = Comma
  BY <1>0, EndsAre
<1>p. /\ Pieces(pieces, p, Comma)
      /\ \A k, S : PieceIn(k, S, p, Comma) <=> k \in 1..Len(pieces) /\ pieces[k] \in S
  BY <1>0, <1>2, PiecesIn
<1>5. ASSUME NEW a, NEW e, IsPiece(p, Comma, a, e)
      PROVE  /\ Count(p, Comma, e) \in 1..Len(pieces)
             /\ pieces[Count(p, Comma, e)] = SubSeq(p, a, e - 1)
  <2>1. e \in Ends(p, Comma) /\ a \in 1..e
    BY <1>5 DEF IsPiece
  <2>2. PieceIn(Count(p, Comma, e), {SubSeq(p, a, e - 1)}, p, Comma)
    BY <1>5, <2>1 DEF PieceIn
  <2> QED BY <1>p, <2>2
<1>7. ASSUME NEW k \in 1..Len(pieces), pieces[k] = <<>>,
             \A l \in 1..(k - 1) : ~IsBad(pieces[l], inst)
      PROVE  EmptyIn(p, inst)
  <2>1. PICK e \in Ends(p, Comma) :
          /\ Count(p, Comma, e) = k
          /\ \E a \in 1..e : IsPiece(p, Comma, a, e) /\ pieces[k] = SubSeq(p, a, e - 1)
    BY <1>2, <1>7 DEF PieceNumber
  <2>2. PICK a \in 1..e : IsPiece(p, Comma, a, e) /\ pieces[k] = SubSeq(p, a, e - 1)
    BY <2>1
  <2>3. IsPiece(p, Comma, e, e)
    BY <1>7, <2>2, FirstOfPiece
  <2>4. e \in Cuts(p, Comma)
    <3>1. ASSUME e = Len(p) + 1 PROVE FALSE
      <4>1. e = 1 \/ Len(p) \in Cuts(p, Comma)
        BY <1>4, <2>3, <3>1 DEF IsPiece, StartsAt
      <4>2. p = <<>> \/ Len(p) \in Cuts(p, Comma)
        BY <1>4, <3>1, <4>1
      <4>3. e \in Cuts(p, Comma)
        BY <2>1, <4>2 DEF Ends
      <4> QED BY <1>4, <3>1, <4>3
    <3> QED BY <1>4, <3>1
  <2>5. ASSUME NEW f \in Ends(p, Comma), NEW j \in 1..f, f < e, IsPiece(p, Comma, j, f), p[j] = Dollar
        PROVE  Allowed(inst, SubSeq(p, j + 1, f - 1))
    <3>1. Count(p, Comma, f) < k /\ Count(p, Comma, f) \in 1..Len(pieces)
      BY <1>0, <1>5, <2>1, <2>5, Counts
    <3>2. Count(p, Comma, f) \in 1..(k - 1)
      BY <1>2, <3>1
    <3>3. ~IsBad(pieces[Count(p, Comma, f)], inst)
      BY <1>7, <3>2
    <3>4. pieces[Count(p, Comma, f)] = SubSeq(p, j, f - 1)
      BY <1>5, <2>5
    <3>5. ~IsBad(SubSeq(p, j, f - 1), inst)
      BY <3>3, <3>4
    <3>6. IsPiece(p, Comma, j, f) /\ p[j] = Dollar
      BY <2>5
    <3> QED BY <3>5, <3>6, TakenName
  <2> QED BY <2>3, <2>4, <2>5 DEF EmptyIn, IsPiece
<1>8. ASSUME EmptyIn(p, inst)
      PROVE  \E k \in 1..Len(pieces) :
                 pieces[k] = <<>> /\ \A l \in 1..(k - 1) : ~IsBad(pieces[l], inst)
  <2>1. PICK i \in Cuts(p, Comma) :
          /\ StartsAt(p, Comma, i)
          /\ \A f \in Ends(p, Comma) : \A j \in 1..f :
               f < i /\ IsPiece(p, Comma, j, f) /\ p[j] = Dollar => Allowed(inst, SubSeq(p, j + 1, f - 1))
    BY <1>8 DEF EmptyIn
  <2>2. IsPiece(p, Comma, i, i) /\ i \in Nat
    BY <1>4, <2>1 DEF IsPiece
  <2> DEFINE k == Count(p, Comma, i)
             bad == {l \in 1..Len(pieces) : IsBad(pieces[l], inst)}
  <2>3. k \in 1..Len(pieces) /\ pieces[k] = <<>>
    <3>1. SubSeq(p, i, i - 1) = <<>>  BY <2>2, FirstOfPiece
    <3> QED BY <1>5, <2>2, <3>1
  <2>4. k \in bad /\ bad \in SUBSET Nat
    BY <2>3 DEF IsBad
  <2>5. PICK l \in bad : \A x \in bad : l <= x
    <3> HIDE DEF bad
    <3> QED BY <2>4, Least
  <2>6. l \in 1..Len(pieces) /\ IsBad(pieces[l], inst) /\ l <= k
    BY <2>4, <2>5
  <2>7. \A x \in 1..(l - 1) : ~IsBad(pieces[x], inst)
    <3>1. ASSUME NEW x \in 1..(l - 1), IsBad(pieces[x], inst) PROVE FALSE
      <4>1. x \in bad /\ x < l  BY <2>6, <3>1
      <4> HIDE DEF bad
      <4> QED BY <2>5, <2>6, <4>1
    <3> QED BY <3>1
  <2> HIDE DEF bad, k
  <2>8. ASSUME pieces[l] # <<>> PROVE FALSE
    <3>1. Refused(pieces[l], inst) /\ l < k
      BY <2>3, <2>6, <2>8 DEF IsBad
    <3>2. PICK e \in Ends(p, Comma) :
            /\ Count(p, Comma, e) = l
            /\ \E a \in 1..e : IsPiece(p, Comma, a, e) /\ pieces[l] = SubSeq(p, a, e - 1)
      BY <1>2, <2>6 DEF PieceNumber
    <3>3. PICK a \in 1..e : IsPiece(p, Comma, a, e) /\ pieces[l] = SubSeq(p, a, e - 1)
      BY <3>2
    <3>4. e < i
      <4>1. i \in Ends(p, Comma) /\ e \in Nat  BY <1>4, <2>1
      <4>2. i < e => k < l  BY <1>0, <3>2, <4>1, Counts DEF k
      <4>3. i = e => k = l  BY <3>2 DEF k
      <4> QED BY <2>2, <2>3, <2>6, <3>1, <4>1, <4>2, <4>3
    <3>5. a < e
      BY <2>8, <3>3, FirstOfPiece
    <3>6. /\ pieces[l] \in Seq(C) /\ Head(pieces[l]) = p[a]
          /\ Tail(pieces[l]) = SubSeq(p, a + 1, e - 1)
      BY <3>3, <3>5, FirstOfPiece
    <3>7. p[a] = Dollar /\ ~Allowed(inst, SubSeq(p, a + 1, e - 1))
      BY <3>1, <3>6, RefusedIs
    <3> QED BY <2>1, <3>3, <3>4, <3>7
  <2> QED BY <2>6, <2>7, <2>8
<1>9. ASSUME unit.end = "built"
      PROVE  /\ unit.inst = inst /\ unit.args = pieces
             /\ \A n \in 1..Len(pieces) : pieces[n] # <<>> /\ ~Refused(pieces[n], inst)
  BY <1>3, <1>9 DEF IsBad
<1>10. ASSUME unit.end = "dropped"
       PROVE  \E k \in 1..Cardinality(Ends(p, Comma)) : \E q \in Seq(C) :
                  q # <<>> /\ Refused(q, inst) /\ PieceIn(k, {q}, p, Comma)
  <2>1. PICK k \in 1..Len(pieces) : pieces[k] # <<>> /\ Refused(pieces[k], inst)
    BY <1>3, <1>10
  <2>2. pieces[k] \in Seq(C) /\ PieceIn(k, {pieces[k]}, p, Comma)
    BY <1>2, <1>p, <2>1
  <2> QED BY <1>2, <2>1, <2>2
<1>11. (unit.end = "out_of_range") <=> EmptyIn(p, inst)
  BY <1>3, <1>7, <1>8
<1>12. unit.end = "built" =>
         /\ unit.inst = inst /\ unit.args \in Seq(Seq(C))
         /\ Len(unit.args) = Cardinality(Ends(p, Comma))
         /\ Pieces(unit.args, p, Comma)
         /\ \A k, S : PieceIn(k, S, p, Comma) <=> k \in 1..Len(unit.args) /\ unit.args[k] \in S
         /\ \A n \in 1..Len(unit.args) : unit.args[n] # <<>> /\ ~Refused(unit.args[n], inst)
  BY <1>2, <1>9, <1>p
<1> QED BY <1>3, <1>10, <1>11, <1>12 DEF IsArguments, unit, split

-----------------------------------------------------------------------------
(* What parseUnit() makes of a line.                                       *)

LEMMA WordsOf ==
    ASSUME NEW C, NEW t \in Seq(C), Paired(t)
    PROVE  LET split == Split(t, Space)
               words == split.pieces
           IN /\ ~split.failed /\ words \in Seq(Seq(C)) /\ (Len(words) = 0 <=> t = <<>>)
              /\ Len(words) \in 1..2 => \E sp : NameEnds(t, sp)
              /\ \A sp : NameEnds(t, sp) =>
                   /\ sp \in 1..(Len(t) + 1)
                   /\ Len(words) \in 1..2 /\ words[1] = Name(t, sp)
                   /\ ArgumentText(t, sp) = IF Len(words) = 2 THEN words[2] ELSE <<>>
<1> DEFINE split == Split(t, Space)
           words == split.pieces
<1>0. Space \in Delimiters
  BY DEF Delimiters
<1>1. IsSplit(C, split, t, Space)
  BY <1>0, Splits
<1> HIDE DEF split
<1>2. /\ ~split.failed /\ words \in Seq(Seq(C)) /\ Len(words) = Cardinality(Ends(t, Space))
      /\ \A k \in 1..Len(words) : PieceNumber(k, words[k], t, Space)
  BY <1>1 DEF IsSplit
<1> HIDE DEF words
<1>3. Len(words) = 0 <=> t = <<>>
  BY <1>0, <1>2, NoWords
<1>4. ASSUME Len(words) = 2 PROVE \E sp : NameEnds(t, sp)
  <2>1. PieceNumber(1, words[1], t, Space) /\ PieceNumber(2, words[2], t, Space)
    BY <1>2, <1>4
  <2>2. PICK e \in Ends(t, Space) : Count(t, Space, e) = 1
    BY <2>1 DEF PieceNumber
  <2>3. PICK f \in Ends(t, Space) : Count(t, Space, f) = 2
    BY <2>1 DEF PieceNumber
  <2>4. SpaceAt(t, e)
    BY <1>2, <1>4, <2>2, <2>3, TwoEnds
  <2>5. IsPiece(t, Space, 1, e)
    BY <2>4, SpaceParts
  <2> QED BY <2>4, <2>5 DEF NameEnds, SpaceAt
<1>5. ASSUME Len(words) = 1 PROVE \E sp : NameEnds(t, sp)
  <2>1. /\ Cuts(t, Space) \subseteq Ends(t, Space) /\ Ends(t, Space) \subseteq 1..(Len(t) + 1)
        /\ Len(t) \in Nat
    BY <1>0, EndsAre
  <2>2. PICK e \in Ends(t, Space) : Count(t, Space, e) = 1
    BY <1>2, <1>5 DEF PieceNumber
  <2>3. ASSUME NEW x \in Ends(t, Space) PROVE x = e
    <3>1. Count(t, Space, x) \in 1..1
      BY <1>0, <1>2, <1>5, Counts
    <3>2. Count(t, Space, x) = Count(t, Space, e)
      BY <2>2, <3>1
    <3> QED BY <1>0, <3>2, Counts
  <2>4. IsPiece(t, Space, 1, e)
    <3>1. e \in Nat /\ 1 \in 1..e /\ \A j \in 1..(e - 1) : j \notin Cuts(t, Space)
      BY <2>1, <2>3
    <3> QED BY <3>1 DEF IsPiece, StartsAt
  <2> QED BY <2>1, <2>3, <2>4 DEF NameEnds
<1>6. ASSUME NEW k \in 1..Len(words), NEW a, NEW e, IsPiece(t, Space, a, e), Count(t, Space, e) = k
      PROVE  words[k] = SubSeq(t, a, e - 1)
  <2>1. PICK f \in Ends(t, Space) :
          /\ Count(t, Space, f) = k
          /\ \E b \in 1..f : IsPiece(t, Space, b, f) /\ words[k] = SubSeq(t, b, f - 1)
    BY <1>2 DEF PieceNumber
  <2>2. f = e
    BY <1>0, <1>6, <2>1, Counts DEF IsPiece
  <2>3. PICK b \in 1..e : IsPiece(t, Space, b, e) /\ words[k] = SubSeq(t, b, e - 1)
    BY <2>1, <2>2
  <2>4. a = b
    BY <1>0, <1>6, <2>3, PieceEnds
  <2> QED BY <2>3, <2>4
<1>7. ASSUME NEW sp, NameEnds(t, sp)
      PROVE  /\ sp \in 1..(Len(t) + 1)
             /\ Len(words) \in 1..2 /\ words[1] = Name(t, sp)
             /\ ArgumentText(t, sp) = IF Len(words) = 2 THEN words[2] ELSE <<>>
  <2>0. IsPiece(t, Space, 1, sp)
    BY <1>7 DEF NameEnds
  <2>1. CASE SpaceAt(t, sp)
    <3>1. /\ Cardinality(Ends(t, Space)) = 2 /\ sp \in 1..Len(t)
          /\ Count(t, Space, sp) = 1 /\ Count(t, Space, LastEnd(t)) = 2
          /\ IsPiece(t, Space, sp + 1, LastEnd(t))
      BY <2>1, SpaceParts
    <3>2. 1 \in 1..Len(words) /\ 2 \in 1..Len(words) /\ Len(words) = 2
      BY <1>2, <3>1
    <3>3. words[1] = SubSeq(t, 1, sp - 1) /\ words[2] = SubSeq(t, sp + 1, LastEnd(t) - 1)
      BY <1>6, <2>0, <3>1, <3>2
    <3> QED BY <3>1, <3>2, <3>3 DEF Name, ArgumentText
  <2>2. CASE ~SpaceAt(t, sp)
    <3>1. /\ sp \in 1..(Len(t) + 1) /\ Cardinality(Ends(t, Space)) = 1
          /\ Count(t, Space, sp) = 1 /\ ArgumentText(t, sp) = <<>>
      BY <1>7, <2>2, OneEnd
    <3>2. 1 \in 1..Len(words) /\ Len(words) = 1
      BY <1>2, <3>1
    <3>3. words[1] = SubSeq(t, 1, sp - 1)
      BY <1>6, <2>0, <3>1, <3>2
    <3> QED BY <3>1, <3>2, <3>3 DEF Name
  <2> QED BY <2>1, <2>2
<1>8. Len(words) \in 1..2 => \E sp : NameEnds(t, sp)
  BY <1>4, <1>5
<1> QED BY <1>2, <1>3, <1>7, <1>8 DEF words, split

\* The text of the arguments is a part of the line, so its quotes pair up.
LEMMA TextOfArguments ==
    ASSUME NEW C, NEW t \in Seq(C), Paired(t), NEW sp, NameEnds(t, sp)
    PROVE  ArgumentText(t, sp) \in Seq(C) /\ Paired(ArgumentText(t, sp))
<1>1. CASE SpaceAt(t, sp)
  <2>1. IsPiece(t, Space, sp + 1, LastEnd(t))
    BY <1>1, SpaceParts
  <2>2. /\ sp + 1 \in 1..(Len(t) + 1) /\ LastEnd(t) \in (sp + 1)..(Len(t) + 1)
        /\ Free(t, sp + 1) /\ Free(t, LastEnd(t))
    BY <2>1, PieceFree DEF Delimiters
  <2>3. IsPart(C, SubSeq(t, sp + 1, LastEnd(t) - 1), t, sp + 1, LastEnd(t))
    BY <2>2, Parts
  <2> QED BY <2>3 DEF IsPart, ArgumentText
<1>2. CASE ~SpaceAt(t, sp)
  <2>1. ArgumentText(t, sp) = <<>>
    BY <1>2, OneEnd
  <2>2. Quotes(<<>>) = {} /\ Free(<<>>, Len(<<>>) + 1)
    <3>1. <<>> \in Seq(C) /\ Len(<<>>) + 1 = 1 /\ Quotes(<<>>) = {}  BY DEF Quotes
    <3>2. Free(<<>>, 1)  BY <3>1, FreeStep
    <3> QED BY <3>1, <3>2
  <2> QED BY <2>1, <2>2 DEF Paired
<1> QED BY <1>1, <1>2

\* An instruction whose arguments have an empty one that is reached.
FindsEmpty(t) == \E sp : Calls(t, sp) /\ EmptyIn(ArgumentText(t, sp), Name(t, sp))

IsUnit(C, unit, t) ==
    /\ unit.end \in {"undefined", "built", "dropped", "out_of_range"}
    /\ unit.end = "undefined" <=> t = <<>>
    /\ unit.end = "out_of_range" <=> FindsEmpty(t)
    /\ unit.end = "built" =>
         /\ unit.args \in Seq(Seq(C))
         /\ \A n \in DOMAIN unit.args : unit.args[n] # <<>> /\ ~Refused(unit.args[n], unit.inst)
         /\ \E sp \in 1..(Len(t) + 1) :
              /\ Calls(t, sp) /\ unit.inst = Name(t, sp)
              /\ Pieces(unit.args, ArgumentText(t, sp), Comma)
              /\ Len(unit.args) = Cardinality(Ends(ArgumentText(t, sp), Comma))
         /\ Declared(unit) \subseteq Seq(C)
    /\ unit.end \in {"built", "dropped"} =>
         \A name \in Seq(C) : Declares(t, name) <=> unit.end = "built" /\ name \in Declared(unit)

\* The variable that an argument names.
LEMMA Dollars ==
    ASSUME NEW C, NEW q \in Seq(C), q # <<>>, NEW D, NEW name \in Seq(D)
    PROVE  q = <<Dollar>> \o name <=> Head(q) = Dollar /\ Tail(q) = name
<1> DEFINE r == <<Dollar>> \o name
           u == Tail(q)
<1>1. /\ Len(r) = Len(name) + 1 /\ DOMAIN r = 1..(Len(name) + 1) /\ r[1] = Dollar
      /\ \A i \in 1..Len(name) : r[i + 1] = name[i]
      /\ Len(name) \in Nat
  OBVIOUS
<1>2. /\ Len(q) \in Nat /\ Len(q) >= 1 /\ Head(q) = q[1] /\ u \in Seq(C)
      /\ Len(u) = Len(q) - 1 /\ \A i \in 1..Len(u) : u[i] = q[i + 1]
  OBVIOUS
<1>3. r \in Seq(D \cup {Dollar})
  <2>1. <<Dollar>> \in Seq(D \cup {Dollar}) /\ name \in Seq(D \cup {Dollar})
    OBVIOUS
  <2> QED BY <2>1
<1> HIDE DEF r, u
<1>4. ASSUME q = r PROVE Head(q) = Dollar /\ u = name
  <2>1. Len(u) = Len(name) /\ \A i \in 1..Len(u) : u[i] = name[i]
    BY <1>1, <1>2, <1>4
  <2>2. u = [i \in 1..Len(u) |-> u[i]] /\ name = [i \in 1..Len(name) |-> name[i]]
    BY <1>2
  <2>3. u = name
    BY <2>1, <2>2
  <2> QED BY <1>1, <1>2, <1>4, <2>3
<1>5. ASSUME Head(q) = Dollar, u = name PROVE q = r
  <2>1. Len(q) = Len(r) /\ Len(r) \in Nat
    BY <1>1, <1>2, <1>5
  <2>2. ASSUME NEW i \in 1..Len(q) PROVE q[i] = r[i]
    <3>1. CASE i = 1  BY <1>1, <1>2, <1>5, <3>1
    <3>2. CASE i # 1
      <4>1. i - 1 \in 1..Len(name) /\ (i - 1) + 1 = i  BY <1>2, <1>5, <3>2
      <4>2. u[i - 1] = q[i]  BY <1>2, <1>5, <4>1
      <4>3. r[i] = name[i - 1]  BY <1>1, <4>1
      <4> QED BY <1>5, <4>2, <4>3
    <3> QED BY <3>1, <3>2
  <2>3. q = [i \in 1..Len(q) |-> q[i]] /\ r = [i \in 1..Len(r) |-> r[i]]
    BY <1>3
  <2> QED BY <2>1, <2>2, <2>3
<1> QED BY <1>4, <1>5 DEF r, u

\* What VAR declares, from the arguments it was given.
LEMMA DeclaredIs ==
    ASSUME NEW C, NEW unit, unit.args \in Seq(Seq(C)), NEW p, NEW name \in Seq(C),
           \A k, S : PieceIn(k, S, p, Comma) <=> k \in 1..Len(unit.args) /\ unit.args[k] \in S,
           \A n \in 1..Len(unit.args) : unit.args[n] # <<>> /\ ~Refused(unit.args[n], unit.inst)
    PROVE  /\ name \in Declared(unit) <=>
                /\ unit.inst = Declare
                /\ PieceIn(1, {<<Dollar>> \o name}, p, Comma)
                /\ PieceIn(2, Keywords, p, Comma) /\ PieceIn(3, Literals, p, Comma)
           /\ \A k : ~PieceIn(k, {<<Dollar>> \o CurrentInst}, p, Comma)
<1> DEFINE A == unit.args
<1>0. A \in Seq(Seq(C)) /\ Len(A) \in Nat
  OBVIOUS
<1> HIDE DEF A
<1>1. \A k \in 1..Len(A) : A[k] \in Seq(C) /\ A[k] # <<>> /\ ~Refused(A[k], unit.inst)
  BY <1>0 DEF A
<1>2. \A k, S : PieceIn(k, S, p, Comma) <=> k \in 1..Len(A) /\ A[k] \in S
  BY DEF A
<1>3. ASSUME NEW k, PieceIn(k, {<<Dollar>> \o CurrentInst}, p, Comma) PROVE FALSE
  <2>1. k \in 1..Len(A) /\ A[k] = <<Dollar>> \o CurrentInst
    BY <1>2, <1>3
  <2>2. A[k] \in Seq(C) /\ A[k] # <<>> /\ ~Refused(A[k], unit.inst)
    BY <1>1, <2>1
  <2>3. Head(A[k]) = Dollar /\ Tail(A[k]) = CurrentInst
    BY <2>1, <2>2, Dollars, TokeniserAssumption
  <2> QED BY <2>2, <2>3 DEF Refused
<1>4. name \in Declared(unit) <=>
        /\ unit.inst = Declare /\ Len(A) >= 3 /\ Head(A[1]) = Dollar
        /\ A[2] \in Keywords /\ A[3] \in Literals /\ Tail(A[1]) = name
  BY DEF Declared, A
<1>5. PieceIn(2, Keywords, p, Comma) <=> 2 \in 1..Len(A) /\ A[2] \in Keywords
  BY <1>2
<1>6. PieceIn(3, Literals, p, Comma) <=> 3 \in 1..Len(A) /\ A[3] \in Literals
  BY <1>2
<1>7. PieceIn(1, {<<Dollar>> \o name}, p, Comma) <=> 1 \in 1..Len(A) /\ A[1] = <<Dollar>> \o name
  BY <1>2
<1>8. 1 \in 1..Len(A) => (A[1] = <<Dollar>> \o name <=> Head(A[1]) = Dollar /\ Tail(A[1]) = name)
  BY <1>1, Dollars
<1>9. (3 \in 1..Len(A) <=> Len(A) >= 3) /\ (Len(A) >= 3 => 1 \in 1..Len(A) /\ 2 \in 1..Len(A))
  BY <1>0
<1> QED BY <1>3, <1>4, <1>5, <1>6, <1>7, <1>8, <1>9

LEMMA Units ==
    ASSUME NEW C, NEW t \in Seq(C), Paired(t)
    PROVE  IsUnit(C, ParseUnit(t), t)
<1> DEFINE split == Split(t, Space)
           words == split.pieces
           unit == ParseUnit(t)
<1>1. /\ ~split.failed /\ words \in Seq(Seq(C)) /\ (Len(words) = 0 <=> t = <<>>)
      /\ Len(words) \in 1..2 => \E sp : NameEnds(t, sp)
      /\ \A sp : NameEnds(t, sp) =>
           /\ sp \in 1..(Len(t) + 1)
           /\ Len(words) \in 1..2 /\ words[1] = Name(t, sp)
           /\ ArgumentText(t, sp) = IF Len(words) = 2 THEN words[2] ELSE <<>>
  BY WordsOf
<1>2. Len(words) \in Nat
  BY <1>1
<1> DEFINE p == IF Len(words) = 2 THEN words[2] ELSE <<>>
           inst == words[1]
           named == Len(words) \in 1..2 /\ inst \in Instructions
<1>3. /\ Len(words) = 0 => unit = [end |-> "undefined"]
      /\ named => unit = Arguments(Split(p, Comma), inst)
      /\ Len(words) # 0 /\ ~named => unit = [end |-> "dropped"]
  <2>1. CASE Len(words) = 0
    BY <1>1, <2>1 DEF ParseUnit
  <2>2. CASE named
    <3>1. Len(words) # 0  BY <1>2, <2>2
    <3> QED BY <1>1, <2>2, <3>1 DEF ParseUnit
  <2>3. CASE Len(words) # 0 /\ ~named
    BY <1>1, <2>3 DEF ParseUnit
  <2> QED BY <1>2, <2>1, <2>2, <2>3
<1> HIDE DEF split, words, unit
<1> SUFFICES IsUnit(C, unit, t)
  BY DEF unit
<1>4. ASSUME NEW sp, Calls(t, sp) PROVE named
  BY <1>1, <1>4 DEF Calls
<1>5. CASE ~named
  <2>1. \A sp : ~Calls(t, sp)
    BY <1>4, <1>5
  <2>2. ~FindsEmpty(t) /\ \A name : ~Declares(t, name)
    BY <2>1 DEF FindsEmpty, Declares
  <2>3. CASE Len(words) = 0
    <3>1. unit.end = "undefined" /\ t = <<>>
      BY <1>1, <1>3, <2>3
    <3> QED BY <2>2, <3>1 DEF IsUnit
  <2>4. CASE Len(words) # 0
    <3>1. unit.end = "dropped" /\ t # <<>>
      BY <1>1, <1>3, <1>5, <2>4
    <3> QED BY <2>2, <3>1 DEF IsUnit
  <2> QED BY <2>3, <2>4
<1>6. CASE named
  <2>1. PICK sp : NameEnds(t, sp)
    BY <1>1, <1>6
  <2>2. /\ sp \in 1..(Len(t) + 1) /\ inst = Name(t, sp) /\ p = ArgumentText(t, sp)
        /\ Calls(t, sp)
    BY <1>1, <1>6, <2>1 DEF Calls
  <2>3. p \in Seq(C) /\ Paired(p)
    BY <2>1, <2>2, TextOfArguments
  <2>4. t # <<>> /\ unit = Arguments(Split(p, Comma), inst)
    BY <1>1, <1>2, <1>3, <1>6
  <2>5. \A q : Calls(t, q) => Name(t, q) = inst /\ ArgumentText(t, q) = p
    BY <1>1 DEF Calls
  <2> HIDE DEF p, inst, named
  <2>6. /\ unit.end \in {"built", "dropped", "out_of_range"}
        /\ unit.end = "out_of_range" <=> EmptyIn(p, inst)
        /\ unit.end = "built" =>
             /\ unit.inst = inst /\ unit.args \in Seq(Seq(C))
             /\ Len(unit.args) = Cardinality(Ends(p, Comma))
             /\ Pieces(unit.args, p, Comma)
             /\ \A k, S : PieceIn(k, S, p, Comma) <=> k \in 1..Len(unit.args) /\ unit.args[k] \in S
             /\ \A n \in 1..Len(unit.args) : unit.args[n] # <<>> /\ ~Refused(unit.args[n], inst)
        /\ unit.end = "dropped" =>
             \E k \in 1..Cardinality(Ends(p, Comma)) : \E q \in Seq(C) :
                 q # <<>> /\ Refused(q, inst) /\ PieceIn(k, {q}, p, Comma)
    <3>1. IsArguments(C, unit, p, inst)
      BY <2>3, <2>4, ArgumentsOf
    <3> QED BY <3>1 DEF IsArguments
  <2>7. FindsEmpty(t) <=> EmptyIn(p, inst)
    BY <2>2, <2>5 DEF FindsEmpty
  <2>8. ASSUME NEW name
        PROVE  Declares(t, name) <=>
                 /\ inst = Declare
                 /\ PieceIn(1, {<<Dollar>> \o name}, p, Comma)
                 /\ PieceIn(2, Keywords, p, Comma) /\ PieceIn(3, Literals, p, Comma)
                 /\ \A k \in 1..Cardinality(Ends(p, Comma)) :
                      ~PieceIn(k, {<<Dollar>> \o CurrentInst}, p, Comma)
    BY <2>2, <2>5 DEF Declares
  <2>9. CASE unit.end = "built"
    <3>1. /\ unit.inst = inst /\ unit.args \in Seq(Seq(C))
          /\ DOMAIN unit.args = 1..Len(unit.args)
          /\ \A n \in 1..Len(unit.args) : unit.args[n] # <<>> /\ ~Refused(unit.args[n], unit.inst)
      BY <2>6, <2>9
    <3>2. ASSUME NEW name \in Seq(C) PROVE Declares(t, name) <=> name \in Declared(unit)
      <4>1. /\ name \in Declared(unit) <=>
                 /\ unit.inst = Declare
                 /\ PieceIn(1, {<<Dollar>> \o name}, p, Comma)
                 /\ PieceIn(2, Keywords, p, Comma) /\ PieceIn(3, Literals, p, Comma)
            /\ \A k : ~PieceIn(k, {<<Dollar>> \o CurrentInst}, p, Comma)
        BY <2>6, <2>9, <3>1, DeclaredIs
      <4> QED BY <2>8, <3>1, <4>1
    <3>3. Declared(unit) \subseteq Seq(C)
      <4>1. CASE Len(unit.args) >= 3
        <5>1. unit.args[1] \in Seq(C) /\ unit.args[1] # <<>>
          BY <3>1, <4>1
        <5>2. Tail(unit.args[1]) \in Seq(C)
          BY <5>1
        <5> QED BY <5>2 DEF Declared
      <4>2. CASE ~(Len(unit.args) >= 3)
        BY <4>2 DEF Declared
      <4> QED BY <4>1, <4>2
    <3>4. unit.end # "dropped" /\ unit.end # "undefined" /\ unit.end # "out_of_range"
      BY <2>9
    <3>5. \E s \in 1..(Len(t) + 1) :
            /\ Calls(t, s) /\ unit.inst = Name(t, s)
            /\ Pieces(unit.args, ArgumentText(t, s), Comma)
            /\ Len(unit.args) = Cardinality(Ends(ArgumentText(t, s), Comma))
      BY <2>2, <2>6, <2>9
    <3> QED BY <2>4, <2>6, <2>7, <2>9, <3>1, <3>2, <3>3, <3>4, <3>5 DEF IsUnit
  <2>10. CASE unit.end = "dropped"
    <3>1. PICK k \in 1..Cardinality(Ends(p, Comma)), q \in Seq(C) :
             q # <<>> /\ Refused(q, inst) /\ PieceIn(k, {q}, p, Comma)
      BY <2>6, <2>10
    <3>2. ASSUME NEW name, Declares(t, name) PROVE FALSE
      <4>1. inst = Declare
        BY <2>8, <3>2
      <4>2. Head(q) = Dollar /\ Tail(q) = CurrentInst
        BY <3>1, <4>1 DEF Refused
      <4>3. q = <<Dollar>> \o CurrentInst
        BY <3>1, <4>2, Dollars, TokeniserAssumption
      <4>4. PieceIn(k, {<<Dollar>> \o CurrentInst}, p, Comma)
        BY <3>1, <4>3
      <4> QED BY <2>8, <3>2, <4>4
    <3> QED BY <2>4, <2>6, <2>7, <2>10, <3>2 DEF IsUnit
  <2>11. CASE unit.end = "out_of_range"
    BY <2>4, <2>6, <2>7, <2>11 DEF IsUnit
  <2> QED BY <2>6, <2>9, <2>10, <2>11
<1> QED BY <1>5, <1>6

-----------------------------------------------------------------------------
(* The same on the text that the line is of.                               *)

LEMMA Lines ==
    ASSUME text \in Seq(Chars), Paired(text), NEW a, NEW e, IsLine(a, e)
    PROVE  /\ a \in 1..e /\ e \in Ends(text, Newline) /\ e \in a..(Len(text) + 1)
           /\ a \in 1..(Len(text) + 1) /\ Len(text) \in Nat
           /\ Line(a, e) \in Seq(Chars) /\ Len(Line(a, e)) = e - a /\ Paired(Line(a, e))
           /\ Line(a, e) = <<>> <=> a = e
<1>1. /\ a \in 1..(Len(text) + 1) /\ e \in a..(Len(text) + 1) /\ Free(text, a) /\ Free(text, e)
      /\ a \in 1..e /\ e \in Ends(text, Newline) /\ Len(text) \in Nat
  BY PieceFree DEF Delimiters, IsLine, IsPiece
<1>2. IsPart(Chars, Line(a, e), text, a, e)
  BY <1>1, Parts DEF Line
<1>3. /\ Line(a, e) \in Seq(Chars) /\ Len(Line(a, e)) = e - a /\ Paired(Line(a, e))
  BY <1>2 DEF IsPart
<1>4. Line(a, e) = <<>> <=> a = e
  BY <1>1, <1>3
<1> QED BY <1>1, <1>3, <1>4

\* The context is what the lines above declare.
ContextAt(e) == \A name \in Seq(Chars) : name \in context <=> DeclaredAbove(e, name)

LEMMA EmptyArguments ==
    ASSUME text \in Seq(Chars), Paired(text), NEW a, NEW e, IsLine(a, e), ContextAt(e)
    PROVE  FindsEmpty(Line(a, e)) <=> EmptyArgument(a, e)
<1> DEFINE t == Line(a, e)
<1>1. /\ a \in 1..e /\ e \in a..(Len(text) + 1) /\ Len(text) \in Nat
      /\ t \in Seq(Chars) /\ Len(t) = e - a /\ Paired(t)
  BY Lines
<1> HIDE DEF t
<1>2. ASSUME NEW sp, Calls(t, sp)
      PROVE  /\ sp \in 1..(Len(text) + 1)
             /\ EmptyIn(ArgumentText(t, sp), Name(t, sp)) <=>
                  \E i \in 1..Len(ArgumentText(t, sp)) : EmptyAt(ArgumentText(t, sp), i, e, Name(t, sp))
  <2> DEFINE p == ArgumentText(t, sp)
             inst == Name(t, sp)
  <2>1. NameEnds(t, sp)
    BY <1>2 DEF Calls
  <2>2. p \in Seq(Chars) /\ sp \in 1..(Len(t) + 1)
    BY <1>1, <2>1, TextOfArguments, WordsOf
  <2>3. sp \in 1..(Len(text) + 1)
    BY <1>1, <2>2
  <2> HIDE DEF p, inst
  <2>4. /\ Cuts(p, Comma) \subseteq 1..Len(p)
        /\ Ends(p, Comma) \subseteq 1..(Len(p) + 1) /\ Len(p) \in Nat
    BY <2>2, EndsAre DEF Delimiters
  <2>5. ASSUME NEW f \in Ends(p, Comma), NEW j \in 1..f
        PROVE  Allowed(inst, SubSeq(p, j + 1, f - 1)) <=> Known(e, inst, SubSeq(p, j + 1, f - 1))
    <3>1. SubSeq(p, j + 1, f - 1) \in Seq(Chars)
      BY <2>2, <2>4
    <3> QED BY <3>1 DEF Allowed, Known, ContextAt
  <2>6. ASSUME NEW i
        PROVE  EmptyAt(p, i, e, inst) <=>
                 /\ i \in Cuts(p, Comma) /\ StartsAt(p, Comma, i)
                 /\ \A f \in Ends(p, Comma) : \A j \in 1..f :
                      f < i /\ IsPiece(p, Comma, j, f) /\ p[j] = Dollar
                        => Allowed(inst, SubSeq(p, j + 1, f - 1))
    BY <2>5 DEF EmptyAt
  <2>7. EmptyIn(p, inst) <=> \E i \in 1..Len(p) : EmptyAt(p, i, e, inst)
    BY <2>4, <2>6 DEF EmptyIn
  <2> QED BY <2>3, <2>7 DEF p, inst
<1>3. FindsEmpty(t) => EmptyArgument(a, e)
  <2>1. SUFFICES ASSUME FindsEmpty(t) PROVE EmptyArgument(a, e)
    OBVIOUS
  <2>2. PICK sp : Calls(t, sp) /\ EmptyIn(ArgumentText(t, sp), Name(t, sp))
    BY <2>1 DEF FindsEmpty
  <2>3. /\ sp \in 1..(Len(text) + 1)
        /\ \E i \in 1..Len(ArgumentText(t, sp)) : EmptyAt(ArgumentText(t, sp), i, e, Name(t, sp))
    BY <1>2, <2>2
  <2> QED BY <2>2, <2>3 DEF EmptyArgument, t
<1>4. EmptyArgument(a, e) => FindsEmpty(t)
  <2>1. SUFFICES ASSUME EmptyArgument(a, e) PROVE FindsEmpty(t)
    OBVIOUS
  <2>2. PICK sp \in 1..(Len(text) + 1) :
          /\ Calls(t, sp)
          /\ \E i \in 1..Len(ArgumentText(t, sp)) : EmptyAt(ArgumentText(t, sp), i, e, Name(t, sp))
    BY <2>1 DEF EmptyArgument, t
  <2> QED BY <1>2, <2>2 DEF FindsEmpty
<1> QED BY <1>3, <1>4 DEF t


\* The arguments of an instruction's line, as ArgumentsWhole states them.
StandInText(arguments) ==
    \E e \in Ends(text, Newline) : \E a \in 1..e : \E sp \in 1..(Len(text) + 1) :
        /\ IsLine(a, e) /\ Calls(Line(a, e), sp)
        /\ Pieces(arguments, ArgumentText(Line(a, e), sp), Comma)
        /\ \A n \in DOMAIN arguments :
             /\ arguments[n] # <<>>
             /\ arguments[n][1] = Dollar => Known(e, Name(Line(a, e), sp), Tail(arguments[n]))

LEMMA ArgumentsStand ==
    ASSUME text \in Seq(Chars), Paired(text), NEW a, NEW e, IsLine(a, e), ContextAt(e),
           NEW unit, IsUnit(Chars, unit, Line(a, e)), unit.end = "built"
    PROVE  /\ unit.args \in Seq(Seq(Chars)) /\ StandInText(unit.args)
           /\ Len(unit.args) < Arity[unit.inst] => ShortLine(a, e)
<1> DEFINE t == Line(a, e)
           A == unit.args
<1>1. /\ a \in 1..e /\ e \in Ends(text, Newline) /\ e \in a..(Len(text) + 1)
      /\ Len(text) \in Nat /\ t \in Seq(Chars) /\ Len(t) = e - a
  BY Lines
<1>2. /\ A \in Seq(Seq(Chars))
      /\ \A n \in DOMAIN A : A[n] # <<>> /\ ~Refused(A[n], unit.inst)
      /\ \E sp \in 1..(Len(t) + 1) :
           /\ Calls(t, sp) /\ unit.inst = Name(t, sp)
           /\ Pieces(A, ArgumentText(t, sp), Comma)
           /\ Len(A) = Cardinality(Ends(ArgumentText(t, sp), Comma))
  BY DEF IsUnit
<1> HIDE DEF A, t
<1>3. PICK sp \in 1..(Len(t) + 1) :
        /\ Calls(t, sp) /\ unit.inst = Name(t, sp)
        /\ Pieces(A, ArgumentText(t, sp), Comma)
        /\ Len(A) = Cardinality(Ends(ArgumentText(t, sp), Comma))
  BY <1>2
<1>4. sp \in 1..(Len(text) + 1)
  BY <1>1, <1>3
<1>5. ASSUME NEW n \in DOMAIN A, A[n][1] = Dollar PROVE Known(e, unit.inst, Tail(A[n]))
  <2>1. PICK q \in Seq(Chars) : q = A[n]
    BY <1>2
  <2>2. q # <<>> /\ ~Refused(q, unit.inst)
    BY <1>2, <2>1
  <2>3. Head(q) = Dollar /\ Tail(q) \in Seq(Chars)
    BY <1>5, <2>1, <2>2
  <2>4. Allowed(unit.inst, Tail(q))
    BY <2>2, <2>3, RefusedIs
  <2> QED BY <2>1, <2>3, <2>4 DEF Allowed, Known, ContextAt
<1>6. StandInText(A)
  BY <1>1, <1>2, <1>3, <1>4, <1>5 DEF StandInText, t
<1>7. Len(A) < Arity[unit.inst] => ShortLine(a, e)
  BY <1>3, <1>4 DEF ShortLine, t
<1> QED BY <1>2, <1>6, <1>7 DEF A

-----------------------------------------------------------------------------
(* The theorems.                                                           *)

Rest(done) == PiecesAfter(done, lines, text, Newline)

\* The first lines of the text are neither blank nor with an empty argument,
\* and what they declare is the context.
DeclaredBy(done, name) ==
    \E f \in Ends(text, Newline) :
        Count(text, Newline, f) <= done /\ \E b \in 1..f : IsLine(b, f) /\ Declares(Line(b, f), name)
ReadUpTo(done) ==
    /\ \A a, e : IsLine(a, e) /\ Count(text, Newline, e) <= done
                   => ~BlankLine(a, e) /\ ~EmptyArgument(a, e)
    /\ \A name \in Seq(Chars) : name \in context <=> DeclaredBy(done, name)

Typed ==
    /\ text \in Seq(Chars) /\ lines \in Seq(Seq(Chars)) /\ args \in Seq(Seq(Seq(Chars)))
    /\ context \subseteq Seq(Chars)
    /\ status \in {"splitting", "reading", "read", "bad_exception", "undefined", "out_of_range"}
    /\ status = "splitting" => lines = <<>> /\ args = <<>> /\ context = {}

\* What was read is the lines before those that are left.
Reading ==
    /\ status = "bad_exception" => lines = <<>> /\ ~Paired(text)
    /\ status \notin {"splitting", "bad_exception"} => Paired(text)
    /\ status \in {"reading", "read"} =>
         \E done \in 0..(Len(text) + 1) : Rest(done) /\ ReadUpTo(done)
    /\ status = "read" => lines = <<>>
    /\ status = "undefined" => \E a, e : BlankLine(a, e) \/ ShortLine(a, e)
    /\ status = "out_of_range" => \E a, e : EmptyArgument(a, e)

TokeniserInv == Typed /\ Reading /\ ArgumentsWhole

\* What is said of the lines is said of the text only.
LEMMA SameText ==
    ASSUME text' = text
    PROVE  /\ \A a, e : IsLine(a, e)' <=> IsLine(a, e)
           /\ \A a, e : Line(a, e)' = Line(a, e)
           /\ \A a, e : BlankLine(a, e)' <=> BlankLine(a, e)
           /\ \A a, e : ShortLine(a, e)' <=> ShortLine(a, e)
           /\ \A a, e : EmptyArgument(a, e)' <=> EmptyArgument(a, e)
           /\ \A done, name : DeclaredBy(done, name)' <=> DeclaredBy(done, name)
<1>1. \A a, e : (IsLine(a, e)' <=> IsLine(a, e)) /\ Line(a, e)' = Line(a, e)
  BY DEF IsLine, Line
<1>2. \A a, e : BlankLine(a, e)' <=> BlankLine(a, e)
  BY <1>1 DEF BlankLine
<1>3. \A a, e : ShortLine(a, e)' <=> ShortLine(a, e)
  BY <1>1 DEF ShortLine
<1>4. \A e, name : DeclaredAbove(e, name)' <=> DeclaredAbove(e, name)
  BY <1>1 DEF DeclaredAbove
<1>5. \A done, name : DeclaredBy(done, name)' <=> DeclaredBy(done, name)
  BY <1>1 DEF DeclaredBy
<1>6. \A e, inst, name : Known(e, inst, name)' <=> Known(e, inst, name)
  BY <1>4 DEF Known
<1>7. \A p, i, e, inst : EmptyAt(p, i, e, inst)' <=> EmptyAt(p, i, e, inst)
  BY <1>6 DEF EmptyAt
<1>8. \A a, e : EmptyArgument(a, e)' <=> EmptyArgument(a, e)
  BY <1>1, <1>7 DEF EmptyArgument
<1> QED BY <1>1, <1>2, <1>3, <1>5, <1>8

LEMMA WholeKept ==
    ASSUME text' = text, \A k \in DOMAIN args' : StandInText(args'[k])
    PROVE  ArgumentsWhole'
BY DEF ArgumentsWhole, StandInText, Known, DeclaredAbove, IsLine, Line

LEMMA WholeIs == ArgumentsWhole <=> \A k \in DOMAIN args : StandInText(args[k])
BY DEF ArgumentsWhole, StandInText

LEMMA TokeniserInit == TInit => TokeniserInv
<1> SUFFICES ASSUME TInit PROVE TokeniserInv
  OBVIOUS
<1>1. text \in Seq(Chars)
  BY TokeniserAssumption DEF TInit
<1>2. lines = <<>> /\ args = <<>> /\ context = {} /\ status = "splitting"
  BY DEF TInit
<1>3. Typed /\ Reading
  BY <1>1, <1>2 DEF Typed, Reading
<1>4. ArgumentsWhole
  BY <1>2 DEF ArgumentsWhole
<1> QED BY <1>3, <1>4 DEF TokeniserInv

LEMMA SplitSourceStep == TokeniserInv /\ SplitSource => TokeniserInv'
<1> SUFFICES ASSUME TokeniserInv, SplitSource PROVE TokeniserInv'
  OBVIOUS
<1> DEFINE split == Split(text, Newline)
<1>1. /\ text \in Seq(Chars) /\ lines = <<>> /\ args = <<>> /\ context = {}
      /\ text' = text /\ args' = args /\ context' = context
  BY DEF TokeniserInv, Typed, SplitSource
<1>2. IsSplit(Chars, split, text, Newline)
  BY <1>1, Splits DEF Delimiters
<1>3. IF split.failed THEN status' = "bad_exception" /\ lines' = lines
      ELSE status' = "reading" /\ lines' = split.pieces
  BY DEF SplitSource
<1> HIDE DEF split
<1>4. ArgumentsWhole'
  BY <1>1 DEF ArgumentsWhole
<1>5. CASE split.failed
  <2>1. status' = "bad_exception" /\ lines' = <<>> /\ ~Paired(text')
    BY <1>1, <1>2, <1>3, <1>5 DEF IsSplit
  <2>2. Typed' /\ Reading'
    BY <1>1, <2>1 DEF Typed, Reading
  <2> QED BY <1>4, <2>2 DEF TokeniserInv
<1>6. CASE ~split.failed
  <2>1. status' = "reading" /\ lines' = split.pieces /\ Paired(text)
    BY <1>2, <1>3, <1>6 DEF IsSplit
  <2>2. /\ lines' \in Seq(Seq(Chars)) /\ Len(lines') = Cardinality(Ends(text, Newline))
        /\ \A k \in 1..Len(lines') : PieceNumber(k, lines'[k], text, Newline)
    BY <1>2, <2>1 DEF IsSplit
  <2>3. Rest(0)'
    <3>1. Pieces(lines', text, Newline)
      BY <1>1, <2>2, PiecesIn DEF Delimiters
    <3> QED BY <1>1, <3>1 DEF Rest, Pieces
  <2>4. ASSUME NEW e \in Ends(text, Newline) PROVE ~(Count(text, Newline, e) <= 0)
    <3>1. Count(text, Newline, e) \in 1..Cardinality(Ends(text, Newline))
      BY <1>1, Counts DEF Delimiters
    <3> QED BY <3>1
  <2>5. ReadUpTo(0)'
    <3>1. \A a, e : IsLine(a, e)' => e \in Ends(text, Newline)
      BY <1>1, SameText DEF IsLine, IsPiece
    <3>2. \A name : ~DeclaredBy(0, name)
      BY <2>4 DEF DeclaredBy
    <3>3. \A name : ~DeclaredBy(0, name)'
      BY <1>1, <3>2, SameText
    <3> QED BY <1>1, <2>4, <3>1, <3>3 DEF ReadUpTo
  <2>6. Typed'
    BY <1>1, <2>1, <2>2 DEF Typed
  <2>7. Reading'
    <3>1. 0 \in 0..(Len(text') + 1)  BY <1>1
    <3> QED BY <1>1, <2>1, <2>3, <2>5, <3>1 DEF Reading
  <2> QED BY <1>4, <2>6, <2>7 DEF TokeniserInv
<1> QED BY <1>5, <1>6

\* The line that is read is the next piece of the text, and the context is
\* what the lines above it declare.
IsNext(a, e, done) ==
    /\ IsLine(a, e) /\ Head(lines) = Line(a, e) /\ Count(text, Newline, e) = done + 1
    /\ done + 1 \in 0..(Len(text) + 1)
    /\ PiecesAfter(done + 1, Tail(lines), text, Newline)
    /\ ContextAt(e)
    /\ \A b, f : IsLine(b, f) /\ Count(text, Newline, f) <= done + 1 =>
         Count(text, Newline, f) <= done \/ (b = a /\ f = e)

LEMMA NextLine ==
    ASSUME TokeniserInv, lines # <<>>,
           NEW done \in 0..(Len(text) + 1), Rest(done), ReadUpTo(done)
    PROVE  \E a, e : IsNext(a, e, done)
<1>0. Newline \in Delimiters
  BY DEF Delimiters
<1>1. /\ text \in Seq(Chars) /\ lines \in Seq(Seq(Chars))
      /\ Len(text) \in Nat /\ done \in Nat
  BY DEF TokeniserInv, Typed
<1>2. /\ Len(lines) \in Nat /\ Len(lines) >= 1 /\ DOMAIN lines = 1..Len(lines)
      /\ Head(lines) = lines[1]
      /\ Tail(lines) \in Seq(Seq(Chars)) /\ Len(Tail(lines)) = Len(lines) - 1
      /\ DOMAIN Tail(lines) = 1..(Len(lines) - 1)
      /\ \A k \in 1..(Len(lines) - 1) : Tail(lines)[k] = lines[k + 1]
  BY <1>1
<1>3. /\ done + Len(lines) = Cardinality(Ends(text, Newline))
      /\ \A k \in 1..Len(lines) : PieceIn(done + k, {lines[k]}, text, Newline)
  BY <1>2 DEF Rest, PiecesAfter
<1>4. PICK e \in Ends(text, Newline) :
        /\ Count(text, Newline, e) = done + 1
        /\ \E a \in 1..e : IsPiece(text, Newline, a, e) /\ SubSeq(text, a, e - 1) \in {lines[1]}
  BY <1>2, <1>3 DEF PieceIn
<1>5. PICK a \in 1..e : IsPiece(text, Newline, a, e) /\ lines[1] = SubSeq(text, a, e - 1)
  BY <1>4
<1>6. Cardinality(Ends(text, Newline)) <= Len(text) + 1
  <2>1. Ends(text, Newline) \in SUBSET (1..(Len(text) + 1))
    BY <1>0, <1>1, EndsAre
  <2>2. IsFiniteSet(1..(Len(text) + 1)) /\ Cardinality(1..(Len(text) + 1)) = Len(text) + 1
    BY <1>1, FS_Interval
  <2> QED BY <2>1, <2>2, FS_Subset
<1>7. done + 1 \in 0..(Len(text) + 1)
  BY <1>1, <1>2, <1>3, <1>6
<1>8. PiecesAfter(done + 1, Tail(lines), text, Newline)
  <2>1. (done + 1) + Len(Tail(lines)) = Cardinality(Ends(text, Newline))
    BY <1>1, <1>2, <1>3
  <2>2. ASSUME NEW k \in 1..(Len(lines) - 1)
        PROVE  PieceIn((done + 1) + k, {Tail(lines)[k]}, text, Newline)
    <3>1. k + 1 \in 1..Len(lines) /\ done + (k + 1) = (done + 1) + k
      BY <1>1, <1>2
    <3>2. PieceIn(done + (k + 1), {lines[k + 1]}, text, Newline)
      BY <1>3, <3>1
    <3> QED BY <1>2, <3>1, <3>2
  <2> QED BY <1>2, <2>1, <2>2 DEF PiecesAfter
<1>9. ASSUME NEW f \in Ends(text, Newline)
      PROVE  /\ Count(text, Newline, f) \in Nat
             /\ f < e <=> Count(text, Newline, f) <= done
             /\ Count(text, Newline, f) = done + 1 => f = e
  <2>1. Count(text, Newline, f) \in 1..Cardinality(Ends(text, Newline))
    BY <1>0, <1>1, Counts
  <2>2. Count(text, Newline, f) \in Nat
    BY <2>1
  <2>3. f \in Nat /\ e \in Nat
    BY <1>0, <1>1, EndsAre
  <2>4. /\ f < e => Count(text, Newline, f) < done + 1
        /\ e < f => done + 1 < Count(text, Newline, f)
        /\ Count(text, Newline, f) = done + 1 => f = e
        /\ f = e => Count(text, Newline, f) = done + 1
    <3>1. f < e => Count(text, Newline, f) < Count(text, Newline, e)
      BY <1>0, <1>1, <2>3, Counts
    <3>2. e < f => Count(text, Newline, e) < Count(text, Newline, f)
      BY <1>0, <1>1, <2>3, Counts
    <3>3. Count(text, Newline, f) = Count(text, Newline, e) => f = e
      BY <1>0, <1>1, Counts
    <3> QED BY <1>4, <3>1, <3>2, <3>3
  <2> QED BY <1>1, <2>2, <2>3, <2>4
<1>10. ContextAt(e)
  <2>1. \A name : DeclaredAbove(e, name) <=> DeclaredBy(done, name)
    BY <1>9 DEF DeclaredAbove, DeclaredBy
  <2> QED BY <2>1 DEF ContextAt, ReadUpTo
<1>11. ASSUME NEW b, NEW f, IsLine(b, f), Count(text, Newline, f) <= done + 1
       PROVE  Count(text, Newline, f) <= done \/ (b = a /\ f = e)
  <2>1. f \in Ends(text, Newline)
    BY <1>11 DEF IsLine, IsPiece
  <2>2. CASE Count(text, Newline, f) = done + 1
    <3>1. f = e
      BY <1>9, <2>1, <2>2
    <3>2. b = a
      BY <1>0, <1>1, <1>5, <1>11, <3>1, PieceEnds DEF IsLine
    <3> QED BY <3>1, <3>2
  <2> QED BY <1>1, <1>9, <1>11, <2>1, <2>2
<1>12. IsLine(a, e) /\ Head(lines) = Line(a, e)
  BY <1>2, <1>5 DEF IsLine, Line
<1> QED BY <1>4, <1>7, <1>8, <1>10, <1>11, <1>12 DEF IsNext

LEMMA ReadLineStep == TokeniserInv /\ ReadLine => TokeniserInv'
<1> SUFFICES ASSUME TokeniserInv, ReadLine PROVE TokeniserInv'
  OBVIOUS
<1> DEFINE unit == ParseUnit(Head(lines))
<1>1. /\ text \in Seq(Chars) /\ Paired(text) /\ lines \in Seq(Seq(Chars)) /\ lines # <<>>
      /\ args \in Seq(Seq(Seq(Chars))) /\ context \subseteq Seq(Chars) /\ status = "reading"
  BY DEF TokeniserInv, Typed, Reading, ReadLine
<1>2. PICK done \in 0..(Len(text) + 1) : Rest(done) /\ ReadUpTo(done)
  BY <1>1 DEF TokeniserInv, Reading
<1>3. PICK a, e : IsNext(a, e, done)
  BY <1>1, <1>2, NextLine
<1>4. IsLine(a, e) /\ Head(lines) = Line(a, e) /\ ContextAt(e)
  BY <1>3 DEF IsNext
<1>5. IsUnit(Chars, unit, Line(a, e))
  BY <1>1, <1>4, Lines, Units
<1>6. text' = text /\ lines' = Tail(lines) /\ lines' \in Seq(Seq(Chars))
  BY <1>1 DEF ReadLine
<1>7. \/ /\ unit.end = "built" /\ args' = Append(args, unit.args)
         /\ context' = context \cup Declared(unit) /\ status' = status
      \/ /\ unit.end = "built" /\ Len(unit.args) < Arity[unit.inst] /\ status' = "undefined"
         /\ args' = args /\ context' = context
      \/ unit.end = "dropped" /\ args' = args /\ context' = context /\ status' = status
      \/ /\ unit.end \notin {"built", "dropped"} /\ status' = unit.end
         /\ args' = args /\ context' = context
  BY DEF ReadLine
<1> HIDE DEF unit
<1>8. unit.end \in {"undefined", "built", "dropped", "out_of_range"}
  BY <1>5 DEF IsUnit
<1>9. ASSUME unit.end \in {"built", "dropped"}, status' = status,
             context' = context \cup (IF unit.end = "built" THEN Declared(unit) ELSE {})
      PROVE  Reading' /\ context' \subseteq Seq(Chars)
  <2>1. Rest(done + 1)'
    BY <1>3, <1>6 DEF Rest, IsNext
  <2>2. ~BlankLine(a, e) /\ ~EmptyArgument(a, e)
    <3>1. Line(a, e) # <<>> /\ ~FindsEmpty(Line(a, e))
      BY <1>5, <1>9 DEF IsUnit
    <3>2. a # e
      BY <1>1, <1>4, <3>1, Lines
    <3>3. ~EmptyArgument(a, e)
      BY <1>1, <1>4, <3>1, EmptyArguments
    <3> QED BY <3>2, <3>3 DEF BlankLine
  <2>3. ASSUME NEW b, NEW f, IsLine(b, f), Count(text, Newline, f) <= done + 1
        PROVE  ~BlankLine(b, f) /\ ~EmptyArgument(b, f)
    <3>1. Count(text, Newline, f) <= done \/ (b = a /\ f = e)
      BY <1>3, <2>3 DEF IsNext
    <3> QED BY <1>2, <2>2, <2>3, <3>1 DEF ReadUpTo
  <2>4. ASSUME NEW name \in Seq(Chars)
        PROVE  name \in context' <=> DeclaredBy(done + 1, name)
    <3>1. name \in context <=> DeclaredBy(done, name)
      BY <1>2 DEF ReadUpTo
    <3>2. Declares(Line(a, e), name) <=> unit.end = "built" /\ name \in Declared(unit)
      BY <1>5, <1>9 DEF IsUnit
    <3>3. DeclaredBy(done + 1, name) <=> DeclaredBy(done, name) \/ Declares(Line(a, e), name)
      <4>1. a \in 1..e /\ e \in Ends(text, Newline) /\ Count(text, Newline, e) <= done + 1
        BY <1>1, <1>2, <1>3, <1>4, Lines DEF IsNext
      <4>2. Declares(Line(a, e), name) => DeclaredBy(done + 1, name)
        BY <1>4, <4>1 DEF DeclaredBy
      <4>3. DeclaredBy(done, name) => DeclaredBy(done + 1, name)
        <5>1. ASSUME NEW f \in Ends(text, Newline), Count(text, Newline, f) <= done
              PROVE  Count(text, Newline, f) <= done + 1
          <6>1. Count(text, Newline, f) \in 1..Cardinality(Ends(text, Newline))
            BY <1>1, Counts DEF Delimiters
          <6>2. Count(text, Newline, f) \in Int  BY <6>1
          <6> QED BY <5>1, <6>2
        <5> QED BY <5>1 DEF DeclaredBy
      <4>4. ASSUME NEW f \in Ends(text, Newline), Count(text, Newline, f) <= done + 1,
                   NEW b \in 1..f, IsLine(b, f), Declares(Line(b, f), name)
            PROVE  DeclaredBy(done, name) \/ Declares(Line(a, e), name)
        <5>1. Count(text, Newline, f) <= done \/ (b = a /\ f = e)
          BY <1>3, <4>4 DEF IsNext
        <5> QED BY <4>4, <5>1 DEF DeclaredBy
      <4>5. DeclaredBy(done + 1, name) => DeclaredBy(done, name) \/ Declares(Line(a, e), name)
        BY <4>4 DEF DeclaredBy
      <4> QED BY <4>2, <4>3, <4>5
    <3> QED BY <1>9, <3>1, <3>2, <3>3
  <2>5. ReadUpTo(done + 1)'
    <3>1. \A b, f : IsLine(b, f)' /\ Count(text, Newline, f) <= done + 1
                      => ~BlankLine(b, f)' /\ ~EmptyArgument(b, f)'
      BY <1>6, <2>3, SameText
    <3>2. \A name \in Seq(Chars) : name \in context' <=> DeclaredBy(done + 1, name)'
      BY <1>6, <2>4, SameText
    <3> QED BY <1>6, <3>1, <3>2 DEF ReadUpTo
  <2>6. Reading'
    <3>1. status' = "reading" /\ Paired(text') /\ done + 1 \in 0..(Len(text') + 1)
      BY <1>1, <1>3, <1>6, <1>9 DEF IsNext
    <3> QED BY <2>1, <2>5, <3>1 DEF Reading
  <2>7. unit.end = "built" => Declared(unit) \subseteq Seq(Chars)
    BY <1>5 DEF IsUnit
  <2> QED BY <1>1, <1>9, <2>6, <2>7
<1>10. ASSUME args' = args PROVE ArgumentsWhole' /\ args' \in Seq(Seq(Seq(Chars)))
  <2>1. \A k \in DOMAIN args' : StandInText(args'[k])
    BY <1>10, WholeIs DEF TokeniserInv
  <2> QED BY <1>1, <1>6, <1>10, <2>1, WholeKept
<1>11. CASE unit.end = "built" /\ args' = Append(args, unit.args)
            /\ context' = context \cup Declared(unit) /\ status' = status
  <2>1. unit.args \in Seq(Seq(Chars)) /\ StandInText(unit.args)
    BY <1>1, <1>4, <1>5, <1>11, ArgumentsStand
  <2>2. /\ args' \in Seq(Seq(Seq(Chars))) /\ DOMAIN args' = 1..(Len(args) + 1)
        /\ args'[Len(args) + 1] = unit.args
        /\ \A k \in 1..Len(args) : args'[k] = args[k]
        /\ DOMAIN args = 1..Len(args) /\ Len(args) \in Nat
    BY <1>1, <1>11, <2>1
  <2>3. ASSUME NEW k \in DOMAIN args' PROVE StandInText(args'[k])
    <3>1. CASE k = Len(args) + 1
      BY <2>1, <2>2, <3>1
    <3>2. CASE k # Len(args) + 1
      <4>1. k \in DOMAIN args /\ args'[k] = args[k]  BY <2>2, <3>2
      <4> QED BY <4>1, WholeIs DEF TokeniserInv
    <3> QED BY <3>1, <3>2
  <2>5. ArgumentsWhole'
    BY <1>6, <2>3, WholeKept
  <2>6. Reading' /\ context' \subseteq Seq(Chars)
    BY <1>9, <1>11
  <2>7. Typed'
    BY <1>1, <1>6, <1>11, <2>2, <2>6 DEF Typed
  <2> QED BY <2>5, <2>6, <2>7 DEF TokeniserInv
<1>12. CASE unit.end = "dropped" /\ args' = args /\ context' = context /\ status' = status
  <2>1. Reading' /\ context' \subseteq Seq(Chars)
    BY <1>9, <1>12
  <2>2. Typed'
    BY <1>1, <1>6, <1>10, <1>12, <2>1 DEF Typed
  <2> QED BY <1>10, <1>12, <2>1, <2>2 DEF TokeniserInv
<1>13. ASSUME status' \in {"undefined", "out_of_range"}, args' = args, context' = context,
              status' = "undefined" => BlankLine(a, e) \/ ShortLine(a, e),
              status' = "out_of_range" => EmptyArgument(a, e)
       PROVE  TokeniserInv'
  <2>1. Reading'
    <3>1. /\ status' = "undefined" => BlankLine(a, e)' \/ ShortLine(a, e)'
          /\ status' = "out_of_range" => EmptyArgument(a, e)'
      BY <1>6, <1>13, SameText
    <3> QED BY <1>1, <1>6, <1>13, <3>1 DEF Reading
  <2>2. Typed'
    BY <1>1, <1>6, <1>13 DEF Typed
  <2> QED BY <1>10, <1>13, <2>1, <2>2 DEF TokeniserInv
<1>14. CASE /\ unit.end = "built" /\ Len(unit.args) < Arity[unit.inst] /\ status' = "undefined"
            /\ args' = args /\ context' = context
  <2>1. ShortLine(a, e)
    BY <1>1, <1>4, <1>5, <1>14, ArgumentsStand
  <2> QED BY <1>13, <1>14, <2>1
<1>15. CASE /\ unit.end \notin {"built", "dropped"} /\ status' = unit.end
            /\ args' = args /\ context' = context
  <2>1. unit.end = "undefined" => BlankLine(a, e)
    <3>1. unit.end = "undefined" => a = e
      BY <1>1, <1>4, <1>5, Lines DEF IsUnit
    <3> QED BY <1>4, <3>1 DEF BlankLine
  <2>2. unit.end = "out_of_range" => EmptyArgument(a, e)
    BY <1>1, <1>4, <1>5, EmptyArguments DEF IsUnit
  <2>3. status' \in {"undefined", "out_of_range"}
    BY <1>8, <1>15
  <2> QED BY <1>13, <1>15, <2>1, <2>2, <2>3
<1> QED BY <1>7, <1>11, <1>12, <1>14, <1>15

LEMMA TokeniserStep == TokeniserInv /\ [TNext]_tvars => TokeniserInv'
<1> SUFFICES ASSUME TokeniserInv, [TNext]_tvars PROVE TokeniserInv'
  OBVIOUS
<1>1. CASE SplitSource
  BY <1>1, SplitSourceStep
<1>2. CASE ReadLine
  BY <1>2, ReadLineStep
<1>3. ASSUME text' = text, lines' = lines, args' = args, context' = context,
             status' = status \/ (status = "reading" /\ status' = "read" /\ lines = <<>>)
      PROVE  TokeniserInv'
  <2>1. Typed'
    BY <1>3 DEF TokeniserInv, Typed
  <2>2. \A done : (Rest(done)' <=> Rest(done)) /\ (ReadUpTo(done)' <=> ReadUpTo(done))
    BY <1>3, SameText DEF Rest, ReadUpTo
  <2>3. Reading'
    BY <1>3, <2>2, SameText DEF TokeniserInv, Reading
  <2>4. ArgumentsWhole'
    <3>1. \A k \in DOMAIN args' : StandInText(args'[k])
      BY <1>3, WholeIs DEF TokeniserInv
    <3> QED BY <1>3, <3>1, WholeKept
  <2> QED BY <2>1, <2>3, <2>4 DEF TokeniserInv
<1>4. CASE EndReading
  BY <1>3, <1>4 DEF EndReading
<1>5. CASE UNCHANGED tvars
  BY <1>3, <1>5 DEF tvars
<1> QED BY <1>1, <1>2, <1>4, <1>5 DEF TNext

\* Every text, of any length, is cut at the delimiters outside of quotes and
\* nowhere else, and refused exactly when its quotes do not pair up
\* (strutil.cpp:64-102).
THEOREM CutWhereFree == TSpec => []CutsOutsideQuotes
<1>1. TokeniserInv => CutsOutsideQuotes
  BY DEF TokeniserInv, Typed, Reading, Rest, CutsOutsideQuotes
<1> QED BY <1>1, TokeniserInit, TokeniserStep, PTL DEF TSpec

\* The arguments of every line that is taken up are those that stand in an
\* instruction's line, and the variables among them are declared above it, or
\* new after VAR (parser.cpp:17-45, instruction_impl.cpp:105-136).
THEOREM ArgumentsStandInText == TSpec => []ArgumentsWhole
<1>1. TokeniserInv => ArgumentsWhole
  BY DEF TokeniserInv
<1> QED BY <1>1, TokeniserInit, TokeniserStep, PTL DEF TSpec

\* parse() comes to an end only on texts whose quotes pair up, in which no
\* line is blank and no instruction has an empty argument behind variables that
\* are known, and ends otherwise only for these or a line that is too short
\* (parser.cpp:17-83, instruction_impl.cpp:105-136, restriction.cpp:132-143).
THEOREM ReadToTheEnd == TSpec => []ReadsExactly
<1>1. ASSUME TokeniserInv PROVE ReadsExactly
  <2>1. Typed /\ Reading
    BY <1>1 DEF TokeniserInv
  <2>2. ASSUME status = "read"
        PROVE  Paired(text) /\ \A e \in Ends(text, Newline) : \A a \in 1..e :
                                 ~BlankLine(a, e) /\ ~EmptyArgument(a, e)
    <3>1. Paired(text) /\ text \in Seq(Chars) /\ lines = <<>>
      BY <2>1, <2>2 DEF Typed, Reading
    <3>2. PICK done \in 0..(Len(text) + 1) : Rest(done) /\ ReadUpTo(done)
      BY <2>1, <2>2 DEF Reading
    <3>3. done = Cardinality(Ends(text, Newline)) /\ done \in Nat
      BY <3>1, <3>2 DEF Rest, PiecesAfter
    <3>4. ASSUME NEW e \in Ends(text, Newline) PROVE Count(text, Newline, e) <= done
      <4>1. Count(text, Newline, e) \in 1..done
        BY <3>1, <3>3, Counts DEF Delimiters
      <4> QED BY <3>3, <4>1
    <3>5. ASSUME NEW e \in Ends(text, Newline), NEW a \in 1..e
          PROVE  ~BlankLine(a, e) /\ ~EmptyArgument(a, e)
      <4>1. IsLine(a, e) => ~BlankLine(a, e) /\ ~EmptyArgument(a, e)
        BY <3>2, <3>4 DEF ReadUpTo
      <4> QED BY <4>1 DEF BlankLine, EmptyArgument
    <3> QED BY <3>1, <3>5
  <2>3. \A a, e : BlankLine(a, e) \/ ShortLine(a, e) \/ EmptyArgument(a, e)
                    => e \in Ends(text, Newline) /\ a \in 1..e
    BY DEF BlankLine, ShortLine, EmptyArgument, IsLine, IsPiece
  <2>4. /\ status = "bad_exception" => lines = <<>> /\ ~Paired(text)
        /\ status = "undefined" =>
             \E e \in Ends(text, Newline) : \E a \in 1..e : BlankLine(a, e) \/ ShortLine(a, e)
        /\ status = "out_of_range" =>
             \E e \in Ends(text, Newline) : \E a \in 1..e : EmptyArgument(a, e)
    BY <2>1, <2>3 DEF Reading
  <2> QED BY <2>2, <2>4 DEF ReadsExactly
<1> QED BY <1>1, TokeniserInit, TokeniserStep, PTL DEF TSpec
=============================================================================

--------------------------- MODULE LengthEncoding ---------------------------
(***************************************************************************)
(* The four bytes that carry a length between client and server.  An int   *)
(* is the function of its bits, a char of its own; a char is signed.       *)
(***************************************************************************)
EXTENDS Integers

CONSTANT ByteBits      \* 8 in the code

ASSUME ByteBitsAssumption == ByteBits \in Nat \ {0}

Places == 0..(4 * ByteBits - 1)
Ints == [Places -> BOOLEAN]
Chars == [0..(ByteBits - 1) -> BOOLEAN]

\* cha[i] = (char) ((v >> (8 * i)) & 0xff)
WriteInt(v) == [i \in 0..3 |-> [j \in 0..(ByteBits - 1) |-> v[ByteBits * i + j]]]

\* A char used in an expression becomes an int, and keeps its sign.
Extended(char) ==
    [n \in Places |-> IF n < ByteBits THEN char[n] ELSE char[ByteBits - 1]]
Shifted(v, k) == [n \in Places |-> n >= k /\ v[n - k]]

\* cha[3] << 24 | cha[2] << 16 | cha[1] << 8 | cha[0]
ReadInt(cha) ==
    [n \in Places |-> \E i \in 0..3 : Shifted(Extended(cha[i]), ByteBits * i)[n]]

SignPlace == 4 * ByteBits - 1
Negative(v) == v[SignPlace]

\* Above a byte whose sign bit is set there are ones only.
Survives(v) ==
    \A i \in 0..2 : v[ByteBits * i + ByteBits - 1] =>
        \A n \in (ByteBits * (i + 1))..(4 * ByteBits - 1) : v[n]

-----------------------------------------------------------------------------
\* The bits of a number and the number of bits, in two's complement.
Halves(n) == LET half[k \in Nat] == IF k = 0 THEN n ELSE half[k - 1] \div 2 IN half
BitsOf(n) == [k \in Places |-> Halves(n)[k] % 2 = 1]

Bit(b) == IF b THEN 1 ELSE 0
SignOf(v) == IF Negative(v) THEN -1 ELSE 0
NumberAbove(v) ==
    LET above[k \in Nat] == IF k = 0 THEN SignOf(v)
                            ELSE 2 * above[k - 1] + Bit(v[SignPlace - k])
    IN above
NumberOf(v) == NumberAbove(v)[SignPlace]

\* The numbers that an int holds.
Fits(n) == n \in Int /\ Halves(n)[SignPlace] \in {-1, 0}
=============================================================================

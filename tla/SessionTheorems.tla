--------------------------- MODULE SessionTheorems ---------------------------
(***************************************************************************)
(* What readInt makes of what writeInt wrote, for every width of a byte.   *)
(* For any number of clients and of bytes: the queue and the mutex of the  *)
(* server follow its workers, a client prints the beginning of its answer, *)
(* and the server parses the text of its client.                           *)
(***************************************************************************)
EXTENDS SessionProperties, IterationTheorems, SequenceTheorems

-----------------------------------------------------------------------------
(* A length that is written and read.                                      *)

\* Bit n of what is read back: the bit written, or the sign bit of a byte
\* below the one that n is in.
LEMMA BitRead ==
    ASSUME NEW v \in Ints, NEW i \in 0..3, NEW j \in 0..(ByteBits - 1)
    PROVE  /\ ByteBits * i + j \in Places
           /\ ReadInt(WriteInt(v))[ByteBits * i + j] <=>
                \/ v[ByteBits * i + j]
                \/ \E m \in 0..3 : m < i /\ v[ByteBits * m + ByteBits - 1]
<1> DEFINE n == ByteBits * i + j
           cha == WriteInt(v)
<1>1. ByteBits \in Nat \ {0} /\ n \in Places
  <2>1. ByteBits \in Nat \ {0}  BY ByteBitsAssumption
  <2>2. CASE i = 0  BY <2>1, <2>2 DEF Places
  <2>3. CASE i = 1  BY <2>1, <2>3 DEF Places
  <2>4. CASE i = 2  BY <2>1, <2>4 DEF Places
  <2>5. CASE i = 3  BY <2>1, <2>5 DEF Places
  <2> QED BY <2>1, <2>2, <2>3, <2>4, <2>5
<1>2. ASSUME NEW m \in 0..3
      PROVE  Shifted(Extended(cha[m]), ByteBits * m)[n] <=>
               \/ m = i /\ v[n]
               \/ m < i /\ v[ByteBits * m + ByteBits - 1]
  <2>1. Shifted(Extended(cha[m]), ByteBits * m)[n]
          <=> n >= ByteBits * m /\ Extended(cha[m])[n - ByteBits * m]
    BY <1>1 DEF Shifted
  <2>2. n >= ByteBits * m <=> m <= i
    <3>1. CASE i = 0  BY <1>1, <3>1
    <3>2. CASE i = 1  BY <1>1, <3>2
    <3>3. CASE i = 2  BY <1>1, <3>3
    <3>4. CASE i = 3  BY <1>1, <3>4
    <3> QED BY <3>1, <3>2, <3>3, <3>4
  <2>3. CASE m > i  BY <2>1, <2>2, <2>3
  <2>4. CASE m = i
    <3>1. n - ByteBits * m = j /\ j \in Places /\ j < ByteBits
      BY <1>1, <2>4 DEF Places
    <3>2. Extended(cha[m])[j] = cha[m][j]  BY <3>1 DEF Extended
    <3>3. cha[m][j] = v[n]  BY <2>4 DEF WriteInt
    <3> QED BY <2>1, <2>2, <2>4, <3>1, <3>2, <3>3
  <2>5. CASE m < i
    <3>1. n - ByteBits * m \in Places /\ n - ByteBits * m >= ByteBits
      <4>1. CASE i = 1 /\ m = 0  BY <1>1, <4>1 DEF Places
      <4>2. CASE i = 2 /\ m = 0  BY <1>1, <4>2 DEF Places
      <4>3. CASE i = 2 /\ m = 1  BY <1>1, <4>3 DEF Places
      <4>4. CASE i = 3 /\ m = 0  BY <1>1, <4>4 DEF Places
      <4>5. CASE i = 3 /\ m = 1  BY <1>1, <4>5 DEF Places
      <4>6. CASE i = 3 /\ m = 2  BY <1>1, <4>6 DEF Places
      <4> QED BY <2>5, <4>1, <4>2, <4>3, <4>4, <4>5, <4>6
    <3>2. Extended(cha[m])[n - ByteBits * m] = cha[m][ByteBits - 1]
      <4> DEFINE k == n - ByteBits * m
      <4> HIDE DEF k, n
      <4>1. k \in Places /\ ~(k < ByteBits)  BY <3>1, <1>1 DEF k, Places
      <4> QED BY <4>1 DEF Extended, k
    <3>3. cha[m][ByteBits - 1] = v[ByteBits * m + ByteBits - 1]
      <4>1. ByteBits - 1 \in 0..(ByteBits - 1)  BY <1>1
      <4>2. cha[m][ByteBits - 1] = v[ByteBits * m + (ByteBits - 1)]
        BY <4>1 DEF WriteInt
      <4> QED BY <4>2, <1>1, SMT
    <3> QED BY <2>1, <2>2, <2>5, <3>2, <3>3
  <2> QED BY <2>3, <2>4, <2>5
<1>3. ReadInt(cha)[n] <=> \E m \in 0..3 : Shifted(Extended(cha[m]), ByteBits * m)[n]
  BY <1>1 DEF ReadInt
<1> QED BY <1>1, <1>2, <1>3

\* Every place lies in one of the four bytes.
LEMMA PlaceInByte ==
    ASSUME NEW n \in Places
    PROVE  \E i \in 0..3, j \in 0..(ByteBits - 1) : n = ByteBits * i + j
<1>1. ByteBits \in Nat \ {0} /\ n \in 0..(4 * ByteBits - 1)
  BY ByteBitsAssumption DEF Places
<1>2. CASE n < ByteBits
  <2>1. n = ByteBits * 0 + n /\ n \in 0..(ByteBits - 1)  BY <1>1, <1>2
  <2> QED BY <2>1
<1>3. CASE n >= ByteBits /\ n < 2 * ByteBits
  <2>1. n = ByteBits * 1 + (n - ByteBits) /\ n - ByteBits \in 0..(ByteBits - 1)
    BY <1>1, <1>3
  <2> QED BY <2>1
<1>4. CASE n >= 2 * ByteBits /\ n < 3 * ByteBits
  <2>1. n = ByteBits * 2 + (n - 2 * ByteBits) /\ n - 2 * ByteBits \in 0..(ByteBits - 1)
    BY <1>1, <1>4
  <2> QED BY <2>1
<1>5. CASE n >= 3 * ByteBits
  <2>1. n = ByteBits * 3 + (n - 3 * ByteBits) /\ n - 3 * ByteBits \in 0..(ByteBits - 1)
    BY <1>1, <1>5
  <2> QED BY <2>1
<1> QED BY <1>1, <1>2, <1>3, <1>4, <1>5

\* A place of byte i is above the whole of byte m when m < i.
LEMMA BytesAbove ==
    ASSUME NEW i \in 0..3, NEW m \in 0..2, NEW j \in 0..(ByteBits - 1)
    PROVE  ByteBits * i + j \in (ByteBits * (m + 1))..(4 * ByteBits - 1) <=> m < i
<1>1. ByteBits \in Nat \ {0}  BY ByteBitsAssumption
<1>2. CASE i = 0
  <2>1. CASE m = 0  BY <1>1, <1>2, <2>1
  <2>2. CASE m = 1  BY <1>1, <1>2, <2>2
  <2>3. CASE m = 2  BY <1>1, <1>2, <2>3
  <2> QED BY <2>1, <2>2, <2>3
<1>3. CASE i = 1
  <2>1. CASE m = 0  BY <1>1, <1>3, <2>1
  <2>2. CASE m = 1  BY <1>1, <1>3, <2>2
  <2>3. CASE m = 2  BY <1>1, <1>3, <2>3
  <2> QED BY <2>1, <2>2, <2>3
<1>4. CASE i = 2
  <2>1. CASE m = 0  BY <1>1, <1>4, <2>1
  <2>2. CASE m = 1  BY <1>1, <1>4, <2>2
  <2>3. CASE m = 2  BY <1>1, <1>4, <2>3
  <2> QED BY <2>1, <2>2, <2>3
<1>5. CASE i = 3
  <2>1. CASE m = 0  BY <1>1, <1>5, <2>1
  <2>2. CASE m = 1  BY <1>1, <1>5, <2>2
  <2>3. CASE m = 2  BY <1>1, <1>5, <2>3
  <2> QED BY <2>1, <2>2, <2>3
<1> QED BY <1>2, <1>3, <1>4, <1>5

\* bit.cpp:21-30.  readInt gives back the int that writeInt wrote exactly
\* when, above every byte whose sign bit is set, it has ones only: of the
\* lengths below 2^15, those whose low byte is below 128.
THEOREM ReadsBack ==
    \A v \in Ints : ReadInt(WriteInt(v)) = v <=> Survives(v)
<1> SUFFICES ASSUME NEW v \in Ints
             PROVE  ReadInt(WriteInt(v)) = v <=> Survives(v)
  OBVIOUS
<1> DEFINE r == ReadInt(WriteInt(v))
<1>1. ASSUME r = v PROVE Survives(v)
  <2>1. SUFFICES ASSUME NEW m \in 0..2, v[ByteBits * m + ByteBits - 1],
                        NEW n \in (ByteBits * (m + 1))..(4 * ByteBits - 1)
                 PROVE  v[n]
    BY DEF Survives
  <2>2. n \in Places
    <3>1. ByteBits \in Nat \ {0}  BY ByteBitsAssumption
    <3>2. CASE m = 0  BY <3>1, <3>2 DEF Places
    <3>3. CASE m = 1  BY <3>1, <3>3 DEF Places
    <3>4. CASE m = 2  BY <3>1, <3>4 DEF Places
    <3> QED BY <3>2, <3>3, <3>4
  <2>3. PICK i \in 0..3, j \in 0..(ByteBits - 1) : n = ByteBits * i + j
    BY <2>2, PlaceInByte
  <2>4. m < i  BY <2>3, BytesAbove
  <2>5. r[n]  BY <2>1, <2>3, <2>4, BitRead
  <2> QED BY <2>5, <1>1
<1>2. ASSUME Survives(v) PROVE r = v
  <2>1. ASSUME NEW n \in Places PROVE r[n] = v[n]
    <3>1. PICK i \in 0..3, j \in 0..(ByteBits - 1) : n = ByteBits * i + j
      BY PlaceInByte
    <3>2. ASSUME NEW m \in 0..3, m < i, v[ByteBits * m + ByteBits - 1]
          PROVE  v[n]
      <4>1. m \in 0..2  BY <3>2
      <4>2. n \in (ByteBits * (m + 1))..(4 * ByteBits - 1)
        BY <3>1, <3>2, <4>1, BytesAbove
      <4> QED BY <1>2, <3>2, <4>1, <4>2 DEF Survives
    <3>3. r[n] <=> v[n]  BY <3>1, <3>2, BitRead
    <3>4. r[n] \in BOOLEAN /\ v[n] \in BOOLEAN  BY DEF ReadInt, Ints
    <3> QED BY <3>3, <3>4
  <2>2. r \in [Places -> BOOLEAN]  BY DEF ReadInt
  <2> QED BY <2>1, <2>2 DEF Ints
<1> QED BY <1>1, <1>2

\* bit.cpp:21-23.  A length that is misread is read as a negative one, never
\* as another length: the side that reads it makes an array of negative size.
THEOREM MisreadIsNegative ==
    \A v \in Ints : ReadInt(WriteInt(v)) # v => Negative(ReadInt(WriteInt(v)))
<1> SUFFICES ASSUME NEW v \in Ints, ReadInt(WriteInt(v)) # v
             PROVE  Negative(ReadInt(WriteInt(v)))
  OBVIOUS
<1>1. ~Survives(v)  BY ReadsBack
<1>2. PICK m \in 0..2 : v[ByteBits * m + ByteBits - 1]  BY <1>1 DEF Survives
<1>3. ByteBits \in Nat \ {0} /\ ByteBits - 1 \in 0..(ByteBits - 1)
  BY ByteBitsAssumption
<1>4. 3 \in 0..3 /\ m \in 0..3 /\ m < 3  BY <1>2
<1>5. ReadInt(WriteInt(v))[ByteBits * 3 + (ByteBits - 1)]
  BY <1>2, <1>3, <1>4, BitRead
<1>6. ByteBits * 3 + (ByteBits - 1) = 4 * ByteBits - 1  BY <1>3
<1> QED BY <1>5, <1>6 DEF Negative, SignPlace

-----------------------------------------------------------------------------
(* Numbers and their bits.                                                 *)

\* Halves(n)[k] is n divided by 2 k times.
LEMMA HalvesStep ==
    ASSUME NEW n \in Int
    PROVE  /\ Halves(n) \in [Nat -> Int] /\ Halves(n)[0] = n
           /\ \A k \in Nat : Halves(n)[k + 1] = Halves(n)[k] \div 2
<1> DEFINE step == [k \in Nat |-> [x \in Int |-> x \div 2]]
           Is(f) == f = [k \in Nat |-> IF k = 0 THEN n ELSE f[k - 1] \div 2]
<1>1. step \in [Nat -> [Int -> Int]]  OBVIOUS
<1>0. PICK f : Iterates(f, Int, n, step)
  <2> HIDE DEF step
  <2> QED BY <1>1, Iterated
<1>2. f \in [Nat -> Int] /\ f[0] = n /\ \A k \in Nat : f[k + 1] = step[k + 1][f[k]]
  <2> HIDE DEF step
  <2> QED BY <1>0 DEF Iterates
<1>3. Is(f)
  <2>1. \A k \in Nat : f[k] = IF k = 0 THEN n ELSE f[k - 1] \div 2
    <3> SUFFICES ASSUME NEW k \in Nat, k # 0 PROVE f[k] = f[k - 1] \div 2  BY <1>2
    <3>1. k - 1 \in Nat /\ (k - 1) + 1 = k  OBVIOUS
    <3>2. f[k] = step[k][f[k - 1]]
      <4> HIDE DEF step
      <4> QED BY <1>2, <3>1
    <3> QED BY <1>2, <3>1, <3>2
  <2>2. f = [k \in Nat |-> f[k]]  BY <1>2
  <2> HIDE DEF step
  <2> QED BY <2>1, <2>2
<1>4. Halves(n) = CHOOSE g : Is(g)  BY DEF Halves
<1>5. Is(Halves(n))
  <2> HIDE DEF Is
  <2> QED BY <1>3, <1>4
<1> DEFINE h == Halves(n)
           T == {k \in Nat : h[k] \in Int}
<1> HIDE DEF h
<1>6. h = [k \in Nat |-> IF k = 0 THEN n ELSE h[k - 1] \div 2]  BY <1>5 DEF h
<1>7. h[0] = n /\ \A k \in Nat : h[k + 1] = h[k] \div 2
  <2>1. \A k \in Nat : h[k] = IF k = 0 THEN n ELSE h[k - 1] \div 2  BY <1>6
  <2> QED BY <2>1
<1>8. Nat \subseteq T
  <2>1. 0 \in T  BY <1>7
  <2>2. \A k \in Nat : k \in T => k + 1 \in T  BY <1>7
  <2> HIDE DEF T
  <2> QED BY <2>1, <2>2, NatSet
<1>9. h \in [Nat -> Int]
  <2>1. h = [k \in Nat |-> h[k]]  BY <1>6
  <2> QED BY <1>8, <2>1
<1> QED BY <1>7, <1>9 DEF h

LEMMA AboveStep ==
    ASSUME NEW v
    PROVE  /\ NumberAbove(v)[0] = SignOf(v)
           /\ \A k \in Nat : NumberAbove(v)[k + 1] =
                               2 * NumberAbove(v)[k] + Bit(v[SignPlace - (k + 1)])
<1> DEFINE b == [k \in Nat |-> Bit(v[SignPlace - k])]
           step == [k \in Nat |-> [x \in Int |-> 2 * x + b[k]]]
           a == SignOf(v)
           Is(f) == f = [k \in Nat |-> IF k = 0 THEN a
                                       ELSE 2 * f[k - 1] + Bit(v[SignPlace - k])]
<1>1. step \in [Nat -> [Int -> Int]] /\ a \in Int
  <2>1. b \in [Nat -> Int]  BY DEF Bit
  <2> HIDE DEF b
  <2> QED BY <2>1 DEF SignOf
<1>2. PICK f : Iterates(f, Int, a, step)
  <2> HIDE DEF step, a
  <2> QED BY <1>1, Iterated
<1>3. f \in [Nat -> Int] /\ f[0] = a /\ \A k \in Nat : f[k + 1] = step[k + 1][f[k]]
  <2> HIDE DEF step, a
  <2> QED BY <1>2 DEF Iterates
<1>4. Is(f)
  <2>1. ASSUME NEW k \in Nat
        PROVE  f[k] = IF k = 0 THEN a ELSE 2 * f[k - 1] + Bit(v[SignPlace - k])
    <3> HIDE DEF a
    <3>1. CASE k = 0  BY <1>3, <3>1
    <3>2. CASE k # 0
      <4>1. k - 1 \in Nat /\ (k - 1) + 1 = k  BY <3>2
      <4>2. f[k] = step[k][f[k - 1]]
        <5> HIDE DEF step
        <5> QED BY <1>3, <4>1
      <4>3. f[k] = 2 * f[k - 1] + b[k]
        <5> HIDE DEF b
        <5> QED BY <1>3, <4>1, <4>2
      <4> QED BY <3>2, <4>3
    <3> QED BY <3>1, <3>2
  <2>2. f = [k \in Nat |-> f[k]]  BY <1>3
  <2> HIDE DEF step, a
  <2> QED BY <2>1, <2>2
<1>5. NumberAbove(v) = CHOOSE g : Is(g)  BY DEF NumberAbove
<1>6. Is(NumberAbove(v))
  <2> HIDE DEF Is
  <2> QED BY <1>4, <1>5
<1> DEFINE h == NumberAbove(v)
<1> HIDE DEF h
<1>7. \A k \in Nat : h[k] = IF k = 0 THEN a ELSE 2 * h[k - 1] + Bit(v[SignPlace - k])
  BY <1>6 DEF h
<1> HIDE DEF a
<1>8. h[0] = a /\ \A k \in Nat : h[k + 1] = 2 * h[k] + Bit(v[SignPlace - (k + 1)])
  BY <1>7
<1> QED BY <1>8 DEF a, h

LEMMA Parity ==
    ASSUME NEW x \in Int
    PROVE  /\ x % 2 \in {0, 1} /\ 2 * (x \div 2) + (x % 2) = x
           /\ x = 0 => x % 2 = 0
           /\ x = -1 => x % 2 = 1
<1>1. x % 2 \in {0, 1} /\ x \div 2 \in Int  OBVIOUS
<1>2. 2 * (x \div 2) + (x % 2) = x  OBVIOUS
<1>3. x = 0 => x % 2 = 0  BY <1>1, <1>2
<1>4. x = -1 => x % 2 = 1
  <2> SUFFICES ASSUME x = -1, x % 2 = 0 PROVE FALSE  BY <1>1
  <2>1. 2 * (x \div 2) = -1  BY <1>2
  <2> QED BY <1>1, <2>1
<1> QED BY <1>1, <1>2, <1>3, <1>4

\* The bits of a number that an int holds give the number back.
THEOREM BitsGiveBack == \A n : Fits(n) => NumberOf(BitsOf(n)) = n
<1> SUFFICES ASSUME NEW n, Fits(n) PROVE NumberOf(BitsOf(n)) = n
  OBVIOUS
<1> DEFINE h == Halves(n)
           v == BitsOf(n)
           a == NumberAbove(v)
           T == {k \in Nat : k <= SignPlace => a[k] = h[SignPlace - k]}
<1>0. SignPlace \in Nat /\ Places = 0..SignPlace
  BY ByteBitsAssumption DEF SignPlace, Places
<1>1. n \in Int /\ h \in [Nat -> Int] /\ h[0] = n /\ h[SignPlace] \in {-1, 0}
  BY HalvesStep DEF Fits
<1>2. \A k \in Nat : h[k + 1] = h[k] \div 2
  <2>1. n \in Int  BY <1>1
  <2> QED BY <2>1, HalvesStep
<1>3. \A k \in 0..SignPlace : v[k] <=> (h[k] % 2 = 1)
  BY <1>0 DEF BitsOf
<1>4. a[0] = SignOf(v)  BY AboveStep
<1>5. \A k \in Nat : a[k + 1] = 2 * a[k] + Bit(v[SignPlace - (k + 1)])  BY AboveStep
<1> HIDE DEF h, v, a
<1>6. 0 \in T
  <2>1. v[SignPlace] <=> (h[SignPlace] % 2 = 1)  BY <1>0, <1>3
  <2>2. SignOf(v) = h[SignPlace]
    <3>1. CASE h[SignPlace] = -1
      <4>1. h[SignPlace] \in Int  BY <1>0, <1>1
      <4>2. h[SignPlace] % 2 = 1  BY <3>1, <4>1, Parity, Zenon
      <4>3. v[SignPlace]  BY <2>1, <4>2
      <4> QED BY <3>1, <4>3 DEF SignOf, Negative
    <3>2. CASE h[SignPlace] = 0
      <4>1. h[SignPlace] % 2 = 0  BY <1>1, <3>2, Parity
      <4>2. ~v[SignPlace]  BY <2>1, <4>1
      <4> QED BY <3>2, <4>2 DEF SignOf, Negative
    <3> QED BY <1>1, <3>1, <3>2
  <2> QED BY <1>0, <1>4, <2>2
<1>7. ASSUME NEW k \in Nat, k \in T PROVE k + 1 \in T
  <2> SUFFICES ASSUME k + 1 <= SignPlace
               PROVE  a[k + 1] = h[SignPlace - (k + 1)]
    BY <1>0
  <2> DEFINE j == SignPlace - (k + 1)
  <2>1. j \in 0..SignPlace /\ j \in Nat /\ j + 1 = SignPlace - k /\ k <= SignPlace
    BY <1>0
  <2> HIDE DEF j
  <2>2. a[k] = h[j + 1]  BY <1>7, <2>1
  <2>3. h[j + 1] = h[j] \div 2 /\ h[j] \in Int  BY <1>1, <1>2, <2>1
  <2>4. Bit(v[j]) = h[j] % 2
    <3>1. v[j] <=> (h[j] % 2 = 1)  BY <1>3, <2>1
    <3>2. h[j] % 2 \in {0, 1}  BY <2>3, Parity
    <3> QED BY <3>1, <3>2 DEF Bit
  <2>5. a[k + 1] = 2 * a[k] + Bit(v[j])  BY <1>5 DEF j
  <2>6. 2 * (h[j] \div 2) + (h[j] % 2) = h[j]  BY <2>3, Parity
  <2>7. a[k + 1] = h[j]  BY <2>2, <2>3, <2>4, <2>5, <2>6
  <2> QED BY <2>7 DEF j
<1>8. Nat \subseteq T
  <2> HIDE DEF T
  <2> QED BY <1>6, <1>7, NatSet
<1>9. SignPlace \in T  BY <1>0, <1>8
<1>10. a[SignPlace] = h[0]  BY <1>0, <1>9
<1> QED BY <1>1, <1>10 DEF NumberOf, a, v

\* An int whose sign bit is set is a negative number.
THEOREM NegativeIsBelow == \A v : Negative(v) => NumberOf(v) \in Int /\ NumberOf(v) < 0
<1> SUFFICES ASSUME NEW v, Negative(v) PROVE NumberOf(v) \in Int /\ NumberOf(v) < 0
  OBVIOUS
<1> DEFINE a == NumberAbove(v)
           T == {k \in Nat : a[k] \in Int /\ a[k] < 0}
<1>1. a[0] = SignOf(v)  BY AboveStep
<1>2. \A k \in Nat : a[k + 1] = 2 * a[k] + Bit(v[SignPlace - (k + 1)])  BY AboveStep
<1> HIDE DEF a
<1>3. 0 \in T  BY <1>1 DEF SignOf
<1>4. \A k \in Nat : k \in T => k + 1 \in T  BY <1>2 DEF Bit
<1>5. Nat \subseteq T
  <2> HIDE DEF T
  <2> QED BY <1>3, <1>4, NatSet
<1>6. SignPlace \in Nat  BY ByteBitsAssumption DEF SignPlace
<1> QED BY <1>5, <1>6 DEF NumberOf, a

\* bit.cpp:21-30.  A length that fits an int is read back as it was, or as a
\* negative number: never as the length of another text.
THEOREM LengthsRead ==
    \A n : Fits(n) => LET m == NumberOf(ReadInt(WriteInt(BitsOf(n))))
                      IN  m = n \/ (m \in Int /\ m < 0)
<1> SUFFICES ASSUME NEW n, Fits(n)
             PROVE  LET m == NumberOf(ReadInt(WriteInt(BitsOf(n))))
                    IN  m = n \/ (m \in Int /\ m < 0)
  OBVIOUS
<1>1. BitsOf(n) \in Ints  BY DEF BitsOf, Ints
<1>2. CASE ReadInt(WriteInt(BitsOf(n))) = BitsOf(n)  BY <1>2, BitsGiveBack
<1>3. CASE ReadInt(WriteInt(BitsOf(n))) # BitsOf(n)
  BY <1>1, <1>3, MisreadIsNegative, NegativeIsBelow
<1> QED BY <1>2, <1>3

-----------------------------------------------------------------------------
(* The clients and the server.                                             *)

ServerFields == {"up", "listening", "main", "acceptor"}
WorkerFields == {"pc", "length", "text", "answer", "cut"}
ClientFields == {"caller", "pc", "wrote", "length", "printed"}

Callers == {"calling", "waiting", "leaving", "true", "false", "killed"}
Ends == {"none", "backlog", "open", "closed"}

\* The three parts of the invariant: the clients, the server's ends of the
\* connections, and the server.
ClientHalf ==
    /\ client = [c \in Clients |-> client[c]]
    /\ \A c \in Clients : /\ client[c] = [f \in ClientFields |-> client[c][f]]
                          /\ client[c].caller \in Callers /\ client[c].pc \in ClientPcs

EndsFollow ==
    /\ serverEnd \in [Clients -> Ends]
    /\ \A c \in Clients : /\ client[c].caller = "calling" => serverEnd[c] = "none"
                          /\ worker[c].pc # "none" => serverEnd[c] \in {"open", "closed"}

\* No worker runs before the acceptor has left pushing, which it does once.
ServerHalf ==
    /\ server = [f \in ServerFields |-> server[f]]
    /\ worker = [c \in Clients |-> worker[c]]
    /\ \A c \in Clients : /\ worker[c] = [f \in WorkerFields |-> worker[c][f]]
                          /\ worker[c].pc \in Serving \cup {"none", "created", "gone"}
    /\ queue = {c \in Clients : worker[c].pc \in Serving}
    /\ mutex \in Clients \cup {""}
    /\ \A c \in Clients : mutex = c <=> worker[c].pc = "erasing"
    /\ server.main = "starting" => server.acceptor = "none"
    /\ server.acceptor \in {"none", "accepting"} => \A c \in Clients : worker[c].pc = "none"
    /\ server.acceptor = "pushing" => \A c \in Clients : worker[c].pc \in {"none", "created"}

IInv == ClientHalf /\ EndsFollow /\ ServerHalf

LEMMA InitKeeps == Init => IInv
<1> SUFFICES ASSUME Init PROVE IInv  OBVIOUS
<1> USE NamesAssumption DEF Init, WireInit, ClientInit, ServerInit
<1>1. ClientHalf  BY DEF ClientHalf, ClientFields, Callers, ClientPcs, HeaderPcs
<1>2. EndsFollow  BY DEF EndsFollow, Ends
<1>3. ServerHalf  BY DEF ServerHalf, ServerFields, WorkerFields, Serving
<1> QED BY <1>1, <1>2, <1>3 DEF IInv

-----------------------------------------------------------------------------
LEMMA ClientMoves ==
    ASSUME ClientHalf, NEW c \in Clients, NEW pc \in ClientPcs,
           NEW g \in ClientFields \ {"pc"}, NEW x, g = "caller" => x \in Callers,
           client' = [client EXCEPT ![c].pc = pc, ![c][g] = x]
    PROVE  ClientHalf'
<1> DEFINE r == [client[c] EXCEPT !.pc = pc]
           s == [r EXCEPT ![g] = x]
<1>1. /\ client[c] = [f \in ClientFields |-> client[c][f]]
      /\ client[c].caller \in Callers
  BY DEF ClientHalf
<1>2. r = [f \in ClientFields |-> IF f = "pc" THEN pc ELSE client[c][f]]
  BY <1>1 DEF ClientFields
<1>3. s = [f \in ClientFields |-> IF f = g THEN x ELSE r[f]]
  BY <1>2 DEF ClientFields
<1>4. s = [f \in ClientFields |-> s[f]] /\ s.pc = pc /\ s.caller \in Callers
  BY <1>1, <1>2, <1>3 DEF ClientFields
<1>5. client' = [d \in Clients |-> IF d = c THEN s ELSE client[d]]
  BY DEF ClientHalf
<1> HIDE DEF r, s
<1>6. client' = [d \in Clients |-> client'[d]]  BY <1>5
<1>7. ASSUME NEW d \in Clients
      PROVE  /\ client'[d] = [f \in ClientFields |-> client'[d][f]]
             /\ client'[d].caller \in Callers /\ client'[d].pc \in ClientPcs
  <2>1. CASE d = c
    <3>1. client'[d] = s  BY <1>5, <2>1
    <3> QED BY <1>4, <3>1
  <2>2. CASE d # c
    <3>1. client'[d] = client[d]  BY <1>5, <2>2
    <3> QED BY <3>1 DEF ClientHalf
  <2> QED BY <2>1, <2>2
<1> QED BY <1>6, <1>7 DEF ClientHalf

LEMMA CallerKeeps ==
    ASSUME ClientHalf, NEW c \in Clients, CallerStep(c)
    PROVE  ClientHalf'
<1> USE DEF ClientHalf, ClientFields, Callers, ClientPcs, HeaderPcs
<1>1. CASE Query(c, Listening)
  <2>1. PICK who \in {"waiting", "leaving"} :
          client' = [client EXCEPT ![c].pc = "writeLength", ![c].caller = who]
    BY <1>1 DEF Query
  <2> QED BY <2>1, ClientMoves
<1>2. CASE Refused(c)
  BY <1>2 DEF Refused
<1>3. CASE Leave(c)
  BY <1>3 DEF Leave, ClientKilled
<1>4. CASE Return(c)
  BY <1>4 DEF Return
<1>5. CASE Overrun(c)
  BY <1>5 DEF Overrun, ClientKilled
<1> QED BY <1>1, <1>2, <1>3, <1>4, <1>5 DEF CallerStep, Caller

LEMMA WorkKeeps ==
    ASSUME ClientHalf, NEW c \in Clients, WorkStep(c)
    PROVE  ClientHalf'
<1> USE DEF ClientHalf, ClientFields, Callers, ClientPcs, HeaderPcs
<1>1. ASSUME NEW pc, NEW bytes, NEW repeat \in ClientPcs, NEW next \in ClientPcs,
             Send(c, pc, bytes, repeat, next)
      PROVE  ClientHalf'
  BY <1>1 DEF Send, ClientKilled
<1>2. ASSUME NEW pc, NEW bytes, Repeat(c, pc, bytes)
      PROVE  ClientHalf'
  BY <1>2 DEF Repeat, ClientKilled
<1>3. CASE SendLength(c)  BY <1>1, <1>3 DEF SendLength
<1>4. CASE RepeatLength(c)  BY <1>2, <1>4 DEF RepeatLength
<1>5. CASE SendText(c)  BY <1>1, <1>5 DEF SendText
<1>6. CASE RepeatText(c)  BY <1>2, <1>6 DEF RepeatText
<1>7. CASE ReceiveLength(c)
  <2>1. ASSUME NEW n, client' = [client EXCEPT ![c].pc = "readText", ![c].length = n]
        PROVE  ClientHalf'
    <3>1. "length" \in ClientFields \ {"pc"} /\ "length" # "caller" /\ "readText" \in ClientPcs
      OBVIOUS
    <3> HIDE DEF ClientHalf, ClientFields, ClientPcs
    <3> QED BY <2>1, <3>1, ClientMoves
  <2>2. ASSUME client' = [client EXCEPT ![c].pc = "garbage"]
        PROVE  ClientHalf'
    BY <2>2
  <2> QED BY <1>7, <2>1, <2>2 DEF ReceiveLength
<1>8. CASE ReceiveText(c)
  <2>1. ASSUME NEW s, client' = [client EXCEPT ![c].pc = "garbage", ![c].printed = s]
        PROVE  ClientHalf'
    <3>1. "printed" \in ClientFields \ {"pc"} /\ "printed" # "caller" /\ "garbage" \in ClientPcs
      OBVIOUS
    <3> HIDE DEF ClientHalf, ClientFields, ClientPcs
    <3> QED BY <2>1, <3>1, ClientMoves
  <2>2. ASSUME client' = [client EXCEPT ![c].pc = "garbage"]
        PROVE  ClientHalf'
    BY <2>2
  <2>3. ASSUME ClientKilled(c)
        PROVE  ClientHalf'
    BY <2>3 DEF ClientKilled
  <2> QED BY <1>8, <2>1, <2>2, <2>3 DEF ReceiveText
<1>9. CASE Garbage(c)  BY <1>9 DEF Garbage
<1> QED BY <1>3, <1>4, <1>5, <1>6, <1>7, <1>8, <1>9 DEF WorkStep, Work

\* A client connects only an end that the server has not.
LEMMA ClientEndsFollow ==
    ASSUME IInv, NEW c \in Clients, CallerStep(c) \/ WorkStep(c)
    PROVE  EndsFollow'
<1> USE DEF IInv, EndsFollow, ClientHalf, ClientFields
<1>1. UNCHANGED worker  BY DEF CallerStep, WorkStep, svars
<1>2. ASSUME UNCHANGED serverEnd,
             \A d \in Clients : client'[d].caller = "calling" => client[d].caller = "calling"
      PROVE  EndsFollow'
  BY <1>1, <1>2
<1>3. CASE Query(c, Listening)
  <2>1. /\ client[c].caller = "calling"
        /\ client'[c].caller # "calling"
        /\ \A d \in Clients \ {c} : client'[d] = client[d]
    BY <1>3 DEF Query
  <2>2. \/ UNCHANGED serverEnd
        \/ serverEnd' = [serverEnd EXCEPT ![c] = "backlog"]
    BY <1>3 DEF Query, Connect, wire
  <2> QED BY <1>1, <2>1, <2>2 DEF Ends
<1>4. CASE Refused(c)  BY <1>2, <1>4 DEF Refused, wire
<1>5. CASE Leave(c)  BY <1>2, <1>5 DEF Leave, ClientKilled
<1>6. CASE Return(c)  BY <1>2, <1>6 DEF Return, wire
<1>8. CASE Overrun(c)  BY <1>2, <1>8 DEF Overrun, ClientKilled
<1>7. CASE WorkStep(c)
  <2>1. ASSUME NEW pc, NEW bytes, NEW repeat, NEW next, Send(c, pc, bytes, repeat, next)
        PROVE  EndsFollow'
    BY <1>2, <2>1 DEF Send, ClientKilled
  <2>2. ASSUME NEW pc, NEW bytes, Repeat(c, pc, bytes)
        PROVE  EndsFollow'
    BY <1>2, <2>2 DEF Repeat, ClientKilled
  <2>3. CASE ReceiveLength(c)
    <3>1. ASSUME NEW n, client' = [client EXCEPT ![c].pc = "readText", ![c].length = n]
          PROVE  \A d \in Clients : client'[d].caller = client[d].caller
      BY <3>1
    <3>2. ASSUME client' = [client EXCEPT ![c].pc = "garbage"]
          PROVE  \A d \in Clients : client'[d].caller = client[d].caller
      BY <3>2
    <3>3. \A d \in Clients : client'[d].caller = client[d].caller
      BY <2>3, <3>1, <3>2 DEF ReceiveLength
    <3> QED BY <1>2, <2>3, <3>3 DEF ReceiveLength
  <2>4. CASE ReceiveText(c)
    <3>1. ASSUME NEW s, client' = [client EXCEPT ![c].pc = "garbage", ![c].printed = s]
          PROVE  \A d \in Clients : client'[d].caller = client[d].caller
      BY <3>1
    <3>2. ASSUME client' = [client EXCEPT ![c].pc = "garbage"]
          PROVE  \A d \in Clients : client'[d].caller = client[d].caller
      BY <3>2
    <3>3. ASSUME ClientKilled(c)
          PROVE  \A d \in Clients : client'[d].caller = "calling" => client[d].caller = "calling"
      BY <3>3 DEF ClientKilled
    <3>4. \A d \in Clients : client'[d].caller = "calling" => client[d].caller = "calling"
      BY <2>4, <3>1, <3>2, <3>3 DEF ReceiveText
    <3> QED BY <1>2, <2>4, <3>4 DEF ReceiveText
  <2>5. CASE Garbage(c)  BY <1>2, <2>5 DEF Garbage
  <2> QED BY <1>7, <2>1, <2>2, <2>3, <2>4, <2>5
          DEF WorkStep, Work, SendLength, RepeatLength, SendText, RepeatText
<1> QED BY <1>3, <1>4, <1>5, <1>6, <1>7, <1>8 DEF CallerStep, Caller

-----------------------------------------------------------------------------
ServerKept == ServerHalf' /\ EndsFollow'

\* The worker of c is now at pc, and no other worker has changed.
Moved(c, pc) ==
    /\ worker' = [d \in Clients |-> worker'[d]]
    /\ worker'[c] = [f \in WorkerFields |-> worker'[c][f]]
    /\ worker'[c].pc = pc
    /\ \A d \in Clients \ {c} : worker'[d] = worker[d]

LEMMA MovesAlone ==
    ASSUME ServerHalf, NEW c \in Clients, NEW pc,
           worker' = [worker EXCEPT ![c].pc = pc]
    PROVE  Moved(c, pc)
BY DEF ServerHalf, Moved, WorkerFields

LEMMA MovesOnly ==
    ASSUME ServerHalf, NEW c \in Clients, NEW pc, NEW g \in WorkerFields \ {"pc"},
           worker' = [worker EXCEPT ![c].pc = pc]
    PROVE  worker'[c][g] = worker[c][g]
<1>1. worker[c] = [f \in WorkerFields |-> worker[c][f]]  BY DEF ServerHalf
<1>2. worker'[c] = [worker[c] EXCEPT !.pc = pc]  BY DEF ServerHalf
<1> QED BY <1>1, <1>2 DEF WorkerFields

LEMMA MovesWith ==
    ASSUME ServerHalf, NEW c \in Clients, NEW pc, NEW g \in WorkerFields \ {"pc"}, NEW x,
           worker' = [worker EXCEPT ![c].pc = pc, ![c][g] = x]
    PROVE  Moved(c, pc)
<1> DEFINE r == [worker[c] EXCEPT !.pc = pc]
           s == [r EXCEPT ![g] = x]
<1>1. worker[c] = [f \in WorkerFields |-> worker[c][f]]  BY DEF ServerHalf
<1>2. r = [f \in WorkerFields |-> IF f = "pc" THEN pc ELSE worker[c][f]]
  BY <1>1 DEF WorkerFields
<1>3. s = [f \in WorkerFields |-> IF f = g THEN x ELSE r[f]]
  BY <1>2 DEF WorkerFields
<1>4. s = [f \in WorkerFields |-> s[f]] /\ s.pc = pc
  BY <1>2, <1>3 DEF WorkerFields
<1>5. worker' = [d \in Clients |-> IF d = c THEN s ELSE worker[d]]
  BY DEF ServerHalf
<1> QED BY <1>4, <1>5 DEF Moved

LEMMA WorkersAfter ==
    ASSUME ServerHalf, NEW c \in Clients, NEW pc \in Serving \cup {"none", "created", "gone"},
           Moved(c, pc)
    PROVE  /\ worker' = [d \in Clients |-> worker'[d]]
           /\ \A d \in Clients : /\ worker'[d] = [f \in WorkerFields |-> worker'[d][f]]
                                 /\ worker'[d].pc \in Serving \cup {"none", "created", "gone"}
<1>1. worker' = [d \in Clients |-> worker'[d]]  BY DEF Moved
<1> SUFFICES ASSUME NEW d \in Clients
             PROVE  /\ worker'[d] = [f \in WorkerFields |-> worker'[d][f]]
                    /\ worker'[d].pc \in Serving \cup {"none", "created", "gone"}
  BY <1>1
<1>2. CASE d = c  BY <1>2 DEF Moved
<1>3. CASE d # c
  <2>1. worker'[d] = worker[d]  BY <1>3 DEF Moved
  <2> QED BY <2>1 DEF ServerHalf
<1> QED BY <1>2, <1>3

\* A worker that was started goes on, and is still in the queue.
LEMMA WorkerRuns ==
    ASSUME ServerHalf, EndsFollow, NEW c \in Clients,
           worker[c].pc \in Serving \ {"erasing"},
           NEW pc \in Serving \ {"erasing"}, Moved(c, pc),
           UNCHANGED <<server, queue, mutex, serverEnd, client>>
    PROVE  ServerKept
<1>1. queue' = {d \in Clients : worker'[d].pc \in Serving}
  <2>1. \A d \in Clients : worker'[d].pc \in Serving <=> worker[d].pc \in Serving
    BY DEF Moved
  <2> QED BY <2>1 DEF ServerHalf
<1>0. \A d \in Clients : mutex = d <=> worker'[d].pc = "erasing"
  <2>1. worker'[c].pc # "erasing" /\ mutex # c  BY DEF ServerHalf, Moved
  <2>2. \A d \in Clients \ {c} : worker'[d] = worker[d]  BY DEF Moved
  <2> QED BY <2>1, <2>2 DEF ServerHalf
<1>3. \A d \in Clients : /\ worker'[d] = [f \in WorkerFields |-> worker'[d][f]]
                         /\ worker'[d].pc \in Serving \cup {"none", "created", "gone"}
  BY WorkersAfter
<1>4. server.acceptor \notin {"none", "accepting", "pushing"}
  BY DEF ServerHalf, Serving
<1>5. ServerHalf'
  <2> HIDE DEF ServerFields, WorkerFields
  <2> QED BY <1>1, <1>0, <1>3, <1>4 DEF ServerHalf, Moved
<1>2. EndsFollow'  BY DEF EndsFollow, Moved, Serving
<1> QED BY <1>5, <1>2 DEF ServerKept

LEMMA EndKeeps ==
    ASSUME ServerHalf, EndsFollow, ServerEnds, UNCHANGED client
    PROVE  ServerKept
<1>1. ServerHalf'  BY DEF ServerEnds, ServerHalf, ServerFields
<1>2. EndsFollow'  BY DEF ServerEnds, EndsFollow, Ends
<1> QED BY <1>1, <1>2 DEF ServerKept

\* The threads of the server.
LEMMA ThreadsKeep ==
    ASSUME ServerHalf, EndsFollow, Threads, UNCHANGED client
    PROVE  ServerKept
<1>1. CASE Start
  <2>1. ServerHalf'  BY <1>1 DEF Start, Main, ServerHalf, ServerFields
  <2>2. EndsFollow'  BY <1>1 DEF Start, EndsFollow, wire
  <2> QED BY <2>1, <2>2 DEF ServerKept
<1>2. ASSUME NEW c \in Clients, Accept(c)
      PROVE  ServerKept
  <2>1. Moved(c, "created")  BY <1>2, MovesAlone DEF Accept
  <2>2. ServerHalf'
    BY <1>2, <2>1 DEF Accept, Acceptor, Moved, ServerHalf, ServerFields, Serving
  <2>3. EndsFollow'  BY <1>2, <2>1 DEF Accept, Moved, EndsFollow, Ends
  <2> QED BY <2>2, <2>3 DEF ServerKept
<1>3. ASSUME NEW c \in Clients, StartWorker(c)
      PROVE  ServerKept
  <2>1. Moved(c, "readLength")  BY <1>3, MovesAlone DEF StartWorker
  <2>2. queue' = {d \in Clients : worker'[d].pc \in Serving}
    <3>1. queue' = queue \cup {c}  BY <1>3 DEF StartWorker
    <3>2. \A d \in Clients : worker'[d].pc \in Serving <=> d = c \/ worker[d].pc \in Serving
      BY <2>1 DEF Moved, Serving
    <3> QED BY <3>1, <3>2 DEF ServerHalf
  <2>4. \A d \in Clients : mutex' = d <=> worker'[d].pc = "erasing"
    BY <1>3, <2>1 DEF StartWorker, ServerHalf, Moved
  <2>5. \A d \in Clients : /\ worker'[d] = [f \in WorkerFields |-> worker'[d][f]]
                           /\ worker'[d].pc \in Serving \cup {"none", "created", "gone"}
    <3>1. "readLength" \in Serving \cup {"none", "created", "gone"}  BY DEF Serving
    <3> QED BY <2>1, <3>1, WorkersAfter
  <2>6. server' = [f \in ServerFields |-> server'[f]] /\ server'.acceptor = "leaving"
        /\ server'.main = server.main /\ server.acceptor = "pushing"
    BY <1>3 DEF StartWorker, Acceptor, ServerHalf, ServerFields
  <2>7. ServerHalf'
    BY <1>3, <2>1, <2>2, <2>4, <2>5, <2>6 DEF StartWorker, ServerHalf, Moved
  <2>3. EndsFollow'  BY <1>3, <2>1 DEF StartWorker, Moved, EndsFollow, wire
  <2> QED BY <2>7, <2>3 DEF ServerKept
<1>4. CASE StartLeaves \/ AcceptFails \/ WorkerLeaves
  BY <1>4, EndKeeps DEF StartLeaves, AcceptFails, WorkerLeaves
<1> QED BY <1>1, <1>2, <1>3, <1>4 DEF Threads

LEMMA WorkerKeeps ==
    ASSUME ServerHalf, EndsFollow, NEW c \in Clients, WorkerNext(c), UNCHANGED client
    PROVE  ServerKept
<1>1. ASSUME NEW pc, NEW bytes, NEW next \in {"writeText", "callback"},
             pc \in {"writeLength", "writeText"}, WorkerSend(c, pc, bytes, next)
      PROVE  ServerKept
  <2>1. worker[c].pc \in Serving \ {"erasing"} /\ next \in Serving \ {"erasing"}
    BY <1>1 DEF WorkerSend, At, Serving
  <2>2. CASE ServerEnds  BY <2>2, EndKeeps
  <2>3. CASE ~ServerEnds
    <3>1. PICK x : worker' = [worker EXCEPT ![c].pc = next, ![c].cut = x]
      BY <1>1, <2>3 DEF WorkerSend
    <3>2. UNCHANGED <<server, queue, mutex, serverEnd>>
      BY <1>1, <2>3 DEF WorkerSend
    <3>3. "cut" \in WorkerFields \ {"pc"}  BY DEF WorkerFields
    <3>4. Moved(c, next)  BY <3>1, <3>3, MovesWith
    <3> QED BY <2>1, <3>2, <3>4, WorkerRuns
  <2> QED BY <2>2, <2>3
<1>2. CASE WorkerReceiveLength(c)
  <2>1. /\ UNCHANGED <<server, queue, mutex, serverEnd>>
        /\ worker[c].pc \in Serving \ {"erasing"}
        /\ "callback" \in Serving \ {"erasing"} /\ "readText" \in Serving \ {"erasing"}
        /\ "length" \in WorkerFields \ {"pc"}
    BY <1>2 DEF WorkerReceiveLength, At, Serving, WorkerFields
  <2>2. \/ worker' = [worker EXCEPT ![c].pc = "callback"]
        \/ \E n : worker' = [worker EXCEPT ![c].pc = "readText", ![c].length = n]
    BY <1>2 DEF WorkerReceiveLength
  <2>3. Moved(c, "callback") \/ Moved(c, "readText")
    BY <2>1, <2>2, MovesAlone, MovesWith
  <2> QED BY <2>1, <2>3, WorkerRuns
<1>3. CASE WorkerReceiveText(c)
  <2>1. /\ worker[c].pc \in Serving \ {"erasing"}
        /\ "callback" \in Serving \ {"erasing"} /\ "run" \in Serving \ {"erasing"}
        /\ "text" \in WorkerFields \ {"pc"}
    BY <1>3 DEF WorkerReceiveText, At, Serving, WorkerFields
  <2>2. CASE ServerEnds  BY <2>2, EndKeeps
  <2>3. CASE ~ServerEnds
    <3>1. UNCHANGED <<server, queue, mutex, serverEnd>>
      BY <1>3, <2>3 DEF WorkerReceiveText
    <3>2. \/ worker' = [worker EXCEPT ![c].pc = "callback"]
          \/ \E s : worker' = [worker EXCEPT ![c].pc = "run", ![c].text = s]
      BY <1>3, <2>3 DEF WorkerReceiveText
    <3>3. Moved(c, "callback") \/ Moved(c, "run")
      BY <2>1, <3>2, MovesAlone, MovesWith
    <3> QED BY <2>1, <3>1, <3>3, WorkerRuns
  <2> QED BY <2>2, <2>3
<1>4. CASE Run(c)
  <2>1. /\ worker[c].pc \in Serving \ {"erasing"}
        /\ "writeLength" \in Serving \ {"erasing"}
        /\ "answer" \in WorkerFields \ {"pc"}
    BY <1>4 DEF Run, At, Serving, WorkerFields
  <2>2. CASE ServerEnds  BY <2>2, EndKeeps
  <2>3. CASE ~ServerEnds
    <3>1. PICK x : worker' = [worker EXCEPT ![c].pc = "writeLength", ![c].answer = x]
      BY <1>4, <2>3 DEF Run
    <3>2. UNCHANGED <<server, queue, mutex, serverEnd>>
      BY <1>4, <2>3 DEF Run, wire
    <3> QED BY <2>1, <3>1, <3>2, MovesWith, WorkerRuns
  <2> QED BY <2>2, <2>3
<1>5. CASE Callback(c)
  <2>1. Moved(c, "erasing")  BY <1>5, MovesAlone DEF Callback
  <2>2. /\ worker[c].pc = "callback" /\ mutex = "" /\ mutex' = c
        /\ UNCHANGED <<server, queue, serverEnd>>
    BY <1>5 DEF Callback, At, wire
  <2>3. queue' = {d \in Clients : worker'[d].pc \in Serving}
    <3>1. \A d \in Clients : worker'[d].pc \in Serving <=> worker[d].pc \in Serving
      BY <2>1, <2>2 DEF Moved, Serving
    <3> QED BY <2>2, <3>1 DEF ServerHalf
  <2>4. \A d \in Clients : mutex' = d <=> worker'[d].pc = "erasing"
    <3> SUFFICES ASSUME NEW d \in Clients PROVE d = c <=> worker'[d].pc = "erasing"
      BY <2>2
    <3>1. CASE d = c  BY <2>1, <3>1 DEF Moved
    <3>2. CASE d # c
      <4>1. worker'[d] = worker[d]  BY <2>1, <3>2 DEF Moved
      <4>2. worker[d].pc # "erasing"  BY <2>2, NamesAssumption DEF ServerHalf
      <4> QED BY <3>2, <4>1, <4>2
    <3> QED BY <3>1, <3>2
  <2>5. server.acceptor \notin {"none", "accepting", "pushing"}
    BY <2>2 DEF ServerHalf
  <2>6. "erasing" \in Serving  BY DEF Serving
  <2>7. ServerHalf'  BY <2>1, <2>2, <2>3, <2>4, <2>5, <2>6, WorkersAfter DEF ServerHalf
  <2>8. EndsFollow'  BY <2>1, <2>2 DEF EndsFollow, Moved
  <2> QED BY <2>7, <2>8 DEF ServerKept
<1>6. CASE Erase(c)
  <2>1. Moved(c, "gone")  BY <1>6, MovesAlone DEF Erase
  <2>2. /\ worker[c].pc = "erasing" /\ mutex = c /\ mutex' = "" /\ queue' = queue \ {c}
        /\ UNCHANGED server /\ serverEnd' = [serverEnd EXCEPT ![c] = "closed"]
    BY <1>6 DEF Erase, At, ServerHalf, Erased
  <2>3. queue' = {d \in Clients : worker'[d].pc \in Serving}
    <3>1. \A d \in Clients : worker'[d].pc \in Serving <=> d # c /\ worker[d].pc \in Serving
      BY <2>1, <2>2 DEF Moved, Serving
    <3> QED BY <2>2, <3>1 DEF ServerHalf
  <2>4. \A d \in Clients : mutex' = d <=> worker'[d].pc = "erasing"
    BY <2>1, <2>2, NamesAssumption DEF ServerHalf, Moved
  <2>5. server.acceptor \notin {"none", "accepting", "pushing"}
    BY <2>2 DEF ServerHalf
  <2>6. ServerHalf'  BY <2>1, <2>2, <2>3, <2>4, <2>5, WorkersAfter DEF ServerHalf
  <2>7. EndsFollow'  BY <2>1, <2>2 DEF EndsFollow, Moved, Ends
  <2> QED BY <2>6, <2>7 DEF ServerKept
<1>7. CASE WorkerSendLength(c)  BY <1>1, <1>7 DEF WorkerSendLength
<1>8. CASE WorkerSendText(c)  BY <1>1, <1>8 DEF WorkerSendText
<1> QED BY <1>2, <1>3, <1>4, <1>5, <1>6, <1>7, <1>8 DEF WorkerNext

-----------------------------------------------------------------------------
LEMMA StepKeeps == IInv /\ [Next]_vars => IInv'
<1> SUFFICES ASSUME IInv, [Next]_vars PROVE IInv'  OBVIOUS
<1>1. ASSUME NEW c \in Clients, CallerStep(c) \/ WorkStep(c)
      PROVE  IInv'
  <2>1. ClientHalf'  BY <1>1, CallerKeeps, WorkKeeps DEF IInv
  <2>2. EndsFollow'  BY <1>1, ClientEndsFollow
  <2>3. UNCHANGED svars  BY <1>1 DEF CallerStep, WorkStep
  <2>4. ServerHalf'  BY <2>3 DEF IInv, ServerHalf, svars
  <2> QED BY <2>1, <2>2, <2>4 DEF IInv
<1>2. CASE ServerStep
  <2>1. UNCHANGED client  BY <1>2 DEF ServerStep, cvars
  <2>2. ServerKept  BY <1>2, <2>1, ThreadsKeep, WorkerKeeps DEF ServerStep, IInv
  <2> QED BY <2>1, <2>2 DEF IInv, ClientHalf, ServerKept
<1>3. CASE UNCHANGED vars
  BY <1>3 DEF vars, IInv, ClientHalf, EndsFollow, ServerHalf
<1> QED BY <1>1, <1>2, <1>3 DEF Next

LEMMA Invariant == Spec => []IInv
<1>1. Init => IInv  BY InitKeeps
<1>2. IInv /\ [Next]_vars => IInv'  BY StepKeeps
<1> QED BY <1>1, <1>2, PTL DEF Spec

\* For any number of clients and any program, the queue holds the workers that
\* were started and not deleted, and a worker holds the mutex exactly while it
\* is being deleted (MISServer.cpp:26-56).
THEOREM QueueFollowsWorkers == Spec => []SessionOK
<1>1. IInv => SessionOK
  BY DEF IInv, ClientHalf, EndsFollow, ServerHalf, SessionOK, Callers
<1> QED BY <1>1, Invariant, PTL

\* However many clients there are, workingQueue does not grow while garbage()
\* erases from it: when a worker runs, the acceptor is about to end the process
\* (MISServer.cpp:35, 43-56, 75).
THEOREM QueueSafe == Spec => []QueueNotRaced
<1>1. IInv => QueueNotRaced
  <2> SUFFICES ASSUME IInv, server.acceptor = "pushing", mutex # ""
               PROVE  FALSE
    BY DEF QueueNotRaced
  <2>1. mutex \in Clients /\ worker[mutex].pc = "erasing"
    BY DEF IInv, ServerHalf
  <2> QED BY <2>1 DEF IInv, ServerHalf
<1> QED BY <1>1, Invariant, PTL
-----------------------------------------------------------------------------
(* The bytes from the server.                                              *)

\* The header of an answer of n bytes and k bytes of the answer; k bytes of
\* the answer alone.
HeaderThen(n, k) ==
    [i \in 1..(k + 4) |-> IF i <= 4 THEN Header(n)[i] ELSE <<"answer", i - 4>>]
AnswerPart(k) == [i \in 1..k |-> <<"answer", i>>]

\* The worker is past the writing of its header, or has nothing to write.
Past == {"writeText", "callback", "erasing", "gone"}
BeforeLength == HeaderPcs \cup {"writeText", "repeatText", "readLength"}

\* What is on its way to a client that has not closed its end: a header and
\* what was sent of its answer, then, when the header is read, what was sent.
Sends(c, k) == k \in 0..worker[c].answer /\ (worker[c].pc = "writeText" => k = 0)
Unread(c) ==
    \/ worker[c].pc # "writeText" /\ toClient[c] = <<>>
    \/ \E k \in Nat : Sends(c, k) /\ toClient[c] = HeaderThen(worker[c].answer, k)
HeaderRead(c) == \E k \in Nat : Sends(c, k) /\ toClient[c] = AnswerPart(k)
Printed(c) == worker[c].answer >= 4 /\ IsPrefix(AnswerPart(4), client[c].printed)
Stream(c) ==
    /\ worker[c].pc \notin Past =>
         toClient[c] = <<>> /\ client[c].pc # "readText" /\ client[c].printed = <<>>
    /\ worker[c].pc \in Past /\ ~worker[c].cut =>
         /\ clientEnd[c] # "closed" /\ client[c].pc \in BeforeLength => Unread(c)
         /\ clientEnd[c] # "closed" /\ client[c].pc = "readText" => HeaderRead(c)
         /\ client[c].printed # <<>> => Printed(c)

\* A client that has closed its end reads no more.
ClosedEnds(c) ==
    /\ client[c].caller = "calling" => client[c].pc = "idle"
    /\ clientEnd[c] = "closed" => client[c].caller = "killed" \/ client[c].pc = "done"

Streams(c) == worker[c].answer \in Nat /\ Stream(c) /\ ClosedEnds(c)
StreamInv ==
    /\ toClient = [c \in Clients |-> toClient[c]]
    /\ clientEnd = [c \in Clients |-> clientEnd[c]]
    /\ \A c \in Clients : Streams(c)

LEMMA StreamInit == Init => StreamInv
<1> SUFFICES ASSUME Init PROVE StreamInv  OBVIOUS
<1>1. \A c \in Clients : /\ toClient[c] = <<>> /\ clientEnd[c] = "none"
                         /\ client[c].caller = "calling" /\ client[c].pc = "idle"
                         /\ client[c].printed = <<>>
                         /\ worker[c].pc = "none" /\ worker[c].answer = 0
  BY DEF Init, WireInit, ClientInit, ServerInit
<1>2. \A c \in Clients : Streams(c)  BY <1>1 DEF Streams, Stream, ClosedEnds, Past
<1> QED BY <1>2 DEF Init, WireInit, StreamInv

\* A step of another client or of its worker.
LEMMA StaysTheSame ==
    ASSUME NEW c \in Clients, Streams(c),
           worker'[c] = worker[c], client'[c] = client[c],
           toClient'[c] = toClient[c], clientEnd'[c] = clientEnd[c]
    PROVE  Streams(c)'
BY DEF Streams, Stream, ClosedEnds, Unread, HeaderRead, Sends, Printed

-----------------------------------------------------------------------------
\* What is read, what is left, and what is put together.
LEMMA ReadFour ==
    ASSUME NEW bytes, NEW max, NEW gone \in BOOLEAN, NEW r \in Reads(bytes, max, gone),
           r.count = 4
    PROVE  /\ Len(bytes) >= 4 /\ r.bytes = SubSeq(bytes, 1, 4)
           /\ bytes # <<>>
<1>1. PICK j \in Chunks(bytes, max) : r = [count |-> j, bytes |-> SubSeq(bytes, 1, j)]
  BY DEF Reads
<1>2. j = 4 /\ r.bytes = SubSeq(bytes, 1, 4)  BY <1>1
<1>3. 4 \in 0..Len(bytes)  BY <1>1, <1>2 DEF Chunks
<1> QED BY <1>2, <1>3

LEMMA EmptyRest ==
    ASSUME NEW max, NEW gone, NEW r \in Reads(<<>>, max, gone)
    PROVE  SubSeq(<<>>, Len(r.bytes) + 1, Len(<<>>)) = <<>>
<1>1. PICK b : (r.bytes = SubSeq(<<>>, 1, b) /\ b \in 0..0) \/ r.bytes = <<>>
  BY DEF Reads, Chunks
<1> QED BY <1>1, SubSeqEmpty, EmptySeq

\* The bytes that a header and an answer are made of.
AnswerBytes(n) == {Header(n)[i] : i \in 1..4} \cup ({"answer"} \X Nat)

LEMMA FunctionsAreSeqs ==
    ASSUME NEW S, NEW m \in Nat, NEW f \in [1..m -> S]
    PROVE  f \in Seq(S) /\ Len(f) = m
<1>1. f \in Seq(S)  BY SeqDef
<1>2. DOMAIN f = 1..m /\ DOMAIN f = 1..Len(f) /\ Len(f) \in Nat  BY <1>1, LenProperties
<1> QED BY <1>1, <1>2

LEMMA Parts ==
    ASSUME NEW n, NEW k \in Nat
    PROVE  /\ HeaderThen(n, k) \in Seq(AnswerBytes(n)) /\ Len(HeaderThen(n, k)) = k + 4
           /\ AnswerPart(k) \in Seq(AnswerBytes(n)) /\ Len(AnswerPart(k)) = k
           /\ Header(n) \in Seq(AnswerBytes(n)) /\ Len(Header(n)) = 4
<1>2. HeaderThen(n, k) \in [1..(k + 4) -> AnswerBytes(n)]
  BY DEF HeaderThen, AnswerBytes
<1>3. AnswerPart(k) \in [1..k -> AnswerBytes(n)]
  BY DEF AnswerPart, AnswerBytes
<1>4. Header(n) \in [1..4 -> AnswerBytes(n)]
  BY DEF Header, AnswerBytes
<1>5. k + 4 \in Nat /\ 4 \in Nat  OBVIOUS
<1> HIDE DEF AnswerBytes
<1> QED BY <1>2, <1>3, <1>4, <1>5, FunctionsAreSeqs

LEMMA AfterHeader ==
    ASSUME NEW n, NEW k \in Nat
    PROVE  SubSeq(HeaderThen(n, k), 5, k + 4) = AnswerPart(k)
<1>1. /\ SubSeq(HeaderThen(n, k), 5, k + 4) \in Seq(AnswerBytes(n))
      /\ Len(SubSeq(HeaderThen(n, k), 5, k + 4)) = k
      /\ \A i \in 1..k : SubSeq(HeaderThen(n, k), 5, k + 4)[i] = HeaderThen(n, k)[5 + i - 1]
  BY Parts, SubSeqProperties
<1>2. \A i \in 1..k : HeaderThen(n, k)[5 + i - 1] = AnswerPart(k)[i]
  BY DEF HeaderThen, AnswerPart
<1> QED BY <1>1, <1>2, Parts, SeqEqual

LEMMA FirstOfAnswer ==
    ASSUME NEW k \in Nat, NEW j \in 0..k
    PROVE  SubSeq(AnswerPart(k), 1, j) = AnswerPart(j)
<1>1. /\ SubSeq(AnswerPart(k), 1, j) \in Seq(AnswerBytes(0))
      /\ Len(SubSeq(AnswerPart(k), 1, j)) = j
      /\ \A i \in 1..j : SubSeq(AnswerPart(k), 1, j)[i] = AnswerPart(k)[1 + i - 1]
  BY Parts, SubSeqProperties
<1>2. \A i \in 1..j : AnswerPart(k)[1 + i - 1] = AnswerPart(j)[i]
  BY DEF AnswerPart
<1> QED BY <1>1, <1>2, Parts, SeqEqual

LEMMA WithAnswer ==
    ASSUME NEW n, NEW k \in Nat
    PROVE  /\ <<>> \o SubSeq(Header(n), 1, 4) = HeaderThen(n, 0)
           /\ HeaderThen(n, 0) \o AnswerPart(k) = HeaderThen(n, k)
           /\ AnswerPart(0) \o AnswerPart(k) = AnswerPart(k)
<1>1. /\ HeaderThen(n, 0) \o AnswerPart(k) \in Seq(AnswerBytes(n))
      /\ Len(HeaderThen(n, 0) \o AnswerPart(k)) = k + 4
      /\ \A i \in 1..(k + 4) : (HeaderThen(n, 0) \o AnswerPart(k))[i] =
                                IF i <= 4 THEN HeaderThen(n, 0)[i] ELSE AnswerPart(k)[i - 4]
  BY Parts, ConcatProperties
<1>2. \A i \in 1..(k + 4) : HeaderThen(n, k)[i] =
                                IF i <= 4 THEN HeaderThen(n, 0)[i] ELSE AnswerPart(k)[i - 4]
  BY DEF HeaderThen, AnswerPart
<1>3. HeaderThen(n, 0) \o AnswerPart(k) = HeaderThen(n, k)
  <2> DEFINE B == AnswerBytes(n)  x == HeaderThen(n, 0) \o AnswerPart(k)
             y == HeaderThen(n, k)
  <2>1. y \in Seq(B) /\ Len(y) = k + 4  BY Parts
  <2>2. x \in Seq(B) /\ Len(x) = k + 4 /\ \A i \in 1..(k + 4) : x[i] = y[i]
    BY <1>1, <1>2
  <2> HIDE DEF B, x, y
  <2>3. x = y  BY <2>1, <2>2, SeqEqual
  <2> QED BY <2>3 DEF x, y
<1>4. AnswerPart(0) = <<>>  BY Parts, EmptySeq
<1>5. Header(n) = HeaderThen(n, 0)
  <2>1. \A i \in 1..4 : Header(n)[i] = HeaderThen(n, 0)[i]  BY DEF HeaderThen
  <2> QED BY <2>1, Parts, SeqEqual
<1>6. SubSeq(Header(n), 1, 4) = Header(n)  BY Parts, SubSeqFull
<1> QED BY <1>3, <1>4, <1>5, <1>6, Parts, ConcatEmptySeq

-----------------------------------------------------------------------------
\* The worker of c takes a step that writes nothing to its client.
LEMMA SilentWorker ==
    ASSUME NEW c \in Clients, Streams(c), worker'[c].answer \in Nat,
           worker[c].pc # "writeText", worker'[c].pc # "writeText",
           worker[c].pc \in Past => /\ worker'[c].pc \in Past
                                    /\ worker'[c].answer = worker[c].answer
                                    /\ worker'[c].cut = worker[c].cut,
           client'[c] = client[c], toClient'[c] = toClient[c], clientEnd'[c] = clientEnd[c]
    PROVE  Streams(c)'
<1>1. ClosedEnds(c)'  BY DEF Streams, ClosedEnds
<1>2. CASE worker[c].pc \notin Past
  BY <1>1, <1>2 DEF Streams, Stream, BeforeLength, Unread
<1>3. CASE worker[c].pc \in Past
  BY <1>1, <1>3 DEF Streams, Stream, Unread, HeaderRead, Sends, Printed
<1> QED BY <1>2, <1>3

\* The worker writes its header: whole, cut, or to a client that is gone.
LEMMA HeaderStreams ==
    ASSUME IInv, StreamInv, NEW c \in Clients, WorkerSendLength(c), ~ServerEnds,
           UNCHANGED client
    PROVE  Streams(c)'
<1> DEFINE n == worker[c].answer
           end == IF clientEnd[c] = "closed" THEN "closed" ELSE "open"
<1>1. PICK w \in Writes(toClient[c], Header(n), end) :
        /\ toClient' = [toClient EXCEPT ![c] = w.bytes]
        /\ worker' = [worker EXCEPT ![c].pc = "writeText",
                         ![c].cut = @ \/ w.count < 4]
        /\ UNCHANGED clientEnd
  BY DEF WorkerSendLength, WorkerSend
<1>2. worker[c].pc = "writeLength" /\ worker[c] = [f \in WorkerFields |-> worker[c][f]]
  BY DEF WorkerSendLength, WorkerSend, At, IInv, ServerHalf
<1>3. /\ worker'[c].pc = "writeText" /\ worker'[c].answer = n
      /\ worker'[c].cut = (worker[c].cut \/ w.count < 4)
  BY <1>1, <1>2 DEF IInv, ServerHalf, WorkerFields
<1>4. toClient'[c] = w.bytes  BY <1>1 DEF StreamInv
<1>5. /\ n \in Nat /\ ClosedEnds(c) /\ toClient[c] = <<>>
      /\ client[c].pc # "readText" /\ client[c].printed = <<>>
  BY <1>2 DEF StreamInv, Streams, Stream, Past
<1>6. clientEnd[c] # "closed" /\ ~(w.count < 4) => w.bytes = HeaderThen(n, 0)
  <2> SUFFICES ASSUME clientEnd[c] # "closed", ~(w.count < 4)
               PROVE  w.bytes = HeaderThen(n, 0)
    OBVIOUS
  <2>1. PICK k \in Chunks(Header(n), Len(Header(n))) : w = Sent(<<>>, k, Header(n))
    BY <1>5 DEF Writes
  <2>2. k \in 0..4 /\ w.count = k /\ w.bytes = <<>> \o SubSeq(Header(n), 1, k)
    <3>1. Len(Header(n)) = 4  BY Parts
    <3> QED BY <2>1, <3>1 DEF Chunks, Sent
  <2>3. k = 4  BY <2>2
  <2> QED BY <2>2, <2>3, <1>5, WithAnswer
<1>7. clientEnd'[c] # "closed" /\ ~worker'[c].cut => Unread(c)'
  <2>1. 0 \in 0..n  BY <1>5
  <2> QED BY <1>1, <1>3, <1>4, <1>6, <2>1 DEF Unread, Sends
<1>8. Stream(c)'  BY <1>3, <1>5, <1>7 DEF Stream, Past
<1>9. ClosedEnds(c)'  BY <1>1, <1>5 DEF ClosedEnds
<1> QED BY <1>3, <1>5, <1>8, <1>9 DEF Streams

\* The worker writes its answer, after the header or after what was read of it.
LEMMA AnswerStreams ==
    ASSUME IInv, StreamInv, NEW c \in Clients, WorkerSendText(c), ~ServerEnds,
           UNCHANGED client
    PROVE  Streams(c)'
<1> DEFINE n == worker[c].answer
           end == IF clientEnd[c] = "closed" THEN "closed" ELSE "open"
<1>0. [k \in 1..n |-> <<"answer", k>>] = AnswerPart(n)  BY DEF AnswerPart
<1>1. PICK w \in Writes(toClient[c], AnswerPart(n), end) :
        /\ toClient' = [toClient EXCEPT ![c] = w.bytes]
        /\ worker' = [worker EXCEPT ![c].pc = "callback", ![c].cut = @ \/ FALSE]
        /\ UNCHANGED clientEnd
  BY <1>0 DEF WorkerSendText, WorkerSend
<1>2. worker[c].pc = "writeText" /\ worker[c] = [f \in WorkerFields |-> worker[c][f]]
  BY DEF WorkerSendText, WorkerSend, At, IInv, ServerHalf
<1>3. /\ worker'[c].pc = "callback" /\ worker'[c].answer = n
      /\ worker'[c].cut = (worker[c].cut \/ FALSE)
  BY <1>1, <1>2 DEF IInv, ServerHalf, WorkerFields
<1>4. toClient'[c] = w.bytes  BY <1>1 DEF StreamInv
<1>5. n \in Nat /\ ClosedEnds(c) /\ Stream(c)  BY DEF StreamInv, Streams
<1>6. clientEnd[c] # "closed" =>
        \E k \in 0..n : w.bytes = toClient[c] \o AnswerPart(k)
  <2> SUFFICES ASSUME clientEnd[c] # "closed"
               PROVE  \E k \in 0..n : w.bytes = toClient[c] \o AnswerPart(k)
    OBVIOUS
  <2>1. PICK k \in Chunks(AnswerPart(n), Len(AnswerPart(n))) :
          w = Sent(toClient[c], k, AnswerPart(n))
    BY DEF Writes
  <2>2. k \in 0..n  BY <1>5, <2>1, Parts DEF Chunks
  <2>3. w.bytes = toClient[c] \o SubSeq(AnswerPart(n), 1, k)  BY <2>1 DEF Sent
  <2> QED BY <1>5, <2>2, <2>3, FirstOfAnswer
<1>7. ASSUME ~worker'[c].cut, clientEnd'[c] # "closed", client'[c].pc \in BeforeLength
      PROVE  Unread(c)'
  <2>1. Unread(c)  BY <1>1, <1>2, <1>3, <1>5, <1>7 DEF Stream, Past
  <2>2. toClient[c] = HeaderThen(n, 0)  BY <1>2, <2>1 DEF Unread, Sends
  <2>3. PICK k \in 0..n : w.bytes = toClient[c] \o AnswerPart(k)
    BY <1>1, <1>6, <1>7
  <2>4. k \in Nat  BY <1>5
  <2>5. HeaderThen(n, 0) \o AnswerPart(k) = HeaderThen(n, k)  BY <2>4, WithAnswer
  <2>6. toClient'[c] = HeaderThen(n, k)  BY <1>4, <2>2, <2>3, <2>5
  <2> QED BY <1>3, <1>5, <2>4, <2>6 DEF Unread, Sends
<1>8. ASSUME ~worker'[c].cut, clientEnd'[c] # "closed", client'[c].pc = "readText"
      PROVE  HeaderRead(c)'
  <2>1. HeaderRead(c)  BY <1>1, <1>2, <1>3, <1>5, <1>8 DEF Stream, Past
  <2>2. toClient[c] = AnswerPart(0)  BY <1>2, <2>1 DEF HeaderRead, Sends
  <2>3. PICK k \in 0..n : w.bytes = toClient[c] \o AnswerPart(k)
    BY <1>1, <1>6, <1>8
  <2>4. k \in Nat  BY <1>5
  <2>5. AnswerPart(0) \o AnswerPart(k) = AnswerPart(k)  BY <2>4, WithAnswer
  <2>6. toClient'[c] = AnswerPart(k)  BY <1>4, <2>2, <2>3, <2>5
  <2> QED BY <1>3, <1>5, <2>4, <2>6 DEF HeaderRead, Sends
<1>9. ~worker'[c].cut /\ client'[c].printed # <<>> => Printed(c)'
  BY <1>2, <1>3, <1>5 DEF Stream, Past, Printed
<1>10. Stream(c)'  BY <1>3, <1>7, <1>8, <1>9 DEF Stream, Past
<1>11. ClosedEnds(c)'  BY <1>1, <1>5 DEF ClosedEnds
<1> QED BY <1>3, <1>5, <1>10, <1>11 DEF Streams

-----------------------------------------------------------------------------
LEMMA EndStreams ==
    ASSUME StreamInv, ServerEnds, UNCHANGED client
    PROVE  StreamInv'
<1>1. UNCHANGED <<worker, toClient, clientEnd>>  BY DEF ServerEnds
<1>2. \A c \in Clients : Streams(c)'  BY <1>1, StaysTheSame DEF StreamInv
<1> QED BY <1>1, <1>2 DEF StreamInv

\* A step of one worker, or of the acceptor for it, that writes nothing.
LEMMA QuietStep ==
    ASSUME IInv, StreamInv, NEW c \in Clients, NEW pc, Moved(c, pc),
           worker'[c].answer \in Nat, worker[c].pc # "writeText", pc # "writeText",
           worker[c].pc \in Past => /\ pc \in Past
                                    /\ worker'[c].answer = worker[c].answer
                                    /\ worker'[c].cut = worker[c].cut,
           UNCHANGED <<client, toClient, clientEnd>>
    PROVE  StreamInv'
<1>1. \A d \in Clients : Streams(d)  BY DEF StreamInv
<1>2. worker'[c].pc = pc  BY DEF Moved
<1>3. Streams(c)'  BY <1>1, <1>2, SilentWorker
<1>4. ASSUME NEW d \in Clients \ {c} PROVE Streams(d)'
  BY <1>1, StaysTheSame DEF Moved
<1> QED BY <1>3, <1>4 DEF StreamInv

LEMMA ThreadsStream ==
    ASSUME IInv, StreamInv, Threads, UNCHANGED client
    PROVE  StreamInv'
<1> USE DEF IInv
<1>1. CASE Start
  <2>1. UNCHANGED <<worker, toClient, clientEnd>>  BY <1>1 DEF Start, wire
  <2>2. \A c \in Clients : Streams(c)'  BY <2>1, StaysTheSame DEF StreamInv
  <2> QED BY <2>1, <2>2 DEF StreamInv
<1>2. ASSUME NEW c \in Clients, Accept(c)
      PROVE  StreamInv'
  <2>1. /\ worker' = [worker EXCEPT ![c].pc = "created"]
        /\ UNCHANGED <<toClient, clientEnd>>
        /\ server.acceptor = "accepting"
    BY <1>2 DEF Accept, Acceptor
  <2>2. Moved(c, "created") /\ worker[c].pc = "none"
    BY <2>1, MovesAlone DEF ServerHalf
  <2>3. worker'[c].answer = worker[c].answer /\ worker[c].answer \in Nat
    <3>1. "answer" \in WorkerFields \ {"pc"}  BY DEF WorkerFields
    <3>2. worker[c].answer \in Nat  BY DEF StreamInv, Streams
    <3> QED BY <2>1, <3>1, <3>2, MovesOnly
  <2> QED BY <2>1, <2>2, <2>3, QuietStep DEF Past
<1>3. ASSUME NEW c \in Clients, StartWorker(c)
      PROVE  StreamInv'
  <2>1. /\ worker' = [worker EXCEPT ![c].pc = "readLength"]
        /\ UNCHANGED <<toClient, clientEnd>> /\ worker[c].pc = "created"
    BY <1>3 DEF StartWorker, wire
  <2>2. Moved(c, "readLength")  BY <2>1, MovesAlone
  <2>3. worker'[c].answer = worker[c].answer /\ worker[c].answer \in Nat
    <3>1. "answer" \in WorkerFields \ {"pc"}  BY DEF WorkerFields
    <3>2. worker[c].answer \in Nat  BY DEF StreamInv, Streams
    <3> QED BY <2>1, <3>1, <3>2, MovesOnly
  <2> QED BY <2>1, <2>2, <2>3, QuietStep DEF Past
<1>4. CASE StartLeaves \/ AcceptFails \/ WorkerLeaves
  BY <1>4, EndStreams DEF StartLeaves, AcceptFails, WorkerLeaves
<1> QED BY <1>1, <1>2, <1>3, <1>4 DEF Threads

\* The size of what a program prints first.
LEMMA FirstIsSize ==
    ASSUME NEW words \in Outputs
    PROVE  FirstWord(words) \in Nat
<1>1. words \in Seq(Nat)  BY OutputsAssumption
<1> QED BY <1>1 DEF FirstWord

LEMMA WorkersStream ==
    ASSUME IInv, StreamInv, NEW c \in Clients, WorkerNext(c), UNCHANGED client
    PROVE  StreamInv'
<1> USE DEF IInv
<1>0. /\ worker[c] = [f \in WorkerFields |-> worker[c][f]]
      /\ worker = [d \in Clients |-> worker[d]]
      /\ worker[c].answer \in Nat
  BY DEF ServerHalf, StreamInv, Streams
<1>1. CASE ServerEnds  BY <1>1, EndStreams
<1>2. CASE WorkerReceiveLength(c)
  <2>1. /\ worker[c].pc = "readLength" /\ UNCHANGED <<toClient, clientEnd>>
        /\ \/ worker' = [worker EXCEPT ![c].pc = "callback"]
           \/ \E n : worker' = [worker EXCEPT ![c].pc = "readText", ![c].length = n]
    BY <1>2 DEF WorkerReceiveLength, At
  <2>2. \/ Moved(c, "callback") /\ worker'[c].answer = worker[c].answer
        \/ Moved(c, "readText") /\ worker'[c].answer = worker[c].answer
    <3>1. CASE worker' = [worker EXCEPT ![c].pc = "callback"]
      BY <1>0, <3>1, MovesAlone DEF WorkerFields
    <3>2. ASSUME NEW n, worker' = [worker EXCEPT ![c].pc = "readText", ![c].length = n]
          PROVE  Moved(c, "readText") /\ worker'[c].answer = worker[c].answer
      <4>1. "length" \in WorkerFields \ {"pc"}  BY DEF WorkerFields
      <4>2. Moved(c, "readText")  BY <3>2, <4>1, MovesWith
      <4> QED BY <1>0, <3>2, <4>2 DEF WorkerFields
    <3> QED BY <2>1, <3>1, <3>2
  <2> QED BY <1>0, <2>1, <2>2, QuietStep DEF Past
<1>3. CASE WorkerReceiveText(c) /\ ~ServerEnds
  <2>1. /\ worker[c].pc = "readText" /\ UNCHANGED <<toClient, clientEnd>>
        /\ \/ worker' = [worker EXCEPT ![c].pc = "callback"]
           \/ \E s : worker' = [worker EXCEPT ![c].pc = "run", ![c].text = s]
    BY <1>3 DEF WorkerReceiveText, At
  <2>2. \/ Moved(c, "callback") /\ worker'[c].answer = worker[c].answer
        \/ Moved(c, "run") /\ worker'[c].answer = worker[c].answer
    <3>1. CASE worker' = [worker EXCEPT ![c].pc = "callback"]
      BY <1>0, <3>1, MovesAlone DEF WorkerFields
    <3>2. ASSUME NEW s, worker' = [worker EXCEPT ![c].pc = "run", ![c].text = s]
          PROVE  Moved(c, "run") /\ worker'[c].answer = worker[c].answer
      <4>1. "text" \in WorkerFields \ {"pc"}  BY DEF WorkerFields
      <4>2. Moved(c, "run")  BY <3>2, <4>1, MovesWith
      <4> QED BY <1>0, <3>2, <4>2 DEF WorkerFields
    <3> QED BY <2>1, <3>1, <3>2
  <2> QED BY <1>0, <2>1, <2>2, QuietStep DEF Past
<1>4. CASE Run(c) /\ ~ServerEnds
  <2>1. PICK words \in Outputs :
          worker' = [worker EXCEPT ![c].pc = "writeLength", ![c].answer = FirstWord(words)]
    BY <1>4 DEF Run
  <2>2. worker[c].pc = "run" /\ UNCHANGED <<toClient, clientEnd>>
    BY <1>4 DEF Run, At, wire
  <2>3. "answer" \in WorkerFields \ {"pc"}  BY DEF WorkerFields
  <2>4. Moved(c, "writeLength")  BY <2>1, <2>3, MovesWith
  <2>5. worker'[c].answer \in Nat  BY <1>0, <2>1, FirstIsSize DEF WorkerFields
  <2> QED BY <2>2, <2>4, <2>5, QuietStep DEF Past
<1>5. CASE Callback(c)
  <2>1. /\ worker[c].pc = "callback" /\ UNCHANGED <<toClient, clientEnd>>
        /\ worker' = [worker EXCEPT ![c].pc = "erasing"]
    BY <1>5 DEF Callback, At, wire
  <2>2. Moved(c, "erasing")  BY <2>1, MovesAlone
  <2>3. worker'[c].answer = worker[c].answer /\ worker'[c].cut = worker[c].cut
    BY <1>0, <2>1 DEF WorkerFields
  <2> QED BY <1>0, <2>1, <2>2, <2>3, QuietStep DEF Past
<1>6. CASE Erase(c)
  <2>1. /\ worker[c].pc = "erasing" /\ UNCHANGED <<toClient, clientEnd>>
        /\ worker' = [worker EXCEPT ![c].pc = "gone"]
    BY <1>6 DEF Erase, At
  <2>2. Moved(c, "gone")  BY <2>1, MovesAlone
  <2>3. worker'[c].answer = worker[c].answer /\ worker'[c].cut = worker[c].cut
    BY <1>0, <2>1 DEF WorkerFields
  <2> QED BY <1>0, <2>1, <2>2, <2>3, QuietStep DEF Past
<1>7. ASSUME ~ServerEnds, WorkerSendLength(c) \/ WorkerSendText(c)
      PROVE  StreamInv'
  <2>1. PICK pc, bytes, next : WorkerSend(c, pc, bytes, next)
    BY <1>7 DEF WorkerSendLength, WorkerSendText
  <2>2. PICK w, x : /\ toClient' = [toClient EXCEPT ![c] = w.bytes]
                    /\ worker' = [worker EXCEPT ![c].pc = next, ![c].cut = x]
                    /\ UNCHANGED clientEnd
    BY <1>7, <2>1 DEF WorkerSend
  <2>3. Streams(c)'  BY <1>7, HeaderStreams, AnswerStreams
  <2>4. ASSUME NEW d \in Clients \ {c} PROVE Streams(d)'
    <3>1. /\ toClient'[d] = toClient[d] /\ worker'[d] = worker[d]
          /\ clientEnd'[d] = clientEnd[d] /\ client'[d] = client[d]
      BY <1>0, <2>2 DEF StreamInv
    <3> QED BY <3>1, StaysTheSame DEF StreamInv
  <2> QED BY <2>2, <2>3, <2>4 DEF StreamInv
<1> QED BY <1>1, <1>2, <1>3, <1>4, <1>5, <1>6, <1>7 DEF WorkerNext

-----------------------------------------------------------------------------
\* A step of c as a client leaves the other streams alone.
LEMMA OtherStreams ==
    ASSUME StreamInv, NEW c \in Clients, UNCHANGED worker, Streams(c)',
           toClient' = [d \in Clients |-> toClient'[d]],
           clientEnd' = [d \in Clients |-> clientEnd'[d]],
           \A d \in Clients \ {c} : /\ client'[d] = client[d] /\ toClient'[d] = toClient[d]
                                    /\ clientEnd'[d] = clientEnd[d]
    PROVE  StreamInv'
<1>1. \A d \in Clients \ {c} : Streams(d)'  BY StaysTheSame DEF StreamInv
<1> QED BY <1>1 DEF StreamInv

\* What a step of c does to what the invariant says of c: it reads nothing and
\* prints nothing, and if it goes on it stays before the length or after the
\* text.
LEMMA QuietClient ==
    ASSUME NEW c \in Clients, Streams(c),
           UNCHANGED worker, toClient'[c] = toClient[c],
           client'[c].printed = client[c].printed,
           ClosedEnds(c)',
           client'[c].pc = "readText" => client[c].pc = "readText",
           clientEnd'[c] # "closed" => clientEnd[c] # "closed",
           client'[c].pc \in BeforeLength => client[c].pc \in BeforeLength
    PROVE  Streams(c)'
BY DEF Streams, Stream, Unread, HeaderRead, Sends, Printed

LEMMA CallersStream ==
    ASSUME IInv, StreamInv, NEW c \in Clients, CallerStep(c)
    PROVE  StreamInv'
<1>0. /\ client[c] = [f \in ClientFields |-> client[c][f]]
      /\ client = [d \in Clients |-> client[d]]
      /\ client[c].pc \in ClientPcs
      /\ UNCHANGED worker /\ Streams(c) /\ ClosedEnds(c)
  BY DEF IInv, ClientHalf, CallerStep, svars, StreamInv, Streams
<1>1. CASE Query(c, Listening)
  <2>1. PICK who \in {"waiting", "leaving"} :
          client' = [client EXCEPT ![c].pc = "writeLength", ![c].caller = who]
    BY <1>1 DEF Query
  <2>2. /\ client[c].caller = "calling" /\ UNCHANGED toClient
        /\ \/ UNCHANGED clientEnd
           \/ clientEnd' = [clientEnd EXCEPT ![c] = "open"]
    BY <1>1 DEF Query, Connect, wire
  <2>3. /\ client'[c].pc = "writeLength" /\ client'[c].caller = who
        /\ client'[c].printed = client[c].printed
        /\ \A d \in Clients \ {c} : client'[d] = client[d]
    BY <1>0, <2>1 DEF ClientFields
  <2>4. client[c].pc = "idle" /\ clientEnd[c] # "closed"
    BY <1>0, <2>2 DEF ClosedEnds
  <2>5. clientEnd'[c] # "closed" /\ \A d \in Clients \ {c} : clientEnd'[d] = clientEnd[d]
    BY <2>2, <2>4 DEF StreamInv
  <2>6. Streams(c)'
    <3>1. ClosedEnds(c)'  BY <2>3, <2>5 DEF ClosedEnds
    <3> QED BY <1>0, <2>2, <2>3, <2>4, <3>1, QuietClient DEF BeforeLength, HeaderPcs
  <2> QED BY <1>0, <2>2, <2>3, <2>5, <2>6, OtherStreams DEF StreamInv
<1>2. ASSUME NEW who, client' = [client EXCEPT ![c].caller = who], who # "calling",
             UNCHANGED toClient, client[c].caller # "killed",
             \/ UNCHANGED clientEnd
             \/ CloseClient(c) /\ who = "killed"
      PROVE  StreamInv'
  <2>1. /\ client'[c].pc = client[c].pc /\ client'[c].caller = who
        /\ client'[c].printed = client[c].printed
        /\ \A d \in Clients \ {c} : client'[d] = client[d]
    BY <1>0, <1>2 DEF ClientFields
  <2>2. /\ clientEnd' = [d \in Clients |-> clientEnd'[d]]
        /\ \A d \in Clients \ {c} : clientEnd'[d] = clientEnd[d]
        /\ clientEnd[c] = "closed" => clientEnd'[c] = "closed"
        /\ clientEnd'[c] = "closed" => clientEnd[c] = "closed" \/ who = "killed"
    BY <1>2 DEF CloseClient, StreamInv
  <2>3. Streams(c)'
    <3>1. ClosedEnds(c)'  BY <1>0, <1>2, <2>1, <2>2 DEF ClosedEnds
    <3> QED BY <1>0, <1>2, <2>1, <2>2, <3>1, QuietClient
  <2> QED BY <1>0, <1>2, <2>1, <2>2, <2>3, OtherStreams DEF StreamInv
<1>3. CASE Refused(c)  BY <1>2, <1>3 DEF Refused, wire
<1>4. CASE Leave(c)  BY <1>2, <1>4 DEF Leave, ClientKilled
<1>5. CASE Return(c)  BY <1>2, <1>5 DEF Return, wire
<1>6. CASE Overrun(c)  BY <1>2, <1>6 DEF Overrun, ClientKilled
<1> QED BY <1>1, <1>3, <1>4, <1>5, <1>6 DEF CallerStep, Caller

\* A step of the work that reads nothing: it goes on, or the process ends.
LEMMA QuietWork ==
    ASSUME IInv, StreamInv, NEW c \in Clients, WorkStep(c), UNCHANGED toClient,
           \/ /\ ClientKilled(c)
           \/ /\ UNCHANGED <<client, clientEnd>>
           \/ /\ UNCHANGED clientEnd
              /\ \E g \in {"wrote", "length"}, pc \in ClientPcs : \E x :
                    /\ client' = [client EXCEPT ![c].pc = pc, ![c][g] = x]
                    /\ pc # "readText" /\ client[c].pc # "done"
                    /\ pc \in BeforeLength => client[c].pc \in BeforeLength
    PROVE  StreamInv'
<1>0. /\ client[c] = [f \in ClientFields |-> client[c][f]]
      /\ client = [d \in Clients |-> client[d]]
      /\ client[c].caller \in {"waiting", "leaving"}
      /\ UNCHANGED worker /\ Streams(c) /\ ClosedEnds(c)
  BY DEF IInv, ClientHalf, WorkStep, svars, StreamInv, Streams, Work, Working, SendLength,
         RepeatLength, SendText, RepeatText, Send, Repeat, ReceiveLength, ReceiveText, Garbage
<1>1. CASE ClientKilled(c)
  <2>1. /\ client'[c].pc = client[c].pc /\ client'[c].caller = "killed"
        /\ client'[c].printed = client[c].printed
        /\ \A d \in Clients \ {c} : client'[d] = client[d]
    BY <1>0, <1>1 DEF ClientFields, ClientKilled
  <2>2. /\ clientEnd' = [d \in Clients |-> clientEnd'[d]]
        /\ \A d \in Clients \ {c} : clientEnd'[d] = clientEnd[d]
        /\ clientEnd[c] = "closed" => clientEnd'[c] = "closed"
    BY <1>1 DEF CloseClient, StreamInv, ClientKilled
  <2>3. Streams(c)'
    <3>1. ClosedEnds(c)'  BY <2>1 DEF ClosedEnds
    <3> QED BY <1>0, <2>1, <2>2, <3>1, QuietClient
  <2> QED BY <1>0, <2>1, <2>2, <2>3, OtherStreams DEF StreamInv
<1>2. CASE UNCHANGED <<client, clientEnd>>
  <2>1. Streams(c)'  BY <1>0, <1>2, StaysTheSame
  <2> QED BY <1>0, <1>2, <2>1, OtherStreams DEF StreamInv
<1>3. ASSUME NEW g \in {"wrote", "length"}, NEW x, NEW pc \in ClientPcs,
             UNCHANGED clientEnd, client' = [client EXCEPT ![c].pc = pc, ![c][g] = x],
             pc # "readText", client[c].pc # "done",
             pc \in BeforeLength => client[c].pc \in BeforeLength
      PROVE  StreamInv'
  <2>1. /\ client'[c].pc = pc /\ client'[c].caller = client[c].caller
        /\ client'[c].printed = client[c].printed
        /\ \A d \in Clients \ {c} : client'[d] = client[d]
    <3>1. CASE g = "wrote"  BY <1>0, <1>3, <3>1 DEF ClientFields
    <3>2. CASE g = "length"  BY <1>0, <1>3, <3>2 DEF ClientFields
    <3> QED BY <3>1, <3>2
  <2>2. Streams(c)'
    <3>1. ClosedEnds(c)'  BY <1>0, <1>3, <2>1 DEF ClosedEnds
    <3> QED BY <1>0, <1>3, <2>1, <3>1, QuietClient
  <2> QED BY <1>0, <1>3, <2>1, <2>2, OtherStreams DEF StreamInv
<1> QED BY <1>1, <1>2, <1>3

\* What is put together has the parts in their places.
LEMMA PrefixPlaces ==
    ASSUME NEW S, NEW p \in Seq(S), NEW s \in Seq(S)
    PROVE  /\ IsPrefix(p, s) => Len(p) <= Len(s) /\ \A i \in 1..Len(p) : s[i] = p[i]
           /\ Len(p) <= Len(s) /\ (\A i \in 1..Len(p) : s[i] = p[i]) => IsPrefix(p, s)
<1>1. Len(p) \in Nat /\ Len(s) \in Nat /\ \A i \in 1..Len(p) : p[i] \in S
  BY LenProperties, ElementOfSeq
<1>2. SubSeq(p, 1, Len(p)) = p  BY SubSeqFull
<1>3. ASSUME Len(p) <= Len(s)
      PROVE  /\ SubSeq(s, 1, Len(p)) \in Seq(S) /\ Len(SubSeq(s, 1, Len(p))) = Len(p)
             /\ \A i \in 1..Len(p) : SubSeq(s, 1, Len(p))[i] = s[i]
  <2>1. \A i \in 1..Len(p) : s[i] \in S  BY <1>1, <1>3, ElementOfSeq
  <2> QED BY <1>1, <2>1, SubSeqProperties
<1>4. ASSUME IsPrefix(p, s)
      PROVE  Len(p) <= Len(s) /\ \A i \in 1..Len(p) : s[i] = p[i]
  BY <1>2, <1>3, <1>4 DEF IsPrefix
<1>5. ASSUME Len(p) <= Len(s), \A i \in 1..Len(p) : s[i] = p[i]
      PROVE  IsPrefix(p, s)
  <2>1. SubSeq(s, 1, Len(p)) = p  BY <1>3, <1>5, SeqEqual
  <2> QED BY <1>2, <1>5, <2>1 DEF IsPrefix
<1> QED BY <1>4, <1>5

\* A string that is made of n bytes, none of them zero, begins as they do.
LEMMA StringBegins ==
    ASSUME NEW S, \A b \in S : b # Zero, NEW x \in Seq(S), NEW n \in 0..Len(x),
           NEW p \in Seq(S), IsPrefix(p, x), Len(p) <= n,
           NEW s \in Strings(SubSeq(x, 1, n))
    PROVE  IsPrefix(p, s)
<1> DEFINE y == SubSeq(x, 1, n)
           T == S \cup {Junk}
<1>1. /\ y \in Seq(S) /\ Len(y) = n
      /\ \A i \in 1..n : y[i] = x[i]
  <2>1. \A i \in 1..n : x[i] \in S  BY ElementOfSeq, LenProperties
  <2>2. n \in Nat /\ n \in Int  BY LenProperties
  <2> QED BY <2>1, <2>2, SubSeqProperties
<1> HIDE DEF y
<1>2. s \in {y, Append(y, Junk)}
  <2>1. {i \in DOMAIN y : y[i] = Zero} = {}  BY <1>1, ElementOfSeq, LenProperties
  <2> QED BY <2>1 DEF Strings, y
<1>3. y \in Seq(T) /\ p \in Seq(T) /\ Junk \in T  BY <1>1, SeqMonotonic
<1>4. /\ s \in Seq(T) /\ Len(s) >= n
      /\ \A i \in 1..n : s[i] = y[i]
  <2> HIDE DEF T
  <2>1. CASE s = y  BY <1>1, <1>3, <2>1
  <2>2. CASE s = Append(y, Junk)
    <3>1. /\ Append(y, Junk) \in Seq(T) /\ Len(Append(y, Junk)) = Len(y) + 1
          /\ \A i \in 1..Len(y) : Append(y, Junk)[i] = y[i]
      BY <1>3, AppendProperties
    <3> QED BY <1>1, <2>2, <3>1
  <2> QED BY <1>2, <2>1, <2>2
<1>5. Len(p) <= Len(x) /\ \A i \in 1..Len(p) : x[i] = p[i]  BY PrefixPlaces
<1>6. Len(p) <= Len(s) /\ \A i \in 1..Len(p) : s[i] = p[i]
  <2>1. Len(p) \in Nat /\ n \in Nat /\ Len(s) \in Nat
    BY <1>3, <1>4, LenProperties
  <2>2. 1..Len(p) \subseteq 1..n  BY <2>1
  <2> QED BY <1>1, <1>4, <1>5, <2>1, <2>2
<1> HIDE DEF T
<1> QED BY <1>3, <1>4, <1>6, PrefixPlaces

\* Four bytes of an answer, read into the buffer, are its first four.
LEMMA AnswerAsString ==
    ASSUME NEW k \in Nat, k >= 4, NEW s \in Strings(SubSeq(AnswerPart(k), 1, 4))
    PROVE  IsPrefix(AnswerPart(4), s)
<1> DEFINE S == {"answer"} \X Nat
<1>1. \A b \in S : b # Zero  BY DEF Zero
<1>2. \A m \in Nat : AnswerPart(m) \in Seq(S) /\ Len(AnswerPart(m)) = m
  <2>1. \A m \in Nat : AnswerPart(m) \in [1..m -> S]  BY DEF AnswerPart
  <2> HIDE DEF S
  <2> QED BY <2>1, FunctionsAreSeqs
<1>3. IsPrefix(AnswerPart(4), AnswerPart(k))
  <2>1. 4 \in 0..k /\ 4 \in 0..4  OBVIOUS
  <2>2. SubSeq(AnswerPart(k), 1, 4) = AnswerPart(4) /\ SubSeq(AnswerPart(4), 1, 4) = AnswerPart(4)
    BY <2>1, FirstOfAnswer
  <2> QED BY <1>2, <2>2 DEF IsPrefix
<1>4. 4 \in 0..Len(AnswerPart(k)) /\ Len(AnswerPart(4)) <= 4
  <2>1. Len(AnswerPart(k)) = k /\ Len(AnswerPart(4)) = 4  BY <1>2
  <2>2. 4 \in 0..k /\ 4 <= 4  OBVIOUS
  <2> QED BY <2>1, <2>2, Zenon
<1> HIDE DEF S
<1> QED BY <1>1, <1>2, <1>3, <1>4, StringBegins

\* The client reads the length of the answer: the header is no longer there.
LEMMA LengthStreams ==
    ASSUME IInv, StreamInv, NEW c \in Clients, WorkStep(c), ReceiveLength(c)
    PROVE  StreamInv'
<1>0. /\ client[c] = [f \in ClientFields |-> client[c][f]]
      /\ client = [d \in Clients |-> client[d]]
      /\ client[c].caller \in {"waiting", "leaving"} /\ client[c].pc = "readLength"
      /\ UNCHANGED <<worker, clientEnd>> /\ Streams(c) /\ ClosedEnds(c)
  BY DEF IInv, ClientHalf, WorkStep, svars, StreamInv, Streams, Working, ReceiveLength
<1>1. PICK r \in Reads(toClient[c], 4, ServerGone(c)) :
        /\ toClient' = [toClient EXCEPT ![c] = Rest(toClient[c], r)]
        /\ \/ /\ r.count # 4
              /\ client' = [client EXCEPT ![c].pc = "garbage"]
           \/ /\ r.count = 4
              /\ \E n : client' = [client EXCEPT ![c].pc = "readText", ![c].length = n]
  BY DEF ReceiveLength, ClientReads
<1> DEFINE pc == IF r.count = 4 THEN "readText" ELSE "garbage"
           Goes == /\ client'[c].caller = client[c].caller
                   /\ client'[c].printed = client[c].printed /\ client'[c].pc = pc
<1>2. /\ Goes
      /\ \A d \in Clients \ {c} : client'[d] = client[d]
  <2>1. CASE client' = [client EXCEPT ![c].pc = "garbage"] /\ r.count # 4
    BY <1>0, <2>1 DEF ClientFields
  <2>2. ASSUME NEW n, client' = [client EXCEPT ![c].pc = "readText", ![c].length = n],
               r.count = 4
        PROVE  Goes /\ \A d \in Clients \ {c} : client'[d] = client[d]
    BY <1>0, <2>2 DEF ClientFields
  <2> QED BY <1>1, <2>1, <2>2
<1>3. /\ toClient' = [d \in Clients |-> toClient'[d]] /\ toClient'[c] = Rest(toClient[c], r)
      /\ \A d \in Clients \ {c} : toClient'[d] = toClient[d]
  BY <1>1 DEF StreamInv
<1>4. clientEnd[c] # "closed"  BY <1>0 DEF ClosedEnds
<1>5. ASSUME r.count = 4
      PROVE  /\ worker[c].pc \in Past
             /\ ~worker[c].cut => HeaderRead(c)'
  <2>1. Len(toClient[c]) >= 4 /\ r.bytes = SubSeq(toClient[c], 1, 4) /\ toClient[c] # <<>>
    <3>1. ServerGone(c) \in BOOLEAN  BY DEF ServerGone
    <3> QED BY <1>5, <3>1, ReadFour
  <2>2. worker[c].pc \in Past  BY <1>0, <2>1 DEF Streams, Stream
  <2>3. ASSUME ~worker[c].cut PROVE HeaderRead(c)'
    <3>1. PICK k \in Nat : Sends(c, k) /\ toClient[c] = HeaderThen(worker[c].answer, k)
      BY <1>0, <1>4, <2>1, <2>2, <2>3 DEF Streams, Stream, BeforeLength, Unread
    <3> DEFINE h == HeaderThen(worker[c].answer, k)
    <3>2. Len(h) = k + 4 /\ \A i \in 1..4 : h[i] \in AnswerBytes(worker[c].answer)
      BY Parts, ElementOfSeq
    <3>3. Len(r.bytes) = 4
      <4> HIDE DEF h
      <4>1. Len(SubSeq(h, 1, 4)) = 4  BY <3>2, SubSeqProperties
      <4> QED BY <2>1, <3>1, <4>1 DEF h
    <3>4. toClient'[c] = SubSeq(h, 5, k + 4)
      <4>1. toClient'[c] = SubSeq(h, Len(r.bytes) + 1, Len(h))  BY <1>3, <3>1 DEF Rest
      <4> HIDE DEF h
      <4> QED BY <3>2, <3>3, <4>1
    <3>5. toClient'[c] = AnswerPart(k)  BY <3>4, AfterHeader
    <3> QED BY <1>0, <3>1, <3>5 DEF HeaderRead, Sends
  <2> QED BY <2>2, <2>3
<1>6. Stream(c)'
  <2>1. worker[c].pc \notin Past =>
          toClient'[c] = <<>> /\ client'[c].pc # "readText" /\ client'[c].printed = <<>>
    <3> SUFFICES ASSUME worker[c].pc \notin Past
                 PROVE  toClient'[c] = <<>> /\ r.count # 4 /\ client[c].printed = <<>>
      BY <1>2
    <3>1. toClient[c] = <<>> /\ client[c].printed = <<>>
      BY <1>0 DEF Streams, Stream
    <3>2. r.count # 4  BY <1>5
    <3>3. Rest(<<>>, r) = <<>>  BY <1>1, <3>1, EmptyRest DEF Rest
    <3> QED BY <1>3, <3>1, <3>2, <3>3
  <2>2. ~worker[c].cut /\ worker[c].pc \in Past => (client[c].printed # <<>> => Printed(c))
    BY <1>0 DEF Streams, Stream
  <2> QED BY <1>0, <1>2, <1>5, <2>1, <2>2 DEF Stream, BeforeLength, HeaderPcs, Printed
<1>7. Streams(c)'  BY <1>0, <1>2, <1>4, <1>6 DEF Streams, ClosedEnds
<1> QED BY <1>0, <1>2, <1>3, <1>7, OtherStreams DEF StreamInv

\* The client reads the answer: it prints four bytes, or nothing.
LEMMA TextStreams ==
    ASSUME IInv, StreamInv, NEW c \in Clients, WorkStep(c), ReceiveText(c), ~ClientKilled(c)
    PROVE  StreamInv'
<1>0. /\ client[c] = [f \in ClientFields |-> client[c][f]]
      /\ client = [d \in Clients |-> client[d]]
      /\ client[c].caller \in {"waiting", "leaving"} /\ client[c].pc = "readText"
      /\ UNCHANGED <<worker, clientEnd>> /\ Streams(c) /\ ClosedEnds(c)
  BY DEF IInv, ClientHalf, WorkStep, svars, StreamInv, Streams, Working, ReceiveText
<1>1. PICK r \in Reads(toClient[c], Room(client[c].length, toClient[c]), ServerGone(c)) :
        /\ toClient' = [toClient EXCEPT ![c] = Rest(toClient[c], r)]
        /\ \/ /\ r.count # 4
              /\ client' = [client EXCEPT ![c].pc = "garbage"]
           \/ /\ r.count = 4
              /\ \E s \in Strings(r.bytes) :
                   client' = [client EXCEPT ![c].pc = "garbage", ![c].printed = s]
  BY DEF ReceiveText, ClientReads
<1>2. /\ client'[c].caller = client[c].caller /\ client'[c].pc = "garbage"
      /\ \A d \in Clients \ {c} : client'[d] = client[d]
      /\ \/ client'[c].printed = client[c].printed
         \/ r.count = 4 /\ client'[c].printed \in Strings(r.bytes)
  <2> DEFINE Prints == /\ client'[c].caller = client[c].caller /\ client'[c].pc = "garbage"
                       /\ \A d \in Clients \ {c} : client'[d] = client[d]
                       /\ \/ client'[c].printed = client[c].printed
                          \/ r.count = 4 /\ client'[c].printed \in Strings(r.bytes)
  <2>1. CASE client' = [client EXCEPT ![c].pc = "garbage"]
    BY <1>0, <2>1 DEF ClientFields
  <2>2. ASSUME r.count = 4, NEW s \in Strings(r.bytes),
               client' = [client EXCEPT ![c].pc = "garbage", ![c].printed = s]
        PROVE  Prints
    BY <1>0, <2>2 DEF ClientFields
  <2> QED BY <1>1, <2>1, <2>2
<1>3. /\ toClient' = [d \in Clients |-> toClient'[d]]
      /\ \A d \in Clients \ {c} : toClient'[d] = toClient[d]
  BY <1>1 DEF StreamInv
<1>4. clientEnd[c] # "closed"  BY <1>0 DEF ClosedEnds
<1>5. worker[c].pc \in Past  BY <1>0 DEF Streams, Stream
<1>6. ASSUME ~worker[c].cut, r.count = 4, client'[c].printed \in Strings(r.bytes)
      PROVE  Printed(c)'
  <2>1. Len(toClient[c]) >= 4 /\ r.bytes = SubSeq(toClient[c], 1, 4)
    <3>1. ServerGone(c) \in BOOLEAN  BY DEF ServerGone
    <3> QED BY <1>6, <3>1, ReadFour
  <2>2. PICK k \in Nat : Sends(c, k) /\ toClient[c] = AnswerPart(k)
    BY <1>0, <1>4, <1>5, <1>6 DEF Streams, Stream, HeaderRead
  <2>3. k >= 4  BY <2>1, <2>2, Parts
  <2>4. worker[c].answer >= 4  BY <1>0, <2>2, <2>3 DEF Sends, Streams
  <2>5. IsPrefix(AnswerPart(4), client'[c].printed)  BY <1>6, <2>1, <2>2, <2>3, AnswerAsString
  <2> QED BY <1>0, <2>4, <2>5 DEF Printed
<1>7. Stream(c)'
  <2>1. ~worker[c].cut /\ client'[c].printed # <<>> => Printed(c)'
    BY <1>0, <1>2, <1>5, <1>6 DEF Streams, Stream, Printed
  <2> QED BY <1>0, <1>2, <1>5, <2>1 DEF Stream, BeforeLength, HeaderPcs
<1>8. Streams(c)'  BY <1>0, <1>2, <1>4, <1>7 DEF Streams, ClosedEnds
<1> QED BY <1>0, <1>2, <1>3, <1>8, OtherStreams DEF StreamInv

LEMMA WorksStream ==
    ASSUME IInv, StreamInv, NEW c \in Clients, WorkStep(c)
    PROVE  StreamInv'
<1> USE DEF ClientPcs, HeaderPcs, BeforeLength
<1>1. ASSUME NEW pc, NEW bytes, NEW repeat \in BeforeLength, NEW next \in BeforeLength,
             pc \in BeforeLength, Send(c, pc, bytes, repeat, next)
      PROVE  StreamInv'
  <2>1. UNCHANGED toClient /\ client[c].pc = pc  BY <1>1 DEF Send, Working
  <2>2. CASE ClientKilled(c)  BY <2>1, <2>2, QuietWork
  <2>3. CASE ~ClientKilled(c)
    <3>1. PICK to \in {"garbage", repeat, next} : \E x :
            client' = [client EXCEPT ![c].wrote = x, ![c].pc = to] /\ UNCHANGED clientEnd
      <4>1. PICK w :
              /\ client' = [client EXCEPT ![c].wrote = w.count,
                              ![c].pc = CASE w.count = -1 -> "garbage"
                                          [] w.count \in 0..(Len(bytes) - 1) -> repeat
                                          [] OTHER -> next]
              /\ UNCHANGED clientEnd
        BY <1>1, <2>3 DEF Send
      <4> DEFINE goes == CASE w.count = -1 -> "garbage"
                           [] w.count \in 0..(Len(bytes) - 1) -> repeat
                           [] OTHER -> next
      <4>2. goes \in {"garbage", repeat, next}  OBVIOUS
      <4> HIDE DEF goes
      <4> QED BY <4>1, <4>2 DEF goes
    <3>2. UNCHANGED clientEnd /\ \E x : client' = [client EXCEPT ![c].pc = to, ![c]["wrote"] = x]
      <4>1. PICK x : client' = [client EXCEPT ![c].wrote = x, ![c].pc = to]
        BY <3>1
      <4>2. client = [d \in Clients |-> client[d]]
            /\ client[c] = [f \in ClientFields |-> client[c][f]]
        BY DEF IInv, ClientHalf
      <4>3. [client[c] EXCEPT !.wrote = x, !.pc = to] = [client[c] EXCEPT !.pc = to, !["wrote"] = x]
        BY <4>2 DEF ClientFields
      <4>4. client' = [client EXCEPT ![c].pc = to, ![c]["wrote"] = x]
        BY <4>1, <4>2, <4>3
      <4> QED BY <3>1, <4>4
    <3>3. to \in ClientPcs /\ to # "readText"  BY <1>1
    <3> QED BY <1>1, <2>1, <3>2, <3>3, QuietWork
  <2> QED BY <2>2, <2>3
<1>2. ASSUME NEW pc, NEW bytes, Repeat(c, pc, bytes)
      PROVE  StreamInv'
  <2>1. UNCHANGED toClient /\ (ClientKilled(c) \/ UNCHANGED <<client, clientEnd>>)
    BY <1>2 DEF Repeat
  <2> QED BY <2>1, QuietWork
<1>3. CASE SendLength(c)  BY <1>1, <1>3 DEF SendLength
<1>4. CASE RepeatLength(c)  BY <1>2, <1>4 DEF RepeatLength
<1>5. CASE SendText(c)  BY <1>1, <1>5 DEF SendText
<1>6. CASE RepeatText(c)  BY <1>2, <1>6 DEF RepeatText
<1>7. CASE ReceiveLength(c)  BY <1>7, LengthStreams
<1>8. CASE ReceiveText(c)
  <2>1. CASE ClientKilled(c)
    <3>1. UNCHANGED toClient
      <4>1. /\ client[c].caller # "killed" /\ client = [d \in Clients |-> client[d]]
            /\ client[c] = [f \in ClientFields |-> client[c][f]]
        BY <1>8 DEF ReceiveText, Working, IInv, ClientHalf
      <4>2. client'[c].caller = "killed"
        BY <2>1, <4>1 DEF ClientKilled, ClientFields
      <4>3. ASSUME client' = [client EXCEPT ![c].pc = "garbage"] PROVE FALSE
        BY <4>1, <4>2, <4>3 DEF ClientFields
      <4>4. ASSUME NEW x, client' = [client EXCEPT ![c].pc = "garbage", ![c].printed = x]
            PROVE  FALSE
        BY <4>1, <4>2, <4>4 DEF ClientFields
      <4> QED BY <1>8, <4>3, <4>4 DEF ReceiveText
    <3> QED BY <2>1, <3>1, QuietWork
  <2>2. CASE ~ClientKilled(c)  BY <1>8, <2>2, TextStreams
  <2> QED BY <2>1, <2>2
<1>9. CASE Garbage(c)
  <2>0. /\ client[c] = [f \in ClientFields |-> client[c][f]]
        /\ client = [d \in Clients |-> client[d]]
        /\ UNCHANGED <<worker, toClient>> /\ Streams(c)
        /\ client' = [client EXCEPT ![c].pc = "done"] /\ CloseClient(c)
    BY <1>9 DEF IInv, ClientHalf, WorkStep, svars, StreamInv, Streams, Garbage
  <2>1. /\ client'[c].pc = "done" /\ client'[c].caller = client[c].caller
        /\ client'[c].printed = client[c].printed
        /\ \A d \in Clients \ {c} : client'[d] = client[d]
    BY <2>0 DEF ClientFields
  <2>2. /\ clientEnd' = [d \in Clients |-> clientEnd'[d]]
        /\ \A d \in Clients \ {c} : clientEnd'[d] = clientEnd[d]
        /\ clientEnd[c] = "closed" => clientEnd'[c] = "closed"
    BY <2>0 DEF CloseClient, StreamInv
  <2>3. ClosedEnds(c)'
    <3>1. client[c].caller # "calling"  BY <1>9 DEF Garbage, Working
    <3> QED BY <2>1, <3>1 DEF ClosedEnds
  <2>4. Streams(c)'  BY <2>0, <2>1, <2>2, <2>3, QuietClient
  <2> QED BY <2>0, <2>1, <2>2, <2>4, OtherStreams DEF StreamInv
<1> QED BY <1>3, <1>4, <1>5, <1>6, <1>7, <1>8, <1>9 DEF WorkStep, Work

-----------------------------------------------------------------------------
LEMMA StreamStep == IInv /\ StreamInv /\ [Next]_vars => StreamInv'
<1> SUFFICES ASSUME IInv, StreamInv, [Next]_vars PROVE StreamInv'  OBVIOUS
<1>1. ASSUME NEW c \in Clients, CallerStep(c) \/ WorkStep(c) PROVE StreamInv'
  BY <1>1, CallersStream, WorksStream
<1>2. CASE ServerStep
  <2>1. UNCHANGED client  BY <1>2 DEF ServerStep, cvars
  <2> QED BY <1>2, <2>1, ThreadsStream, WorkersStream DEF ServerStep
<1>3. CASE UNCHANGED vars
  <2>1. UNCHANGED <<client, worker, toClient, clientEnd>>  BY <1>3 DEF vars
  <2>2. \A c \in Clients : Streams(c)'  BY <2>1, StaysTheSame DEF StreamInv
  <2> QED BY <2>1, <2>2 DEF StreamInv
<1> QED BY <1>1, <1>2, <1>3 DEF Next

\* For any number of clients, any capacity of the connections and wherever
\* reads and writes are cut, what a client prints begins with the first four
\* bytes of its answer, unless the server's header was cut: what it prints is
\* read after the header, in the order in which it was written
\* (MISClient.cpp:96-110, MISServer.cpp:97-99).
THEOREM AnswerPrinted == Spec => []PrintsTheAnswer
<1>1. IInv /\ StreamInv => PrintsTheAnswer
  <2> SUFFICES ASSUME IInv, StreamInv, NEW c \in Clients, client[c].printed # <<>>,
                      ~worker[c].cut
               PROVE  /\ worker[c].answer >= 4
                      /\ IsPrefix([k \in 1..4 |-> <<"answer", k>>], client[c].printed)
    BY DEF PrintsTheAnswer
  <2>1. Stream(c)  BY DEF StreamInv, Streams
  <2>2. worker[c].pc \in Past  BY <2>1 DEF Stream
  <2>3. Printed(c)  BY <2>1, <2>2 DEF Stream
  <2> QED BY <2>3 DEF Printed, AnswerPart
<1>2. Init => StreamInv  BY StreamInit
<1>3. IInv /\ StreamInv /\ [Next]_vars => StreamInv'  BY StreamStep
<1> QED BY <1>1, <1>2, <1>3, Invariant, PTL DEF Spec
-----------------------------------------------------------------------------
(* The bytes to the server.                                                *)

\* What was sent of the text to a server that has not gone: nothing, what was
\* taken before the first cut and what is repeated after it, or the text.
ContentBytes(c) == {c} \X Nat
SentText(c, x) ==
    /\ x \in Seq(ContentBytes(c))
    /\ client[c].pc = "writeText" => x = <<>>
    /\ client[c].pc = "repeatText" =>
         /\ client[c].wrote \in 0..query[c].size
         /\ IsPrefix(SubSeq(Content(c), 1, client[c].wrote), x)
    /\ client[c].pc \notin {"writeText", "repeatText"} => x = Content(c)

\* What is on its way to a worker that has not taken its text, unless the
\* header was cut.
ReadsLength == {"none", "created", "readLength"}
BeforeHeader == {"idle", "writeLength"}
Live(c) == serverEnd[c] \in {"backlog", "open"} /\ client[c].pc # "repeatLength"
Header4(c) == Header(query[c].size)
Incoming(c) ==
    /\ client[c].pc = "idle" => toServer[c] = <<>>
    /\ Live(c) /\ worker[c].pc \in ReadsLength =>
         /\ client[c].pc \in BeforeHeader => toServer[c] = <<>>
         /\ client[c].pc \notin BeforeHeader =>
              \E x \in Seq(ContentBytes(c)) : SentText(c, x) /\ toServer[c] = Header4(c) \o x
    /\ Live(c) /\ worker[c].pc = "readText" =>
         /\ client[c].pc \notin BeforeHeader /\ SentText(c, toServer[c])
         /\ worker[c].length = query[c].size \/ worker[c].length < 0

\* RightText, and where the client must be when its text is taken.
Taken == {"run", "writeLength", "writeText"}
Parsed(c) ==
    worker[c].pc \in Taken =>
        /\ client[c].pc \notin BeforeHeader
        /\ \/ client[c].pc = "repeatLength"
           \/ worker[c].length = -1
           \/ /\ worker[c].length = query[c].size
              /\ client[c].pc = "writeText" => query[c].size = 0
              /\ IsPrefix(SubSeq(Content(c), 1, SafelySent(c)), worker[c].text)

\* The server reads from open descriptors only.
Reading(c) == server.up /\ worker[c].pc \in Serving \cup {"created"} => serverEnd[c] = "open"

Arrives(c) == query[c] \in Queries[c] /\ Reading(c) /\ Incoming(c) /\ Parsed(c)
InInv == toServer = [c \in Clients |-> toServer[c]] /\ \A c \in Clients : Arrives(c)

\* The bytes of a header and of a text.
AllBytes(c) == {Header4(c)[i] : i \in 1..4} \cup ContentBytes(c)

LEMMA TextParts ==
    ASSUME NEW c \in Clients, query[c] \in Queries[c]
    PROVE  /\ query[c].size \in Nat /\ Fits(query[c].size)
           /\ Content(c) \in Seq(ContentBytes(c)) /\ Len(Content(c)) = query[c].size
           /\ Header4(c) \in Seq(AllBytes(c)) /\ Len(Header4(c)) = 4
           /\ \A x \in Seq(ContentBytes(c)) : x \in Seq(AllBytes(c))
           /\ \A b \in ContentBytes(c) : b # Zero
<1>1. query[c].size \in Nat /\ Fits(query[c].size)  BY QueriesAssumption
<1>2. Content(c) \in [1..query[c].size -> ContentBytes(c)]  BY DEF Content, ContentBytes
<1>3. Content(c) \in Seq(ContentBytes(c)) /\ Len(Content(c)) = query[c].size
  BY <1>1, <1>2, FunctionsAreSeqs
<1>4. Header4(c) \in [1..4 -> AllBytes(c)]  BY DEF Header4, Header, AllBytes
<1>5. Header4(c) \in Seq(AllBytes(c)) /\ Len(Header4(c)) = 4
  <2> DEFINE B == AllBytes(c)  h == Header4(c)  m == 4
  <2>1. h \in [1..m -> B] /\ m \in Nat  BY <1>4
  <2> HIDE DEF B, h, m
  <2>2. h \in Seq(B) /\ Len(h) = m  BY <2>1, FunctionsAreSeqs
  <2> QED BY <2>2 DEF B, h, m
<1>6. \A x \in Seq(ContentBytes(c)) : x \in Seq(AllBytes(c))
  <2>1. ContentBytes(c) \subseteq AllBytes(c)  BY DEF AllBytes
  <2> QED BY <2>1, SeqMonotonic
<1>7. \A b \in ContentBytes(c) : b # Zero
  <2>1. c # "length"  BY NamesAssumption
  <2> QED BY <2>1 DEF ContentBytes, Zero
<1> QED BY <1>1, <1>3, <1>5, <1>6, <1>7

\* A part of a text that is written.
LEMMA Piece ==
    ASSUME NEW c \in Clients, query[c] \in Queries[c], NEW m \in Nat, NEW k,
           k \in 0..Len(SubSeq(Content(c), m + 1, Len(Content(c))))
    PROVE  SubSeq(SubSeq(Content(c), m + 1, Len(Content(c))), 1, k) \in Seq(ContentBytes(c))
<1> DEFINE x == Content(c)
           y == SubSeq(x, m + 1, Len(x))
<1>1. x \in Seq(ContentBytes(c)) /\ Len(x) \in Nat  BY TextParts
<1> HIDE DEF x
<1>2. y \in Seq(ContentBytes(c))
  <2>1. \A i \in (m + 1)..Len(x) : x[i] \in ContentBytes(c)
    BY <1>1, ElementOfSeq
  <2> QED BY <1>1, <2>1, SubSeqProperties
<1>3. Len(y) \in Nat /\ \A i \in 1..Len(y) : y[i] \in ContentBytes(c)
  BY <1>2, LenProperties, ElementOfSeq
<1>4. k \in 0..Len(y)  BY DEF x
<1> HIDE DEF y
<1>5. SubSeq(y, 1, k) \in Seq(ContentBytes(c))
  <2>1. k \in Int /\ \A i \in 1..k : y[i] \in ContentBytes(c)  BY <1>3, <1>4
  <2> QED BY <2>1, SubSeqProperties
<1> QED BY <1>5 DEF x, y

\* A header is read and the text is left.
LEMMA HeaderOff ==
    ASSUME NEW c \in Clients, query[c] \in Queries[c], NEW x \in Seq(ContentBytes(c))
    PROVE  LET t == Header4(c) \o x
           IN  /\ SubSeq(t, 1, 4) = Header4(c)
               /\ SubSeq(t, 5, Len(t)) = x
<1> DEFINE t == Header4(c) \o x
           S == AllBytes(c)
<1>1. x \in Seq(S) /\ Header4(c) \in Seq(S) /\ Len(Header4(c)) = 4 /\ Len(x) \in Nat
  BY TextParts, LenProperties
<1>2. /\ t \in Seq(S) /\ Len(t) = 4 + Len(x)
      /\ \A i \in 1..(4 + Len(x)) : t[i] = IF i <= 4 THEN Header4(c)[i] ELSE x[i - 4]
  <2> HIDE DEF S
  <2>1. /\ t \in Seq(S) /\ Len(t) = Len(Header4(c)) + Len(x)
        /\ \A i \in 1..(Len(Header4(c)) + Len(x)) :
             t[i] = IF i <= Len(Header4(c)) THEN Header4(c)[i] ELSE x[i - Len(Header4(c))]
    BY <1>1, ConcatProperties
  <2> HIDE DEF t
  <2> QED BY <1>1, <2>1
<1> HIDE DEF t, S
<1>3. \A i \in 1..Len(t) : t[i] \in S  BY <1>2, ElementOfSeq
<1>4. SubSeq(t, 1, 4) = Header4(c)
  <2>1. \A i \in 1..4 : t[i] \in S  BY <1>1, <1>2, <1>3
  <2>2. /\ SubSeq(t, 1, 4) \in Seq(S) /\ Len(SubSeq(t, 1, 4)) = 4
        /\ \A i \in 1..4 : SubSeq(t, 1, 4)[i] = t[1 + i - 1]
    BY <2>1, SubSeqProperties
  <2>3. \A i \in 1..4 : SubSeq(t, 1, 4)[i] = Header4(c)[i]  BY <1>1, <1>2, <2>2
  <2> QED BY <1>1, <2>2, <2>3, SeqEqual
<1>5. SubSeq(t, 5, Len(t)) = x
  <2>1. \A i \in 5..Len(t) : t[i] \in S  BY <1>1, <1>2, <1>3
  <2>2. /\ SubSeq(t, 5, Len(t)) \in Seq(S) /\ Len(SubSeq(t, 5, Len(t))) = Len(x)
        /\ \A i \in 1..Len(x) : SubSeq(t, 5, Len(t))[i] = t[5 + i - 1]
    BY <1>1, <1>2, <2>1, SubSeqProperties
  <2>3. \A i \in 1..Len(x) : SubSeq(t, 5, Len(t))[i] = x[i]  BY <1>1, <1>2, <2>2
  <2> QED BY <1>1, <2>2, <2>3, SeqEqual
<1> QED BY <1>4, <1>5 DEF t

\* The length that is read from a header: the size of the text, or less than 0.
LEMMA HeaderLength ==
    ASSUME NEW c \in Clients, query[c] \in Queries[c], NEW n \in LengthsIn(Header4(c))
    PROVE  n = query[c].size \/ n < 0
<1> DEFINE v == BitsOf(query[c].size)
           cha == WriteInt(v)
           h == Header4(c)
<1>1. h = [i \in 1..4 |-> <<"length", cha[i - 1]>>]  BY DEF Header4, Header
<1>2. Len(h) = 4  BY TextParts
<1>3. [i \in 0..3 |-> h[i + 1][2]] = cha
  <2>1. \A i \in 0..3 : h[i + 1][2] = cha[i]
    <3> HIDE DEF cha, h
    <3> QED BY <1>1
  <2>2. cha = [i \in 0..3 |-> cha[i]]  BY DEF WriteInt
  <2> HIDE DEF cha, h
  <2> QED BY <2>1, <2>2
<1>4. n = NumberOf(ReadInt(cha))
  <2>1. \A i \in 1..4 : h[i][1] = "length"
    <3> HIDE DEF cha, h
    <3> QED BY <1>1
  <2>2. LengthsIn(h) = {NumberOf(ReadInt([i \in 0..3 |-> h[i + 1][2]]))}
    <3> HIDE DEF h
    <3> QED BY <1>2, <2>1 DEF LengthsIn
  <2> HIDE DEF cha
  <2> QED BY <1>3, <2>2
<1> QED BY <1>4, TextParts, LengthsRead

-----------------------------------------------------------------------------
LEMMA InInit == Init => InInv
<1> SUFFICES ASSUME Init PROVE InInv  OBVIOUS
<1>1. ASSUME NEW c \in Clients PROVE Arrives(c)
  <2>1. /\ query[c] \in Queries[c] /\ toServer[c] = <<>> /\ client[c].pc = "idle"
        /\ worker[c].pc = "none"
    BY DEF Init, WireInit, ClientInit, ServerInit
  <2> QED BY <2>1 DEF Arrives, Reading, Incoming, Parsed, Serving, Taken, BeforeHeader
<1> QED BY <1>1 DEF InInv, Init, WireInit

\* A step that leaves c, its worker and their connection alone.
LEMMA ArrivesSame ==
    ASSUME NEW c \in Clients, Arrives(c), server'.up = server.up,
           query'[c] = query[c], worker'[c] = worker[c],
           client'[c].pc = client[c].pc, client'[c].wrote = client[c].wrote,
           toServer'[c] = toServer[c], serverEnd'[c] = serverEnd[c]
    PROVE  Arrives(c)'
<1>1. \A x : SentText(c, x)' <=> SentText(c, x)  BY DEF SentText, Content
<1>2. Incoming(c)'
  <2>1. Incoming(c)  BY DEF Arrives
  <2> HIDE DEF SentText
  <2> QED BY <1>1, <2>1 DEF Incoming, Live, Header4
<1>3. Parsed(c)'  BY DEF Arrives, Parsed, SafelySent, Content
<1> QED BY <1>2, <1>3 DEF Arrives, Reading

LEMMA EndArrives ==
    ASSUME IInv, InInv, ServerEnds, UNCHANGED cvars
    PROVE  InInv'
<1>1. UNCHANGED <<worker, toServer, query, client>> /\ server'.up = FALSE
  BY DEF ServerEnds, cvars, IInv, ServerHalf, ServerFields
<1>2. ASSUME NEW c \in Clients PROVE Arrives(c)'
  <2>1. Arrives(c)  BY DEF InInv
  <2>2. serverEnd'[c] \notin {"backlog", "open"}  BY DEF ServerEnds
  <2>3. Incoming(c)'  BY <1>1, <2>1, <2>2 DEF Arrives, Incoming, Live
  <2>4. Parsed(c)'  BY <1>1, <2>1 DEF Arrives, Parsed, SafelySent, Content
  <2> QED BY <1>1, <2>1, <2>3, <2>4 DEF Arrives, Reading
<1> QED BY <1>1, <1>2 DEF InInv

\* The worker of c goes on and reads nothing.
LEMMA WorkerGoesOn ==
    ASSUME NEW c \in Clients, Arrives(c), Reading(c)',
           query'[c] = query[c], client'[c] = client[c], toServer'[c] = toServer[c],
           serverEnd'[c] \in {"backlog", "open"} => serverEnd[c] \in {"backlog", "open"},
           worker'[c].pc \in ReadsLength => worker[c].pc \in ReadsLength,
           worker'[c].pc # "readText",
           worker'[c].pc \in Taken => /\ worker[c].pc \in Taken
                                      /\ worker'[c].length = worker[c].length
                                      /\ worker'[c].text = worker[c].text
    PROVE  Arrives(c)'
<1>1. \A x : SentText(c, x)' <=> SentText(c, x)  BY DEF SentText, Content
<1>2. Incoming(c)'
  <2>1. Incoming(c)  BY DEF Arrives
  <2> QED BY <1>1, <2>1 DEF Incoming, Live, Header4
<1>3. Parsed(c)'  BY DEF Arrives, Parsed, SafelySent, Content
<1> QED BY <1>2, <1>3 DEF Arrives

\* The worker of c gives up reading.
LEMMA WorkerGivesUp ==
    ASSUME NEW c \in Clients, Arrives(c), Reading(c)',
           query'[c] = query[c], client'[c] = client[c],
           toServer[c] = <<>> => toServer'[c] = <<>>,
           worker'[c].pc = "callback"
    PROVE  Arrives(c)'
BY DEF Arrives, Incoming, Parsed, ReadsLength, Taken

\* A step of the worker of c, or of the acceptor for it, leaves the others alone.
LEMMA OthersArrive ==
    ASSUME InInv, NEW c \in Clients, Arrives(c)', server'.up = server.up, UNCHANGED cvars,
           toServer' = [d \in Clients |-> toServer'[d]],
           \A d \in Clients \ {c} : /\ worker'[d] = worker[d] /\ toServer'[d] = toServer[d]
                                    /\ serverEnd'[d] = serverEnd[d]
    PROVE  InInv'
<1>1. ASSUME NEW d \in Clients \ {c} PROVE Arrives(d)'
  <2>1. Arrives(d) /\ query'[d] = query[d] /\ client'[d] = client[d]  BY DEF InInv, cvars
  <2> QED BY <2>1, ArrivesSame
<1> QED BY <1>1 DEF InInv

LEMMA ThreadsArrive ==
    ASSUME IInv, InInv, Threads, UNCHANGED cvars
    PROVE  InInv'
<1> USE DEF IInv
<1>1. CASE Start
  <2>1. UNCHANGED <<worker, toServer, serverEnd>> /\ server'.up = server.up
    BY <1>1 DEF Start, wire, ServerHalf, ServerFields
  <2>2. \A c \in Clients : Arrives(c)'  BY <2>1, ArrivesSame DEF InInv, cvars
  <2> QED BY <2>1, <2>2 DEF InInv
<1>2. ASSUME NEW c \in Clients, Accept(c)
      PROVE  InInv'
  <2>1. /\ Moved(c, "created") /\ worker[c].pc = "none"
        /\ toServer' = toServer /\ server'.up = server.up
        /\ serverEnd' = [serverEnd EXCEPT ![c] = "open"] /\ serverEnd[c] = "backlog"
    BY <1>2, MovesAlone DEF Accept, Acceptor, ServerHalf, ServerFields
  <2>2. serverEnd'[c] = "open" /\ \A d \in Clients \ {c} : serverEnd'[d] = serverEnd[d]
    BY <2>1 DEF EndsFollow
  <2>3. Arrives(c)'
    <3>1. Arrives(c) /\ worker'[c].pc = "created" /\ Reading(c)'
      BY <2>1, <2>2 DEF InInv, Moved, Reading
    <3> QED BY <2>1, <2>2, <3>1, WorkerGoesOn DEF cvars, ReadsLength, Taken
  <2> QED BY <2>1, <2>2, <2>3, OthersArrive DEF Moved, InInv
<1>3. ASSUME NEW c \in Clients, StartWorker(c)
      PROVE  InInv'
  <2>1. /\ Moved(c, "readLength") /\ worker[c].pc = "created" /\ server.up
        /\ UNCHANGED <<toServer, serverEnd>> /\ server'.up = server.up
    BY <1>3, MovesAlone DEF StartWorker, Acceptor, wire, ServerHalf, ServerFields
  <2>2. Arrives(c)'
    <3>1. Arrives(c) /\ worker'[c].pc = "readLength" /\ Reading(c)'
      BY <2>1 DEF InInv, Arrives, Moved, Reading
    <3> QED BY <2>1, <3>1, WorkerGoesOn DEF cvars, ReadsLength, Taken
  <2> QED BY <2>1, <2>2, OthersArrive DEF Moved, InInv
<1>4. CASE StartLeaves \/ AcceptFails \/ WorkerLeaves
  BY <1>4, EndArrives DEF StartLeaves, AcceptFails, WorkerLeaves
<1> QED BY <1>1, <1>2, <1>3, <1>4 DEF Threads

-----------------------------------------------------------------------------
\* A text as long as the length that was read is what the client sent of it.
LEMMA TextTaken ==
    ASSUME NEW c \in Clients, query[c] \in Queries[c], NEW x, SentText(c, x),
           client[c].pc # "repeatLength",
           NEW n \in 0..Len(x), n = query[c].size, NEW s \in Strings(SubSeq(x, 1, n))
    PROVE  /\ client[c].pc = "writeText" => query[c].size = 0
           /\ IsPrefix(SubSeq(Content(c), 1, SafelySent(c)), s)
<1> DEFINE S == ContentBytes(c)
           m == SafelySent(c)
           p == SubSeq(Content(c), 1, m)
<1>1. /\ n \in Nat /\ x \in Seq(S) /\ Len(x) \in Nat /\ Content(c) \in Seq(S)
      /\ Len(Content(c)) = n /\ \A b \in S : b # Zero
  BY TextParts, LenProperties DEF SentText
<1>2. client[c].pc = "writeText" => n = 0
  <2> SUFFICES ASSUME client[c].pc = "writeText" PROVE n = 0  OBVIOUS
  <2>1. x = <<>>  BY DEF SentText
  <2> QED BY <1>1, <2>1
<1>3. m \in 0..n
  BY <1>1 DEF SafelySent, SentText
<1>4. p \in Seq(S) /\ Len(p) = m /\ Len(p) <= n
  <2>1. \A i \in 1..m : Content(c)[i] \in S  BY <1>1, <1>3, ElementOfSeq
  <2>2. m \in Int /\ m \in Nat  BY <1>1, <1>3
  <2> HIDE DEF m, S
  <2> QED BY <1>1, <1>3, <2>1, <2>2, SubSeqProperties
<1>5. IsPrefix(p, x)
  <2>1. CASE client[c].pc = "writeText"
    <3>1. p = <<>> /\ x = <<>>  BY <1>2, <1>3, <1>4, <2>1, EmptySeq DEF SentText
    <3> HIDE DEF p
    <3> QED BY <1>1, <3>1 DEF IsPrefix
  <2>2. CASE client[c].pc = "repeatText"
    BY <2>2 DEF SentText, SafelySent
  <2>3. CASE client[c].pc \notin {"writeText", "repeatText"}
    <3>1. x = Content(c) /\ m = n  BY <2>3 DEF SentText, SafelySent
    <3>2. p = x  BY <1>1, <3>1, SubSeqFull
    <3> HIDE DEF p
    <3> QED BY <1>1, <3>2 DEF IsPrefix
  <2> QED BY <2>1, <2>2, <2>3
<1> HIDE DEF p, S
<1>6. IsPrefix(p, s)  BY <1>1, <1>4, <1>5, StringBegins
<1> QED BY <1>1, <1>2, <1>6 DEF p

\* The worker of c takes the length.
LEMMA LengthArrives ==
    ASSUME IInv, InInv, NEW c \in Clients, WorkerReceiveLength(c), UNCHANGED cvars
    PROVE  InInv'
<1>0. /\ worker[c] = [f \in WorkerFields |-> worker[c][f]]
      /\ worker = [d \in Clients |-> worker[d]]
      /\ worker[c].pc = "readLength" /\ server.up /\ Arrives(c) /\ serverEnd[c] = "open"
      /\ UNCHANGED <<server, serverEnd, query, client>>
  BY DEF IInv, ServerHalf, WorkerReceiveLength, At, InInv, Arrives, Reading, Serving, cvars
<1>1. PICK r \in Reads(toServer[c], 4, clientEnd[c] = "closed") :
        /\ toServer' = [toServer EXCEPT ![c] =
                           SubSeq(toServer[c], Len(r.bytes) + 1, Len(toServer[c]))]
        /\ \/ /\ r.count # 4
              /\ worker' = [worker EXCEPT ![c].pc = "callback"]
           \/ /\ r.count = 4
              /\ \E n \in LengthsIn(r.bytes) :
                   worker' = [worker EXCEPT ![c].pc = "readText", ![c].length = n]
  BY DEF WorkerReceiveLength, ServerReads
<1>2. /\ toServer' = [d \in Clients |-> toServer'[d]]
      /\ toServer'[c] = SubSeq(toServer[c], Len(r.bytes) + 1, Len(toServer[c]))
      /\ \A d \in Clients \ {c} : toServer'[d] = toServer[d]
  BY <1>1 DEF InInv
<1>3. CASE worker' = [worker EXCEPT ![c].pc = "callback"]
  <2>1. Moved(c, "callback")  BY <1>3, MovesAlone DEF IInv
  <2>2. worker'[c].pc = "callback" /\ Reading(c)'
    BY <1>0, <2>1 DEF Moved, Reading
  <2>3. toServer[c] = <<>> => toServer'[c] = <<>>  BY <1>2, EmptyRest
  <2>4. Arrives(c)'  BY <1>0, <2>2, <2>3, WorkerGivesUp
  <2> QED BY <1>0, <1>2, <2>1, <2>4, OthersArrive DEF Moved
<1>4. ASSUME r.count = 4, NEW n \in LengthsIn(r.bytes),
             worker' = [worker EXCEPT ![c].pc = "readText", ![c].length = n]
      PROVE  InInv'
  <2>1. "length" \in WorkerFields \ {"pc"}  BY DEF WorkerFields
  <2>2. Moved(c, "readText") /\ worker'[c].length = n
    BY <1>0, <1>4, <2>1, MovesWith DEF IInv, WorkerFields
  <2>3. /\ worker'[c].pc = "readText" /\ Reading(c)'
        /\ \A x : SentText(c, x)' <=> SentText(c, x)
    BY <1>0, <2>2 DEF Moved, Reading, SentText, Content
  <2>4. Len(toServer[c]) >= 4 /\ r.bytes = SubSeq(toServer[c], 1, 4) /\ toServer[c] # <<>>
    BY <1>4, ReadFour
  <2>5. ASSUME Live(c)
        PROVE  /\ client[c].pc \notin BeforeHeader /\ SentText(c, toServer'[c])
               /\ n = query[c].size \/ n < 0
    <3>1. client[c].pc \notin BeforeHeader
      BY <1>0, <2>4, <2>5 DEF Arrives, Incoming, ReadsLength
    <3>2. PICK x \in Seq(ContentBytes(c)) :
            SentText(c, x) /\ toServer[c] = Header4(c) \o x
      BY <1>0, <2>5, <3>1 DEF Arrives, Incoming, ReadsLength
    <3>3. query[c] \in Queries[c]  BY <1>0 DEF Arrives
    <3>4. r.bytes = Header4(c) /\ SubSeq(toServer[c], 5, Len(toServer[c])) = x
      BY <2>4, <3>2, <3>3, HeaderOff
    <3>5. toServer'[c] = x
      <4>1. Len(Header4(c)) = 4  BY <3>3, TextParts
      <4>2. Len(r.bytes) + 1 = 5  BY <3>4, <4>1
      <4> QED BY <1>2, <3>4, <4>2
    <3>6. n = query[c].size \/ n < 0  BY <1>4, <3>3, <3>4, HeaderLength
    <3> QED BY <3>1, <3>2, <3>5, <3>6
  <2>6. Incoming(c)'
    <3>1. client'[c].pc # "idle" \/ toServer'[c] = <<>>
      BY <1>0, <2>4 DEF Arrives, Incoming
    <3>2. Live(c)' => Live(c)  BY <1>0 DEF Live
    <3>3. worker'[c].pc \notin ReadsLength  BY <2>3 DEF ReadsLength
    <3> QED BY <1>0, <2>2, <2>3, <2>5, <3>1, <3>2, <3>3 DEF Incoming
  <2>7. Parsed(c)'  BY <2>3 DEF Parsed, Taken
  <2>8. Arrives(c)'  BY <1>0, <2>3, <2>6, <2>7 DEF Arrives
  <2> QED BY <1>0, <1>2, <2>2, <2>8, OthersArrive DEF Moved
<1> QED BY <1>1, <1>3, <1>4

\* The worker of c takes the text, or gives up.
LEMMA TextArrives ==
    ASSUME IInv, InInv, NEW c \in Clients, WorkerReceiveText(c), ~ServerEnds, UNCHANGED cvars
    PROVE  InInv'
<1>0. /\ worker[c] = [f \in WorkerFields |-> worker[c][f]]
      /\ worker = [d \in Clients |-> worker[d]]
      /\ worker[c].pc = "readText" /\ server.up /\ Arrives(c) /\ serverEnd[c] = "open"
      /\ UNCHANGED <<server, serverEnd, query, client>>
  BY DEF IInv, ServerHalf, WorkerReceiveText, At, InInv, Arrives, Reading, Serving, cvars
<1> DEFINE length == worker[c].length
           t == toServer[c]
<1>1. PICK r \in Reads(t, Room(length, t), clientEnd[c] = "closed") :
        /\ toServer' = [toServer EXCEPT ![c] = SubSeq(t, Len(r.bytes) + 1, Len(t))]
        /\ \/ worker' = [worker EXCEPT ![c].pc = "callback"]
           \/ /\ r.count = length
              /\ \E s \in Strings(r.bytes) :
                   worker' = [worker EXCEPT ![c].pc = "run", ![c].text = s]
  BY DEF WorkerReceiveText, ServerReads, WholeText
<1>2. /\ toServer' = [d \in Clients |-> toServer'[d]]
      /\ toServer'[c] = SubSeq(t, Len(r.bytes) + 1, Len(t))
      /\ \A d \in Clients \ {c} : toServer'[d] = toServer[d]
  BY <1>1 DEF InInv
<1>5. t = <<>> => toServer'[c] = <<>>  BY <1>2, EmptyRest
<1>3. CASE worker' = [worker EXCEPT ![c].pc = "callback"]
  <2>1. Moved(c, "callback")  BY <1>3, MovesAlone DEF IInv
  <2>2. worker'[c].pc = "callback" /\ Reading(c)'
    BY <1>0, <2>1 DEF Moved, Reading
  <2>4. Arrives(c)'  BY <1>0, <1>5, <2>2, WorkerGivesUp
  <2> QED BY <1>0, <1>2, <2>1, <2>4, OthersArrive DEF Moved
<1>4. ASSUME r.count = length, NEW s \in Strings(r.bytes),
             worker' = [worker EXCEPT ![c].pc = "run", ![c].text = s]
      PROVE  InInv'
  <2>1. "text" \in WorkerFields \ {"pc"}  BY DEF WorkerFields
  <2>2. Moved(c, "run") /\ worker'[c].length = length /\ worker'[c].text = s
    BY <1>0, <1>4, <2>1, MovesWith DEF IInv, WorkerFields
  <2>3. worker'[c].pc = "run" /\ Reading(c)'
    BY <1>0, <2>2 DEF Moved, Reading
  <2>4. Incoming(c)'
    BY <1>0, <1>5, <2>3 DEF Arrives, Incoming, ReadsLength
  <2>5. Parsed(c)'
    <3>1. CASE client[c].pc = "repeatLength"
      BY <1>0, <3>1 DEF Parsed, BeforeHeader
    <3>2. CASE client[c].pc # "repeatLength"
      <4>1. /\ client[c].pc \notin BeforeHeader /\ SentText(c, t)
            /\ length = query[c].size \/ length < 0
        BY <1>0, <3>2 DEF Arrives, Incoming, Live
      <4>2. query[c].size \in Nat /\ query[c] \in Queries[c]  BY <1>0, TextParts DEF Arrives
      <4>3. CASE r.count = -1
        BY <1>0, <1>4, <2>2, <2>3, <4>1, <4>3 DEF Parsed
      <4>4. ASSUME NEW k \in 0..Len(t), r.count = k, r.bytes = SubSeq(t, 1, k)
            PROVE  Parsed(c)'
        <5>1. k = query[c].size
          <6>1. Len(t) \in Nat  BY <4>1, LenProperties DEF SentText
          <6> QED BY <1>4, <4>1, <4>2, <4>4, <6>1
        <5>2. /\ client[c].pc = "writeText" => query[c].size = 0
              /\ IsPrefix(SubSeq(Content(c), 1, SafelySent(c)), s)
          BY <1>4, <3>2, <4>1, <4>2, <4>4, <5>1, TextTaken
        <5>3. SafelySent(c)' = SafelySent(c) /\ Content(c)' = Content(c)
          BY <1>0 DEF SafelySent, Content
        <5> QED BY <1>0, <1>4, <2>2, <4>1, <4>4, <5>1, <5>2, <5>3 DEF Parsed
      <4> QED BY <1>1, <4>3, <4>4 DEF Reads, Chunks
    <3> QED BY <3>1, <3>2
  <2>6. Arrives(c)'  BY <1>0, <2>3, <2>4, <2>5 DEF Arrives
  <2> QED BY <1>0, <1>2, <2>2, <2>6, OthersArrive DEF Moved
<1> QED BY <1>1, <1>3, <1>4

LEMMA WorkersArrive ==
    ASSUME IInv, InInv, NEW c \in Clients, WorkerNext(c), UNCHANGED cvars
    PROVE  InInv'
<1>0. /\ worker[c] = [f \in WorkerFields |-> worker[c][f]]
      /\ worker = [d \in Clients |-> worker[d]]
      /\ Arrives(c) /\ UNCHANGED <<query, client>>
      /\ serverEnd = [d \in Clients |-> serverEnd[d]]
  BY DEF IInv, ServerHalf, EndsFollow, InInv, cvars
<1>1. CASE ServerEnds  BY <1>1, EndArrives
<1>2. CASE WorkerReceiveLength(c)  BY <1>2, LengthArrives
<1>3. CASE WorkerReceiveText(c) /\ ~ServerEnds  BY <1>3, TextArrives
<1>4. ASSUME NEW pc, Moved(c, pc), server'.up = server.up, UNCHANGED <<toServer, serverEnd>>,
             worker[c].pc \in Serving, pc \notin ReadsLength \cup {"readText"},
             pc \in Taken => /\ worker[c].pc \in Taken
                             /\ worker'[c].length = worker[c].length
                             /\ worker'[c].text = worker[c].text
      PROVE  InInv'
  <2>1. worker'[c].pc = pc /\ Reading(c)'
    BY <1>0, <1>4 DEF Moved, Reading, Arrives
  <2>2. Arrives(c)'  BY <1>0, <1>4, <2>1, WorkerGoesOn
  <2> QED BY <1>4, <2>2, OthersArrive DEF Moved, InInv
<1>5. CASE Run(c) /\ ~ServerEnds
  <2>1. PICK x : worker' = [worker EXCEPT ![c].pc = "writeLength", ![c].answer = x]
    BY <1>5 DEF Run
  <2>2. worker[c].pc = "run" /\ UNCHANGED <<server, toServer, serverEnd>>
    BY <1>5 DEF Run, At, wire
  <2>3. "answer" \in WorkerFields \ {"pc"}  BY DEF WorkerFields
  <2>4. Moved(c, "writeLength")  BY <2>1, <2>3, MovesWith DEF IInv
  <2>5. worker'[c].length = worker[c].length /\ worker'[c].text = worker[c].text
    BY <1>0, <2>1 DEF WorkerFields
  <2> QED BY <1>4, <2>2, <2>4, <2>5 DEF Serving, ReadsLength, Taken
<1>6. ASSUME NEW pc \in {"writeLength", "writeText"}, NEW next \in {"writeText", "callback"},
             NEW bytes, WorkerSend(c, pc, bytes, next), ~ServerEnds
      PROVE  InInv'
  <2>1. PICK x : worker' = [worker EXCEPT ![c].pc = next, ![c].cut = x]
    BY <1>6 DEF WorkerSend
  <2>2. worker[c].pc = pc /\ UNCHANGED <<server, toServer, serverEnd>>
    BY <1>6 DEF WorkerSend, At
  <2>3. "cut" \in WorkerFields \ {"pc"}  BY DEF WorkerFields
  <2>4. Moved(c, next)  BY <2>1, <2>3, MovesWith DEF IInv
  <2>5. worker'[c].length = worker[c].length /\ worker'[c].text = worker[c].text
    BY <1>0, <2>1 DEF WorkerFields
  <2> QED BY <1>4, <2>2, <2>4, <2>5 DEF Serving, ReadsLength, Taken
<1>7. CASE WorkerSendLength(c) /\ ~ServerEnds  BY <1>6, <1>7 DEF WorkerSendLength
<1>8. CASE WorkerSendText(c) /\ ~ServerEnds  BY <1>6, <1>8 DEF WorkerSendText
<1>9. CASE Callback(c)
  <2>1. /\ worker[c].pc = "callback" /\ UNCHANGED <<server, toServer, serverEnd>>
        /\ worker' = [worker EXCEPT ![c].pc = "erasing"]
    BY <1>9 DEF Callback, At, wire
  <2>2. Moved(c, "erasing")  BY <2>1, MovesAlone DEF IInv
  <2> QED BY <1>4, <2>1, <2>2 DEF Serving, ReadsLength, Taken
<1>10. CASE Erase(c)
  <2>1. /\ worker[c].pc = "erasing" /\ UNCHANGED <<server, toServer>>
        /\ worker' = [worker EXCEPT ![c].pc = "gone"]
        /\ serverEnd' = [serverEnd EXCEPT ![c] = "closed"]
    BY <1>10 DEF Erase, At
  <2>2. Moved(c, "gone")  BY <2>1, MovesAlone DEF IInv
  <2>3. /\ worker'[c].pc = "gone" /\ serverEnd'[c] = "closed"
        /\ \A d \in Clients \ {c} : serverEnd'[d] = serverEnd[d]
    BY <1>0, <2>1, <2>2 DEF Moved
  <2>4. Reading(c)'  BY <2>3 DEF Reading, Serving
  <2>5. Arrives(c)'  BY <1>0, <2>1, <2>3, <2>4, WorkerGoesOn DEF ReadsLength, Taken
  <2> QED BY <2>1, <2>2, <2>3, <2>5, OthersArrive DEF Moved, InInv
<1> QED BY <1>1, <1>2, <1>3, <1>5, <1>7, <1>8, <1>9, <1>10 DEF WorkerNext

-----------------------------------------------------------------------------
\* A write to an open end sends a part; one that fails sends nothing.
LEMMA WhatIsSent ==
    ASSUME NEW bytes, NEW more, NEW end, NEW w \in Writes(bytes, more, end)
    PROVE  /\ w.killed => w.bytes = bytes
           /\ end \in {"backlog", "open"} =>
                \E k \in 0..Len(more) : w.count = k /\ w.bytes = bytes \o SubSeq(more, 1, k)
<1>1. w.killed => w.bytes = bytes
  <2>1. \A k : Sent(bytes, k, more).killed = FALSE  BY DEF Sent
  <2> QED BY <2>1 DEF Writes
<1>2. ASSUME end \in {"backlog", "open"}
      PROVE  \E k \in 0..Len(more) : w.count = k /\ w.bytes = bytes \o SubSeq(more, 1, k)
  <2>1. PICK k \in Chunks(more, Len(more)) : w = Sent(bytes, k, more)
    BY <1>2 DEF Writes
  <2> QED BY <2>1 DEF Chunks, Sent
<1> QED BY <1>1, <1>2

\* A step of c as a client leaves the others alone.
LEMMA ClientsArrive ==
    ASSUME InInv, NEW c \in Clients, Arrives(c)', UNCHANGED <<query, svars>>,
           toServer' = [d \in Clients |-> toServer'[d]],
           \A d \in Clients \ {c} : /\ client'[d] = client[d] /\ toServer'[d] = toServer[d]
                                    /\ serverEnd'[d] = serverEnd[d]
    PROVE  InInv'
<1>1. ASSUME NEW d \in Clients \ {c} PROVE Arrives(d)'
  <2>1. Arrives(d) /\ UNCHANGED <<query, worker, server>>  BY DEF InInv, svars
  <2> QED BY <2>1, ArrivesSame
<1> QED BY <1>1 DEF InInv

\* What was parsed stays the text: the place up to which it is right moves only
\* when a text is cut, before which none was taken.
LEMMA ParsedStays ==
    ASSUME NEW c \in Clients, Parsed(c), worker'[c] = worker[c], query'[c] = query[c],
           client[c].pc \notin {"repeatText", "repeatLength"},
           \/ client[c].pc \in BeforeHeader
           \/ /\ client'[c].pc \notin BeforeHeader \cup {"writeText"}
              /\ client'[c].pc = "repeatText" =>
                    client[c].pc = "writeText" /\ query[c].size # 0
    PROVE  Parsed(c)'
BY DEF Parsed, SafelySent, Content

\* The client is past its text, and writes nothing.
LEMMA ClientListens ==
    ASSUME NEW c \in Clients, Arrives(c), UNCHANGED <<query, svars, toServer, serverEnd>>,
           client[c].pc \in {"readLength", "readText", "garbage", "done"},
           client'[c].pc \in {"readLength", "readText", "garbage", "done"}
    PROVE  Arrives(c)'
<1>1. \A x : SentText(c, x)' <=> SentText(c, x)  BY DEF SentText, Content
<1>2. Incoming(c)'
  <2>1. Incoming(c)  BY DEF Arrives
  <2> HIDE DEF SentText
  <2> QED BY <1>1, <2>1 DEF Incoming, Live, Header4, BeforeHeader, svars
<1>3. Parsed(c)'
  <2>1. Parsed(c)  BY DEF Arrives
  <2> QED BY <2>1, ParsedStays DEF BeforeHeader, svars
<1> QED BY <1>2, <1>3 DEF Arrives, Reading, svars

\* The client writes to an end that is not open.
LEMMA WritesInVain ==
    ASSUME NEW c \in Clients, Arrives(c), UNCHANGED <<query, svars, serverEnd>>,
           serverEnd[c] \notin {"backlog", "open"}, client'[c].pc # "idle", Parsed(c)'
    PROVE  Arrives(c)'
BY DEF Arrives, Reading, Incoming, Live, svars

\* The bytes of a text that are added to what was sent of it.
LEMMA TextGrows ==
    ASSUME NEW c \in Clients, Arrives(c), UNCHANGED <<query, svars, serverEnd>>,
           NEW y \in Seq(ContentBytes(c)), toServer'[c] = toServer[c] \o y,
           client[c].pc \in {"writeText", "repeatText"},
           client'[c].pc \in {"repeatText", "readLength"},
           \A x : SentText(c, x) => SentText(c, x \o y)'
    PROVE  Incoming(c)'
<1>1. Live(c)' => Live(c)  BY DEF Live
<1>2. /\ query[c] \in Queries[c] /\ Header4(c)' = Header4(c) /\ ContentBytes(c)' = ContentBytes(c)
      /\ worker'[c] = worker[c]
  BY DEF Arrives, Header4, ContentBytes, svars
<1>3. client[c].pc \notin BeforeHeader /\ client'[c].pc \notin BeforeHeader \cup {"idle"}
  BY DEF BeforeHeader
<1>4. ASSUME Live(c), worker[c].pc \in ReadsLength
      PROVE  \E x \in Seq(ContentBytes(c)) : SentText(c, x)' /\ toServer'[c] = Header4(c) \o x
  <2>1. PICK x \in Seq(ContentBytes(c)) : SentText(c, x) /\ toServer[c] = Header4(c) \o x
    BY <1>3, <1>4 DEF Arrives, Incoming
  <2>2. toServer'[c] = Header4(c) \o (x \o y)
    <3>1. /\ Header4(c) \in Seq(AllBytes(c)) /\ x \in Seq(AllBytes(c)) /\ y \in Seq(AllBytes(c))
      BY <1>2, TextParts
    <3> DEFINE B == AllBytes(c)  h == Header4(c)
    <3>2. h \in Seq(B) /\ x \in Seq(B) /\ y \in Seq(B)  BY <3>1
    <3> HIDE DEF B, h
    <3>3. (h \o x) \o y = h \o (x \o y)  BY <3>2, ConcatAssociative
    <3> QED BY <2>1, <3>3 DEF h
  <2>3. SentText(c, x \o y)'  BY <2>1
  <2>4. x \o y \in Seq(ContentBytes(c))  BY ConcatProperties
  <2> HIDE DEF SentText
  <2> QED BY <2>2, <2>3, <2>4
<1>5. ASSUME Live(c), worker[c].pc = "readText"
      PROVE  SentText(c, toServer[c])' /\ (worker[c].length = query[c].size \/ worker[c].length < 0)
  <2>1. SentText(c, toServer[c]) /\ (worker[c].length = query[c].size \/ worker[c].length < 0)
    BY <1>5 DEF Arrives, Incoming
  <2>2. PICK x : x = toServer[c]  OBVIOUS
  <2>3. SentText(c, x \o y)' /\ toServer'[c] = x \o y  BY <2>1, <2>2
  <2>4. SentText(c, toServer[c])'  BY <2>3 DEF SentText
  <2> QED BY <2>1, <2>4
<1> HIDE DEF SentText
<1> QED BY <1>1, <1>2, <1>3, <1>4, <1>5 DEF Incoming

LEMMA CallersArrive ==
    ASSUME IInv, StreamInv, InInv, NEW c \in Clients, CallerStep(c)
    PROVE  InInv'
<1>0. /\ client[c] = [f \in ClientFields |-> client[c][f]]
      /\ client = [d \in Clients |-> client[d]]
      /\ serverEnd = [d \in Clients |-> serverEnd[d]]
      /\ Arrives(c) /\ ClosedEnds(c) /\ UNCHANGED svars
  BY DEF IInv, ClientHalf, EndsFollow, CallerStep, InInv, StreamInv, Streams
<1>1. CASE Query(c, Listening)
  <2>1. PICK who \in {"waiting", "leaving"} :
          client' = [client EXCEPT ![c].pc = "writeLength", ![c].caller = who]
    BY <1>1 DEF Query
  <2>2. /\ client[c].caller = "calling" /\ UNCHANGED <<query, toServer>>
        /\ \/ UNCHANGED serverEnd
           \/ serverEnd' = [serverEnd EXCEPT ![c] = "backlog"]
    BY <1>1 DEF Query, Connect, wire
  <2>3. /\ client'[c].pc = "writeLength"
        /\ \A d \in Clients \ {c} : client'[d] = client[d] /\ serverEnd'[d] = serverEnd[d]
    BY <1>0, <2>1, <2>2 DEF ClientFields
  <2>4. client[c].pc = "idle" /\ serverEnd[c] = "none" /\ worker[c].pc = "none"
    BY <1>0, <2>2 DEF ClosedEnds, IInv, EndsFollow, ServerHalf, Serving
  <2>5. toServer'[c] = <<>> /\ worker'[c].pc = "none" /\ query'[c] = query[c]
    BY <1>0, <2>2, <2>4 DEF Arrives, Incoming, svars
  <2>6. Arrives(c)'
    BY <1>0, <2>3, <2>5
    DEF Arrives, Reading, Incoming, Parsed, Serving, Taken, BeforeHeader
  <2> QED BY <1>0, <2>2, <2>3, <2>6, ClientsArrive DEF InInv
<1>2. ASSUME UNCHANGED <<query, toServer, serverEnd>>,
             client'[c].pc = client[c].pc, client'[c].wrote = client[c].wrote,
             \A d \in Clients \ {c} : client'[d] = client[d]
      PROVE  InInv'
  <2>1. Arrives(c)'  BY <1>0, <1>2, ArrivesSame DEF svars
  <2> QED BY <1>0, <1>2, <2>1, ClientsArrive DEF InInv
<1>3. CASE Refused(c)  BY <1>0, <1>2, <1>3 DEF Refused, wire, ClientFields
<1>4. CASE Leave(c)  BY <1>0, <1>2, <1>4 DEF Leave, ClientKilled, ClientFields
<1>5. CASE Return(c)  BY <1>0, <1>2, <1>5 DEF Return, wire, ClientFields
<1>6. CASE Overrun(c)  BY <1>0, <1>2, <1>6 DEF Overrun, ClientKilled, ClientFields
<1> QED BY <1>1, <1>3, <1>4, <1>5, <1>6 DEF CallerStep, Caller

-----------------------------------------------------------------------------
\* The client writes: what it sends is there, and where it is then.
Wrote(c, pc, bytes, repeat, next) ==
    /\ client[c].pc = pc /\ UNCHANGED <<query, serverEnd>>
    /\ toServer' = [d \in Clients |-> toServer'[d]]
    /\ \A d \in Clients \ {c} : client'[d] = client[d] /\ toServer'[d] = toServer[d]
    /\ \/ /\ toServer'[c] = toServer[c]
          /\ client'[c].pc = client[c].pc /\ client'[c].wrote = client[c].wrote
       \/ /\ serverEnd[c] \in {"backlog", "open"}
          /\ \E k \in 0..Len(bytes) :
               /\ toServer'[c] = toServer[c] \o SubSeq(bytes, 1, k)
               /\ client'[c].wrote = k
               /\ client'[c].pc = IF k < Len(bytes) THEN repeat ELSE next
       \/ /\ serverEnd[c] \notin {"backlog", "open"}
          /\ client'[c].pc \in {"garbage", repeat, next}
          /\ client'[c].pc = repeat => Len(bytes) # 0 \/ repeat = next

LEMMA SendMoves ==
    ASSUME IInv, InInv, NEW c \in Clients, UNCHANGED svars,
           NEW pc, NEW bytes, NEW repeat, NEW next, Len(bytes) \in Nat, repeat # "garbage",
           Send(c, pc, bytes, repeat, next)
    PROVE  Wrote(c, pc, bytes, repeat, next)
<1>0. /\ client[c] = [f \in ClientFields |-> client[c][f]]
      /\ client = [d \in Clients |-> client[d]]
  BY DEF IInv, ClientHalf
<1>1. PICK w \in Writes(toServer[c], bytes, serverEnd[c]) :
        /\ toServer' = [toServer EXCEPT ![c] = w.bytes]
        /\ IF w.killed THEN ClientKilled(c)
           ELSE client' = [client EXCEPT ![c].wrote = w.count,
                             ![c].pc = CASE w.count = -1 -> "garbage"
                                         [] w.count \in 0..(Len(bytes) - 1) -> repeat
                                         [] OTHER -> next]
  BY DEF Send
<1> DEFINE goes == CASE w.count = -1 -> "garbage"
                     [] w.count \in 0..(Len(bytes) - 1) -> repeat
                     [] OTHER -> next
<1>2. /\ toServer' = [d \in Clients |-> toServer'[d]] /\ toServer'[c] = w.bytes
      /\ \A d \in Clients \ {c} : toServer'[d] = toServer[d]
  BY <1>1 DEF InInv
<1>3. CASE w.killed
  <2>1. /\ client'[c].pc = client[c].pc /\ client'[c].wrote = client[c].wrote
        /\ \A d \in Clients \ {c} : client'[d] = client[d]
    BY <1>0, <1>1, <1>3 DEF ClientKilled, ClientFields
  <2>2. w.bytes = toServer[c]  BY <1>3, WhatIsSent
  <2> QED BY <1>2, <2>1, <2>2 DEF Send, Working, Wrote
<1>4. CASE ~w.killed
  <2>1. client' = [client EXCEPT ![c].wrote = w.count, ![c].pc = goes]  BY <1>1, <1>4
  <2>2. goes = goes  OBVIOUS
  <2>3. /\ client'[c].pc = goes /\ client'[c].wrote = w.count
        /\ \A d \in Clients \ {c} : client'[d] = client[d]
    <3> HIDE DEF goes
    <3> QED BY <1>0, <2>1 DEF ClientFields
  <2>4. CASE serverEnd[c] \in {"backlog", "open"}
    <3>1. PICK k \in 0..Len(bytes) :
            w.count = k /\ w.bytes = toServer[c] \o SubSeq(bytes, 1, k)
      <4> DEFINE end == serverEnd[c]
                 there == toServer[c]
      <4>1. w \in Writes(there, bytes, end) /\ end \in {"backlog", "open"}  BY <2>4
      <4> HIDE DEF goes, end, there
      <4>2. \E k \in 0..Len(bytes) : w.count = k /\ w.bytes = there \o SubSeq(bytes, 1, k)
        BY <4>1, WhatIsSent
      <4> QED BY <4>2 DEF there
    <3>2. goes = IF k < Len(bytes) THEN repeat ELSE next  BY <3>1
    <3> HIDE DEF goes
    <3> QED BY <1>2, <2>3, <2>4, <3>1, <3>2 DEF Send, Working, Wrote
  <2>5. CASE serverEnd[c] \notin {"backlog", "open"}
    <3>1. /\ goes \in {"garbage", repeat, next}
          /\ goes = repeat => Len(bytes) # 0 \/ repeat = next
      OBVIOUS
    <3> HIDE DEF goes
    <3> QED BY <1>2, <2>3, <2>5, <3>1 DEF Send, Working, Wrote
  <2> QED BY <2>4, <2>5
<1> QED BY <1>3, <1>4

LEMMA SendLengthArrives ==
    ASSUME IInv, InInv, NEW c \in Clients, UNCHANGED svars, SendLength(c)
    PROVE  InInv'
<1>0. Arrives(c) /\ query[c] \in Queries[c]  BY DEF InInv, Arrives
<1>1. Len(Header4(c)) = 4 /\ Header4(c) \in Seq(AllBytes(c))  BY <1>0, TextParts
<1>2. Wrote(c, "writeLength", Header4(c), "repeatLength", "writeText")
  <2> DEFINE h == Header4(c)
  <2>1. Send(c, "writeLength", h, "repeatLength", "writeText") /\ Len(h) \in Nat
    BY <1>1 DEF SendLength, Header4
  <2> HIDE DEF h
  <2>2. Wrote(c, "writeLength", h, "repeatLength", "writeText")  BY <2>1, SendMoves
  <2> QED BY <2>2 DEF h
<1>3. /\ client[c].pc = "writeLength" /\ UNCHANGED <<query, serverEnd>>
      /\ toServer' = [d \in Clients |-> toServer'[d]]
      /\ \A d \in Clients \ {c} : client'[d] = client[d] /\ toServer'[d] = toServer[d]
      /\ \/ /\ toServer'[c] = toServer[c]
            /\ client'[c].pc = client[c].pc /\ client'[c].wrote = client[c].wrote
         \/ /\ serverEnd[c] \in {"backlog", "open"}
            /\ \E k \in 0..4 :
                 /\ toServer'[c] = toServer[c] \o SubSeq(Header4(c), 1, k)
                 /\ client'[c].pc = IF k < 4 THEN "repeatLength" ELSE "writeText"
         \/ /\ serverEnd[c] \notin {"backlog", "open"}
            /\ client'[c].pc \in {"garbage", "repeatLength", "writeText"}
  BY <1>1, <1>2 DEF Wrote
<1>4. Parsed(c)'
  BY <1>0, <1>3, ParsedStays DEF Arrives, BeforeHeader, svars
<1>5. CASE /\ toServer'[c] = toServer[c]
           /\ client'[c].pc = client[c].pc /\ client'[c].wrote = client[c].wrote
  <2>1. Arrives(c)'  BY <1>0, <1>3, <1>5, ArrivesSame DEF svars
  <2> QED BY <1>3, <2>1, ClientsArrive
<1>6. CASE serverEnd[c] \notin {"backlog", "open"} /\ client'[c].pc # "idle"
  <2>1. Arrives(c)'  BY <1>0, <1>3, <1>4, <1>6, WritesInVain
  <2> QED BY <1>3, <2>1, ClientsArrive
<1>7. ASSUME serverEnd[c] \in {"backlog", "open"}, NEW k \in 0..4,
             toServer'[c] = toServer[c] \o SubSeq(Header4(c), 1, k),
             client'[c].pc = IF k < 4 THEN "repeatLength" ELSE "writeText"
      PROVE  InInv'
  <2>1. Live(c) /\ worker[c].pc # "readText"
    BY <1>0, <1>3, <1>7 DEF Live, Arrives, Incoming, BeforeHeader
  <2>2. UNCHANGED worker  BY DEF svars
  <2>3. Incoming(c)'
    <3>1. CASE k < 4
      BY <1>7, <3>1 DEF Incoming, Live
    <3>2. CASE k = 4
      <4>1. worker[c].pc \in ReadsLength => toServer'[c] = Header4(c) \o <<>>
        <5> SUFFICES ASSUME worker[c].pc \in ReadsLength
                     PROVE  toServer'[c] = Header4(c) \o <<>>
          OBVIOUS
        <5>1. toServer[c] = <<>>
          BY <1>0, <1>3, <2>1 DEF Arrives, Incoming, BeforeHeader
        <5>2. SubSeq(Header4(c), 1, k) = Header4(c)  BY <1>1, <3>2, SubSeqFull
        <5> QED BY <1>1, <1>7, <5>1, <5>2, ConcatEmptySeq
      <4>2. client'[c].pc = "writeText"  BY <1>7, <3>2
      <4>3. SentText(c, <<>>)' /\ <<>> \in Seq(ContentBytes(c))'
        BY <4>2, EmptySeq DEF SentText
      <4>4. Header4(c)' = Header4(c)  BY <1>3 DEF Header4
      <4>5. client'[c].pc \notin {"idle"} \cup BeforeHeader  BY <4>2 DEF BeforeHeader
      <4> HIDE DEF SentText
      <4> QED BY <2>1, <2>2, <4>1, <4>3, <4>4, <4>5 DEF Incoming
    <3> QED BY <3>1, <3>2
  <2>4. Arrives(c)'  BY <1>0, <1>3, <1>4, <2>3 DEF Arrives, Reading, svars
  <2> QED BY <1>3, <2>4, ClientsArrive
<1> QED BY <1>3, <1>5, <1>6, <1>7

LEMMA SendTextArrives ==
    ASSUME IInv, InInv, NEW c \in Clients, UNCHANGED svars, SendText(c)
    PROVE  InInv'
<1> DEFINE x == Content(c)
           n == query[c].size
<1>0. Arrives(c) /\ query[c] \in Queries[c]  BY DEF InInv, Arrives
<1>1. n \in Nat /\ Len(x) = n /\ x \in Seq(ContentBytes(c))  BY <1>0, TextParts
<1>2. Wrote(c, "writeText", x, "repeatText", "readLength")
  <2>1. Send(c, "writeText", x, "repeatText", "readLength") /\ Len(x) \in Nat
    BY <1>1 DEF SendText
  <2> HIDE DEF x
  <2> QED BY <2>1, SendMoves
<1> HIDE DEF x
<1>3. /\ client[c].pc = "writeText" /\ UNCHANGED <<query, serverEnd>>
      /\ toServer' = [d \in Clients |-> toServer'[d]]
      /\ \A d \in Clients \ {c} : client'[d] = client[d] /\ toServer'[d] = toServer[d]
      /\ \/ /\ toServer'[c] = toServer[c]
            /\ client'[c].pc = client[c].pc /\ client'[c].wrote = client[c].wrote
         \/ /\ serverEnd[c] \in {"backlog", "open"}
            /\ \E k \in 0..n :
                 /\ toServer'[c] = toServer[c] \o SubSeq(x, 1, k)
                 /\ client'[c].wrote = k
                 /\ client'[c].pc = IF k < n THEN "repeatText" ELSE "readLength"
         \/ /\ serverEnd[c] \notin {"backlog", "open"}
            /\ client'[c].pc \in {"garbage", "repeatText", "readLength"}
            /\ client'[c].pc = "repeatText" => n # 0
  BY <1>1, <1>2 DEF Wrote
<1>4. CASE /\ toServer'[c] = toServer[c]
           /\ client'[c].pc = client[c].pc /\ client'[c].wrote = client[c].wrote
  <2>1. Arrives(c)'  BY <1>0, <1>3, <1>4, ArrivesSame DEF svars
  <2> QED BY <1>3, <2>1, ClientsArrive
<1>5. ASSUME client'[c].pc \in {"garbage", "repeatText", "readLength"},
             client'[c].pc = "repeatText" => n # 0
      PROVE  Parsed(c)'
  BY <1>0, <1>3, <1>5, ParsedStays DEF Arrives, BeforeHeader, svars
<1>6. CASE /\ serverEnd[c] \notin {"backlog", "open"}
           /\ client'[c].pc \in {"garbage", "repeatText", "readLength"}
           /\ client'[c].pc = "repeatText" => n # 0
  <2>1. Parsed(c)' /\ client'[c].pc # "idle"  BY <1>5, <1>6
  <2>2. Arrives(c)'  BY <1>0, <1>3, <1>6, <2>1, WritesInVain
  <2> QED BY <1>3, <2>2, ClientsArrive
<1>7. ASSUME serverEnd[c] \in {"backlog", "open"}, NEW k \in 0..n,
             toServer'[c] = toServer[c] \o SubSeq(x, 1, k), client'[c].wrote = k,
             client'[c].pc = IF k < n THEN "repeatText" ELSE "readLength"
      PROVE  InInv'
  <2>0. PICK y : y = SubSeq(x, 1, k)  OBVIOUS
  <2>1. y \in Seq(ContentBytes(c)) /\ Len(y) = k
    <3>1. \A i \in 1..k : x[i] \in ContentBytes(c)  BY <1>1, ElementOfSeq
    <3>2. k \in Int /\ k \in Nat  BY <1>1
    <3> QED BY <2>0, <3>1, <3>2, SubSeqProperties
  <2>2. Content(c)' = x /\ ContentBytes(c)' = ContentBytes(c) /\ query'[c].size = n
    BY <1>3 DEF Content, ContentBytes, x
  <2>3. SentText(c, y)'
    <3>1. CASE k < n
      <4>1. client'[c].pc = "repeatText"  BY <1>7, <3>1
      <4>2. IsPrefix(y, y)  BY <1>1, <2>1 DEF IsPrefix
      <4>3. SubSeq(Content(c)', 1, client'[c].wrote) = y  BY <1>7, <2>0, <2>2
      <4> QED BY <1>7, <2>1, <2>2, <4>1, <4>2, <4>3 DEF SentText
    <3>2. CASE k = n
      <4>1. client'[c].pc = "readLength"  BY <1>1, <1>7, <3>2
      <4>2. y = x  BY <1>1, <2>0, <3>2, SubSeqFull
      <4> QED BY <2>1, <2>2, <4>1, <4>2 DEF SentText
    <3> QED BY <1>1, <3>1, <3>2
  <2>4. \A t : SentText(c, t) => SentText(c, t \o y)'
    <3> SUFFICES ASSUME NEW t, SentText(c, t) PROVE SentText(c, t \o y)'  OBVIOUS
    <3>1. t = <<>>  BY <1>3 DEF SentText
    <3>2. t \o y = y  BY <2>1, <3>1, ConcatEmptySeq
    <3> QED BY <2>3, <3>2
  <2>5. /\ client'[c].pc \in {"repeatText", "readLength"}
        /\ client'[c].pc = "repeatText" => n # 0
    BY <1>1, <1>7
  <2>6. Incoming(c)'
    <3>1. toServer'[c] = toServer[c] \o y  BY <1>7, <2>0
    <3> QED BY <1>0, <1>3, <2>1, <2>4, <2>5, <3>1, TextGrows
  <2>7. Parsed(c)'  BY <1>5, <2>5
  <2>8. Arrives(c)'  BY <1>0, <1>3, <2>6, <2>7 DEF Arrives, Reading, svars
  <2> QED BY <1>3, <2>8, ClientsArrive
<1> QED BY <1>3, <1>4, <1>6, <1>7

\* The loops: the client stays where it is, whatever is sent.
LEMMA RepeatsArrive ==
    ASSUME IInv, InInv, NEW c \in Clients, UNCHANGED svars,
           RepeatLength(c) \/ RepeatText(c)
    PROVE  InInv'
<1>0. /\ client[c] = [f \in ClientFields |-> client[c][f]]
      /\ client = [d \in Clients |-> client[d]]
      /\ Arrives(c) /\ query[c] \in Queries[c]
  BY DEF IInv, ClientHalf, InInv, Arrives
<1>1. ASSUME NEW pc, NEW bytes, Repeat(c, pc, bytes)
      PROVE  /\ client[c].pc = pc /\ UNCHANGED <<query, serverEnd>>
             /\ client'[c].pc = client[c].pc /\ client'[c].wrote = client[c].wrote
             /\ toServer' = [d \in Clients |-> toServer'[d]]
             /\ \A d \in Clients \ {c} : client'[d] = client[d] /\ toServer'[d] = toServer[d]
             /\ LET more == SubSeq(bytes, client[c].wrote + 1, Len(bytes))
                IN  \/ toServer'[c] = toServer[c]
                    \/ serverEnd[c] \notin {"backlog", "open"}
                    \/ \E k \in 0..Len(more) : toServer'[c] = toServer[c] \o SubSeq(more, 1, k)
  <2> DEFINE more == SubSeq(bytes, client[c].wrote + 1, Len(bytes))
             there == toServer[c]
             end == serverEnd[c]
  <2>1. PICK w \in Writes(there, more, end) :
          /\ toServer' = [toServer EXCEPT ![c] = w.bytes]
          /\ ClientKilled(c) \/ UNCHANGED client
    BY <1>1 DEF Repeat
  <2>2. /\ toServer' = [d \in Clients |-> toServer'[d]] /\ toServer'[c] = w.bytes
        /\ \A d \in Clients \ {c} : toServer'[d] = toServer[d]
    BY <2>1 DEF InInv
  <2>3. /\ client'[c].pc = client[c].pc /\ client'[c].wrote = client[c].wrote
        /\ \A d \in Clients \ {c} : client'[d] = client[d]
    BY <1>0, <2>1 DEF ClientKilled, ClientFields
  <2>4. \/ end \notin {"backlog", "open"}
        \/ \E k \in 0..Len(more) : w.bytes = there \o SubSeq(more, 1, k)
    <3>1. w \in Writes(there, more, end)  OBVIOUS
    <3> HIDE DEF more, there, end
    <3> QED BY <3>1, WhatIsSent
  <2> QED BY <1>1, <2>2, <2>3, <2>4 DEF Repeat, Working
<1>2. CASE RepeatLength(c)
  <2>1. /\ client[c].pc = "repeatLength" /\ UNCHANGED <<query, serverEnd>>
        /\ client'[c].pc = client[c].pc /\ client'[c].wrote = client[c].wrote
        /\ toServer' = [d \in Clients |-> toServer'[d]]
        /\ \A d \in Clients \ {c} : client'[d] = client[d] /\ toServer'[d] = toServer[d]
    BY <1>1, <1>2 DEF RepeatLength
  <2>2. Arrives(c)'
    BY <1>0, <2>1 DEF Arrives, Reading, Incoming, Live, Parsed, svars
  <2> QED BY <2>1, <2>2, ClientsArrive
<1>3. CASE RepeatText(c)
  <2> DEFINE x == Content(c)
             m == client[c].wrote
             more == SubSeq(x, m + 1, Len(x))
  <2>1. /\ client[c].pc = "repeatText" /\ UNCHANGED <<query, serverEnd>>
        /\ client'[c].pc = client[c].pc /\ client'[c].wrote = client[c].wrote
        /\ toServer' = [d \in Clients |-> toServer'[d]]
        /\ \A d \in Clients \ {c} : client'[d] = client[d] /\ toServer'[d] = toServer[d]
        /\ \/ toServer'[c] = toServer[c]
           \/ serverEnd[c] \notin {"backlog", "open"}
           \/ \E k \in 0..Len(more) : toServer'[c] = toServer[c] \o SubSeq(more, 1, k)
    BY <1>1, <1>3 DEF RepeatText
  <2>2. Parsed(c)'  BY <1>0, <2>1 DEF Arrives, Parsed, SafelySent, Content, svars
  <2>3. CASE toServer'[c] = toServer[c]
    <3>1. Arrives(c)'  BY <1>0, <2>1, <2>3, ArrivesSame DEF svars
    <3> QED BY <2>1, <3>1, ClientsArrive
  <2>4. CASE serverEnd[c] \notin {"backlog", "open"}
    <3>1. Arrives(c)'  BY <1>0, <2>1, <2>2, <2>4, WritesInVain
    <3> QED BY <2>1, <3>1, ClientsArrive
  <2>5. ASSUME serverEnd[c] \in {"backlog", "open"}, NEW k \in 0..Len(more),
               toServer'[c] = toServer[c] \o SubSeq(more, 1, k)
        PROVE  InInv'
    <3>1. PICK y : y = SubSeq(more, 1, k)  OBVIOUS
    <3>3. ASSUME NEW t, SentText(c, t)
          PROVE  m \in Nat /\ SentText(c, t \o y)'
      <4>1. /\ t \in Seq(ContentBytes(c)) /\ m \in 0..query[c].size
            /\ IsPrefix(SubSeq(x, 1, m), t)
        BY <2>1, <3>3 DEF SentText
      <4>2. query[c].size \in Nat /\ x \in Seq(ContentBytes(c)) /\ Len(x) = query[c].size
        BY <1>0, TextParts
      <4>3. m \in Nat /\ y \in Seq(ContentBytes(c))
        <5>1. m \in Nat  BY <4>1, <4>2
        <5> QED BY <1>0, <3>1, <5>1, Piece
      <4>4. t \o y \in Seq(ContentBytes(c))  BY <4>1, <4>3, ConcatProperties
      <4>5. IsPrefix(SubSeq(x, 1, m), t \o y)
        <5> DEFINE p == SubSeq(x, 1, m)
        <5>0. IsPrefix(p, t)  BY <4>1
        <5>1. p \in Seq(ContentBytes(c))
          <6>1. \A i \in 1..m : x[i] \in ContentBytes(c)  BY <4>1, <4>2, ElementOfSeq
          <6>2. m \in Int  BY <4>3
          <6> HIDE DEF x, m
          <6> QED BY <6>1, <6>2, SubSeqProperties
        <5> HIDE DEF p
        <5>2. Len(p) <= Len(t) /\ \A i \in 1..Len(p) : t[i] = p[i]
          BY <4>1, <5>0, <5>1, PrefixPlaces
        <5>3. /\ Len(t \o y) = Len(t) + Len(y)
              /\ \A i \in 1..Len(t) : (t \o y)[i] = t[i]
              /\ Len(p) \in Nat /\ Len(t) \in Nat /\ Len(y) \in Nat
          BY <4>1, <4>3, <5>1, ConcatProperties, LenProperties
        <5>4. Len(p) <= Len(t \o y) /\ \A i \in 1..Len(p) : (t \o y)[i] = p[i]
          BY <5>2, <5>3
        <5>5. IsPrefix(p, t \o y)  BY <4>4, <5>1, <5>4, PrefixPlaces
        <5> QED BY <5>5 DEF p
      <4>6. /\ Content(c)' = x /\ ContentBytes(c)' = ContentBytes(c)
            /\ query'[c] = query[c] /\ client'[c].wrote = m /\ client'[c].pc = "repeatText"
        BY <2>1 DEF Content, ContentBytes
      <4>7. SubSeq(Content(c)', 1, client'[c].wrote) = SubSeq(x, 1, m)  BY <4>6
      <4> HIDE DEF x, m
      <4> QED BY <4>1, <4>3, <4>4, <4>5, <4>6, <4>7 DEF SentText
    <3>4. Incoming(c)'
      <4>1. CASE \E t : SentText(c, t)
        <5>1. m \in Nat  BY <3>3, <4>1
        <5>2. y \in Seq(ContentBytes(c))  BY <1>0, <3>1, <5>1, Piece
        <5>3. toServer'[c] = toServer[c] \o y  BY <2>5, <3>1
        <5>4. \A t : SentText(c, t) => SentText(c, t \o y)'  BY <3>3
        <5> QED BY <1>0, <2>1, <5>2, <5>3, <5>4, TextGrows
      <4>2. CASE ~\E t : SentText(c, t)
        <5>1. ~(Live(c) /\ worker[c].pc \in ReadsLength \cup {"readText"})
          BY <1>0, <2>1, <4>2 DEF Arrives, Incoming, BeforeHeader
        <5> QED BY <2>1, <5>1 DEF Incoming, Live, svars
      <4> QED BY <4>1, <4>2
    <3>5. Arrives(c)'  BY <1>0, <2>1, <2>2, <3>4 DEF Arrives, Reading, svars
    <3> QED BY <2>1, <3>5, ClientsArrive
  <2> QED BY <2>1, <2>3, <2>4, <2>5
<1> QED BY <1>2, <1>3

LEMMA WorksArrive ==
    ASSUME IInv, InInv, NEW c \in Clients, WorkStep(c)
    PROVE  InInv'
<1>0. /\ client[c] = [f \in ClientFields |-> client[c][f]]
      /\ client = [d \in Clients |-> client[d]]
      /\ Arrives(c) /\ UNCHANGED svars
  BY DEF IInv, ClientHalf, WorkStep, InInv
<1>1. ASSUME UNCHANGED <<query, toServer, serverEnd>>,
             client[c].pc \in {"readLength", "readText", "garbage"},
             client'[c].pc \in {"readText", "garbage", "done"},
             \A d \in Clients \ {c} : client'[d] = client[d]
      PROVE  InInv'
  <2>1. Arrives(c)'  BY <1>0, <1>1, ClientListens
  <2> QED BY <1>0, <1>1, <2>1, ClientsArrive DEF InInv
<1>2. ASSUME ClientKilled(c), UNCHANGED <<query, toServer, serverEnd>>
      PROVE  InInv'
  <2>1. /\ client'[c].pc = client[c].pc /\ client'[c].wrote = client[c].wrote
        /\ \A d \in Clients \ {c} : client'[d] = client[d]
    BY <1>0, <1>2 DEF ClientKilled, ClientFields
  <2>2. Arrives(c)'  BY <1>0, <1>2, <2>1, ArrivesSame DEF svars
  <2> QED BY <1>0, <1>2, <2>1, <2>2, ClientsArrive DEF InInv
<1>3. ASSUME NEW pc, NEW f \in {"length", "printed"}, NEW x,
             client' = [client EXCEPT ![c].pc = pc, ![c][f] = x]
      PROVE  client'[c].pc = pc /\ \A d \in Clients \ {c} : client'[d] = client[d]
  BY <1>0, <1>3 DEF ClientFields
<1>4. ASSUME NEW pc, client' = [client EXCEPT ![c].pc = pc]
      PROVE  client'[c].pc = pc /\ \A d \in Clients \ {c} : client'[d] = client[d]
  BY <1>0, <1>4 DEF ClientFields
<1>5. CASE ReceiveLength(c)
  <2>1. /\ client[c].pc = "readLength" /\ UNCHANGED <<query, toServer, serverEnd>>
        /\ \/ client' = [client EXCEPT ![c].pc = "garbage"]
           \/ \E n : client' = [client EXCEPT ![c].pc = "readText", ![c].length = n]
    BY <1>5 DEF ReceiveLength, Working
  <2>2. /\ client'[c].pc \in {"readText", "garbage"}
        /\ \A d \in Clients \ {c} : client'[d] = client[d]
    BY <2>1, <1>3, <1>4
  <2> QED BY <1>1, <2>1, <2>2
<1>6. CASE ReceiveText(c)
  <2>1. /\ client[c].pc = "readText" /\ UNCHANGED <<query, toServer, serverEnd>>
        /\ \/ client' = [client EXCEPT ![c].pc = "garbage"]
           \/ \E s : client' = [client EXCEPT ![c].pc = "garbage", ![c].printed = s]
           \/ ClientKilled(c)
    BY <1>6 DEF ReceiveText, Working
  <2>2. CASE ClientKilled(c)  BY <1>2, <2>1, <2>2
  <2>3. CASE ~ClientKilled(c)
    <3>1. client'[c].pc = "garbage" /\ \A d \in Clients \ {c} : client'[d] = client[d]
      BY <2>1, <2>3, <1>3, <1>4
    <3> QED BY <1>1, <2>1, <3>1
  <2> QED BY <2>2, <2>3
<1>7. CASE Garbage(c)
  <2>1. /\ client[c].pc = "garbage" /\ UNCHANGED <<query, toServer, serverEnd>>
        /\ client' = [client EXCEPT ![c].pc = "done"]
    BY <1>7 DEF Garbage, Working
  <2> QED BY <1>1, <1>4, <2>1
<1>8. CASE SendLength(c)  BY <1>0, <1>8, SendLengthArrives
<1>9. CASE SendText(c)  BY <1>0, <1>9, SendTextArrives
<1>10. CASE RepeatLength(c) \/ RepeatText(c)  BY <1>0, <1>10, RepeatsArrive
<1> QED BY <1>5, <1>6, <1>7, <1>8, <1>9, <1>10 DEF WorkStep, Work

LEMMA InStep == IInv /\ StreamInv /\ InInv /\ [Next]_vars => InInv'
<1> SUFFICES ASSUME IInv, StreamInv, InInv, [Next]_vars PROVE InInv'  OBVIOUS
<1>1. ASSUME NEW c \in Clients, CallerStep(c) \/ WorkStep(c) PROVE InInv'
  BY <1>1, CallersArrive, WorksArrive
<1>2. CASE ServerStep
  <2>1. UNCHANGED cvars  BY <1>2 DEF ServerStep
  <2> QED BY <1>2, <2>1, ThreadsArrive, WorkersArrive DEF ServerStep
<1>3. CASE UNCHANGED vars
  <2>1. UNCHANGED <<query, client, worker, server, toServer, serverEnd>>  BY <1>3 DEF vars
  <2>2. \A c \in Clients : Arrives(c)'  BY <2>1, ArrivesSame DEF InInv
  <2> QED BY <2>1, <2>2 DEF InInv
<1> QED BY <1>1, <1>2, <1>3 DEF Next

\* For any number of clients, texts of any length that an int holds, any
\* capacity of the connections and wherever reads and writes are cut, what the
\* server parses begins with the text of its client, up to the place where the
\* client's write was cut, unless a header was cut or the length is -1
\* (MISServer.cpp:76-90, MISClient.cpp:82-94).
THEOREM TextParsed == Spec => []RightText
<1>1. InInv => RightText
  <2> SUFFICES ASSUME InInv, NEW c \in Clients, worker[c].pc \in Taken
               PROVE  \/ client[c].pc = "repeatLength"
                      \/ worker[c].length = -1
                      \/ /\ worker[c].length = query[c].size
                         /\ IsPrefix(SubSeq(Content(c), 1, SafelySent(c)), worker[c].text)
    BY DEF RightText, Taken
  <2> QED BY DEF InInv, Arrives, Parsed
<1>2. Init => StreamInv /\ InInv  BY StreamInit, InInit
<1>3. IInv /\ StreamInv /\ [Next]_vars => StreamInv'  BY StreamStep
<1>4. IInv /\ StreamInv /\ InInv /\ [Next]_vars => InInv'  BY InStep
<1> QED BY <1>1, <1>2, <1>3, <1>4, Invariant, PTL DEF Spec
=============================================================================

--------------------------- MODULE ScalarsProofs ---------------------------
(***************************************************************************)
(* What the leaves of the codec do to every value, for every base and      *)
(* every limit: the steps between which Codec's recursion goes.            *)
(***************************************************************************)
EXTENDS Scalars, SequenceTheorems, TLAPS

(* A byte.                                                                 *)
Byte == 0..(Base - 1)

-----------------------------------------------------------------------------
(* Arithmetic.                                                             *)

(* There are at least two bytes.                                           *)
LEMMA ByteFacts == 0 \in Byte /\ 1 \in Byte
BY ScalarsAssumption DEF Byte

(* A byte is a number below Base.                                          *)
LEMMA BytesAreSmall == Base \in Nat /\ \A x \in Byte : x \in Nat /\ x < Base
BY ScalarsAssumption DEF Byte

(* Division by the base, and what it leaves.                               *)
LEMMA DivFacts ==
  ASSUME NEW n \in Nat
  PROVE  /\ n \div Base \in Nat /\ n % Base \in Byte
         /\ n = Base * (n \div Base) + (n % Base)
BY ScalarsAssumption, Z3 DEF Byte

(* A quotient is below what the dividend is below.                         *)
LEMMA DivBelow ==
  ASSUME NEW n \in Nat, NEW x \in Nat, n < Base * x
  PROVE  n \div Base < x
<1> DEFINE q == n \div Base
<1>1. q \in Nat /\ Base * q <= n
  BY DivFacts, ScalarsAssumption DEF Byte
<1> HIDE DEF q
<1>2. CASE q >= x
  <2>1. Base * q >= Base * x
    BY <1>1, <1>2, ScalarsAssumption
  <2> QED
    BY <1>1, <2>1, ScalarsAssumption
<1> QED
  BY <1>1, <1>2 DEF q

(* What is below a divisor is its own remainder.                           *)
LEMMA SmallMod ==
  ASSUME NEW n \in Nat, NEW c \in Nat, n < c
  PROVE  n % c = n
OBVIOUS

(* A number put together from a byte and the rest comes apart again.       *)
LEMMA Apart ==
  ASSUME NEW b \in Byte, NEW u \in Nat
  PROVE  /\ b + Base * u \in Nat /\ (b + Base * u) \div Base = u
         /\ (b + Base * u) % Base = b
<1> DEFINE n == b + Base * u
<1>1. n \in Nat
  BY ScalarsAssumption DEF Byte
<1> DEFINE q == n \div Base
           r == n % Base
<1>2. q \in Nat /\ r \in Byte /\ n = Base * q + r
  BY <1>1, DivFacts
<1> HIDE DEF q, r
<1>3. q = u
  <2>1. CASE q > u
    <3>1. Base * q >= Base * (u + 1)
      BY <1>2, <2>1, ScalarsAssumption
    <3> QED
      BY <1>2, <3>1, ScalarsAssumption DEF Byte
  <2>2. CASE q < u
    <3>1. Base * (q + 1) <= Base * u
      BY <1>2, <2>2, ScalarsAssumption
    <3> QED
      BY <1>2, <3>1, ScalarsAssumption DEF Byte
  <2> QED
    BY <1>2, <2>1, <2>2
<1>4. r = b
  BY <1>2, <1>3, ScalarsAssumption DEF Byte
<1> QED
  BY <1>1, <1>3, <1>4 DEF q, r

(* One more byte makes a number at most that much larger.                  *)
LEMMA OneMore ==
  ASSUME NEW b \in Byte, NEW u \in Nat, NEW x \in Nat, u < x
  PROVE  b + Base * u < Base * x
<1>1. Base * (u + 1) <= Base * x
  BY ScalarsAssumption
<1> QED
  BY <1>1, ScalarsAssumption DEF Byte

(* The capacities, byte by byte.                                           *)
LEMMA Capacities ==
  /\ Capacity(1) = Base /\ Capacity(2) = Base * Base
  /\ Capacity(4) = Base * (Base * (Base * Base))
  /\ Capacity(8) = Base * (Base * (Base * (Base * Capacity(4))))
  /\ \A w \in {1, 2, 4, 8} : Capacity(w) \in Nat /\ Capacity(w) >= Base
<1>1. Capacity(1) = Base /\ Capacity(2) = Base * Base
  BY DEF Capacity, Square
<1>2. Capacity(4) = (Base * Base) * (Base * Base)
  BY DEF Capacity, Square
<1>3. Capacity(8) = Capacity(4) * Capacity(4)
  BY <1>2 DEF Capacity, Square
<1>4. Capacity(4) = Base * (Base * (Base * Base))
  BY <1>2, ScalarsAssumption
<1>5. Base * Base \in Nat /\ Base * Base >= Base
  BY ScalarsAssumption
<1>6. Capacity(4) \in Nat /\ Capacity(4) >= Base
  <2> DEFINE s == Base * Base
  <2>1. s * s >= s /\ s * s \in Nat
    <3>1. s \in Nat /\ s >= 1
      BY <1>5, ScalarsAssumption
    <3> HIDE DEF s
    <3> QED
      BY <3>1
  <2> QED
    BY <1>2, <1>5, <2>1, ScalarsAssumption
<1>7. Capacity(8) \in Nat /\ Capacity(8) >= Base
  <2> DEFINE s == Capacity(4)
  <2>1. s * s >= s /\ s * s \in Nat
    <3>1. s \in Nat /\ s >= 1
      BY <1>6, ScalarsAssumption
    <3> HIDE DEF s
    <3> QED
      BY <3>1
  <2> QED
    BY <1>3, <1>6, <2>1, ScalarsAssumption
<1>8. Capacity(8) = Base * (Base * (Base * (Base * Capacity(4))))
  <2> DEFINE c == Capacity(4)
  <2>1. c \in Nat
    BY <1>6
  <2> HIDE DEF c
  <2>2. (Base * (Base * (Base * Base))) * c = Base * (Base * (Base * (Base * c)))
    BY <2>1, ScalarsAssumption
  <2> QED
    BY <1>3, <1>4, <2>2 DEF c
<1> QED
  BY <1>1, <1>4, <1>5, <1>6, <1>7, <1>8, ScalarsAssumption

-----------------------------------------------------------------------------
(* Integers.                                                               *)

Widths == {1, 2, 4, 8}

(* The eight numbers of Shifted, one from the other.                       *)
LEMMA ShiftFacts ==
  ASSUME NEW n \in Nat
  PROVE  /\ Shifted(n)[1] = n
         /\ \A i \in 1..8 : Shifted(n)[i] \in Nat
         /\ \A i \in 1..7 : Shifted(n)[i + 1] = Shifted(n)[i] \div Base
<1> DEFINE a == n \div Base   b == a \div Base   c == b \div Base   d == c \div Base
           e == d \div Base   f == e \div Base   g == f \div Base
<1>1. Shifted(n) = <<n, a, b, c, d, e, f, g>>
  BY DEF Shifted
<1>2. a \in Nat
  BY DivFacts
<1>3. b \in Nat
  BY <1>2, DivFacts
<1>4. c \in Nat
  BY <1>3, DivFacts
<1>5. d \in Nat
  BY <1>4, DivFacts
<1>6. e \in Nat
  BY <1>5, DivFacts
<1>7. f \in Nat
  BY <1>6, DivFacts
<1>8. g \in Nat
  BY <1>7, DivFacts
<1>9. /\ b = a \div Base /\ c = b \div Base /\ d = c \div Base /\ e = d \div Base
      /\ f = e \div Base /\ g = f \div Base /\ a = n \div Base
  OBVIOUS
<1> HIDE DEF a, b, c, d, e, f, g
<1>10. /\ Shifted(n)[1] = n /\ Shifted(n)[2] = a /\ Shifted(n)[3] = b /\ Shifted(n)[4] = c
       /\ Shifted(n)[5] = d /\ Shifted(n)[6] = e /\ Shifted(n)[7] = f /\ Shifted(n)[8] = g
  BY <1>1
<1>11. ASSUME NEW i \in 1..8 PROVE Shifted(n)[i] \in Nat
  BY <1>2, <1>3, <1>4, <1>5, <1>6, <1>7, <1>8, <1>10
<1>12. ASSUME NEW i \in 1..7 PROVE Shifted(n)[i + 1] = Shifted(n)[i] \div Base
  <2>1. \/ (i = 1 /\ i + 1 = 2) \/ (i = 2 /\ i + 1 = 3) \/ (i = 3 /\ i + 1 = 4)
        \/ (i = 4 /\ i + 1 = 5) \/ (i = 5 /\ i + 1 = 6) \/ (i = 6 /\ i + 1 = 7)
        \/ (i = 7 /\ i + 1 = 8)
    OBVIOUS
  <2> QED
    BY <1>9, <1>10, <2>1, Zenon
<1> QED
  BY <1>10, <1>11, <1>12

(* A number of w bytes has no byte beyond them.                            *)
LEMMA ShiftsOut ==
  ASSUME NEW w \in Widths, NEW n \in Nat, n < Capacity(w)
  PROVE  /\ \A i \in 1..8 : i > w => Shifted(n)[i] = 0
         /\ Shifted(n)[8] < Base
<1> DEFINE S(i) == Shifted(n)[i]
<1>0. /\ S(1) = n /\ \A i \in 1..8 : S(i) \in Nat
      /\ \A i \in 1..7 : S(i + 1) = S(i) \div Base
  BY ShiftFacts
<1> HIDE DEF S
<1>1. /\ S(1) \in Nat /\ S(2) \in Nat /\ S(3) \in Nat /\ S(4) \in Nat
      /\ S(5) \in Nat /\ S(6) \in Nat /\ S(7) \in Nat /\ S(8) \in Nat
      /\ S(2) = S(1) \div Base /\ S(3) = S(2) \div Base /\ S(4) = S(3) \div Base
      /\ S(5) = S(4) \div Base /\ S(6) = S(5) \div Base /\ S(7) = S(6) \div Base
      /\ S(8) = S(7) \div Base
  BY <1>0
<1>2. ASSUME NEW m \in Nat, m < Base PROVE m \div Base = 0
  <2>1. m < Base * 1
    BY <1>2, ScalarsAssumption
  <2>2. m \div Base \in Nat /\ m \div Base < 1
    BY <2>1, DivFacts, DivBelow
  <2> QED
    BY <2>2
<1>3. 0 < Base
  BY ScalarsAssumption
<1>4. 0 \div Base = 0
  BY <1>2, <1>3
<1>5. CASE w = 1
  <2>1. S(2) = 0
    BY <1>0, <1>1, <1>2, <1>5, Capacities
  <2>2. S(3) = 0 /\ S(4) = 0 /\ S(5) = 0 /\ S(6) = 0 /\ S(7) = 0 /\ S(8) = 0
    BY <1>1, <1>4, <2>1
  <2>3. \A i \in 1..8 : i > 1 => i \in {2, 3, 4, 5, 6, 7, 8}
    OBVIOUS
  <2> QED
    BY <1>3, <1>5, <2>1, <2>2, <2>3 DEF S
<1>6. CASE w = 2
  <2>1. S(2) < Base
    BY <1>0, <1>1, <1>6, Capacities, DivBelow, ScalarsAssumption
  <2>2. S(3) = 0
    BY <1>1, <1>2, <2>1
  <2>3. S(4) = 0 /\ S(5) = 0 /\ S(6) = 0 /\ S(7) = 0 /\ S(8) = 0
    BY <1>1, <1>4, <2>2
  <2>4. \A i \in 1..8 : i > 2 => i \in {3, 4, 5, 6, 7, 8}
    OBVIOUS
  <2> QED
    BY <1>3, <1>6, <2>2, <2>3, <2>4 DEF S
<1>7. CASE w = 4
  <2>1. S(2) < Base * (Base * Base)
    BY <1>0, <1>1, <1>7, Capacities, DivBelow, ScalarsAssumption
  <2>2. S(3) < Base * Base
    BY <1>1, <2>1, DivBelow, ScalarsAssumption
  <2>3. S(4) < Base
    BY <1>1, <2>2, DivBelow, ScalarsAssumption
  <2>4. S(5) = 0
    BY <1>1, <1>2, <2>3
  <2>5. S(6) = 0 /\ S(7) = 0 /\ S(8) = 0
    BY <1>1, <1>4, <2>4
  <2>6. \A i \in 1..8 : i > 4 => i \in {5, 6, 7, 8}
    OBVIOUS
  <2> QED
    BY <1>3, <1>7, <2>4, <2>5, <2>6 DEF S
<1>8. CASE w = 8
  <2> DEFINE c == Capacity(4)
  <2>0. c \in Nat /\ c = Base * (Base * (Base * Base))
    BY Capacities
  <2>1. S(1) < Base * (Base * (Base * (Base * c)))
    BY <1>0, <1>8, Capacities
  <2> HIDE DEF c
  <2>2. /\ Base * c \in Nat /\ Base * (Base * c) \in Nat
        /\ Base * (Base * (Base * c)) \in Nat /\ Base * Base \in Nat
        /\ Base * (Base * Base) \in Nat
    BY <2>0, ScalarsAssumption
  <2>3. S(2) < Base * (Base * (Base * c))
    BY <1>1, <2>1, <2>2, DivBelow
  <2>4. S(3) < Base * (Base * c)
    BY <1>1, <2>2, <2>3, DivBelow
  <2>5. S(4) < Base * c
    BY <1>1, <2>2, <2>4, DivBelow
  <2>6. S(5) < Base * (Base * (Base * Base))
    BY <1>1, <2>0, <2>5, DivBelow
  <2>7. S(6) < Base * (Base * Base)
    BY <1>1, <2>2, <2>6, DivBelow
  <2>8. S(7) < Base * Base
    BY <1>1, <2>2, <2>7, DivBelow
  <2>9. S(8) < Base
    BY <1>1, <2>8, DivBelow, ScalarsAssumption
  <2> QED
    BY <1>8, <2>9 DEF S
<1> QED
  BY <1>5, <1>6, <1>7, <1>8 DEF Widths

(* The digits of a number of w bytes, and zero beyond them.                *)
LEMMA DigitsAt ==
  ASSUME NEW w \in Widths, NEW n \in Nat, n < Capacity(w)
  PROVE  /\ Digits(n, w) \in [1..w -> Byte] /\ Len(Digits(n, w)) = w
         /\ \A i \in 1..8 : ByteAt(Digits(n, w), i) = Shifted(n)[i] % Base
<1>1. n % Capacity(w) = n
  BY Capacities, ScalarsAssumption DEF Widths
<1>2. Digits(n, w) = [i \in 1..w |-> Shifted(n)[i] % Base]
  BY <1>1 DEF Digits
<1>3. \A i \in 1..8 : Shifted(n)[i] % Base \in Byte
  BY ShiftFacts, DivFacts
<1>4. w \in Nat /\ 1..w \subseteq 1..8
  BY DEF Widths
<1>5. Digits(n, w) \in [1..w -> Byte]
  BY <1>2, <1>3, <1>4
<1>6. Len(Digits(n, w)) = w
  BY <1>2, <1>4
<1>7. \A i \in 1..8 : i > w => Shifted(n)[i] % Base = 0
  <2>1. 0 % Base = 0
    BY ScalarsAssumption
  <2> QED
    BY <2>1, ShiftsOut
<1> QED
  BY <1>2, <1>4, <1>5, <1>6, <1>7 DEF ByteAt

(* Reading back what was written, without a sign.                          *)
LEMMA UnsignedOfDigits ==
  ASSUME NEW w \in Widths, NEW n \in Nat, n < Capacity(w)
  PROVE  Unsigned(Digits(n, w)) = n
<1> DEFINE S(i) == Shifted(n)[i]
           B(i) == ByteAt(Digits(n, w), i)
<1>1. \A i \in 1..8 : B(i) = S(i) % Base /\ S(i) \in Nat
  BY DigitsAt, ShiftFacts
<1>2. ASSUME NEW i \in 1..7 PROVE S(i) = B(i) + Base * S(i + 1)
  <2>1. S(i) \in Nat /\ S(i + 1) = S(i) \div Base /\ B(i) = S(i) % Base
    BY <1>1, ShiftFacts
  <2>2. S(i) = Base * (S(i) \div Base) + (S(i) % Base)
    BY <2>1, DivFacts
  <2>3. S(i) \div Base \in Nat /\ S(i) % Base \in Byte
    BY <2>1, DivFacts
  <2> HIDE DEF S, B
  <2> QED
    BY <2>1, <2>2, <2>3, ScalarsAssumption DEF Byte
<1>3. B(8) = S(8)
  <2>1. S(8) < Base /\ S(8) \in Nat
    BY <1>1, ShiftsOut
  <2> QED
    BY <1>1, <2>1, ScalarsAssumption
<1>4. S(1) = n
  BY ShiftFacts
<1>5. Unsigned(Digits(n, w))
      = B(1) + Base * (B(2) + Base * (B(3) + Base * (B(4) + Base * (B(5)
          + Base * (B(6) + Base * (B(7) + Base * B(8)))))))
  BY DEF Unsigned
<1> HIDE DEF S, B
<1>6. /\ S(7) = B(7) + Base * S(8) /\ S(6) = B(6) + Base * S(7)
      /\ S(5) = B(5) + Base * S(6) /\ S(4) = B(4) + Base * S(5)
      /\ S(3) = B(3) + Base * S(4) /\ S(2) = B(2) + Base * S(3)
      /\ S(1) = B(1) + Base * S(2)
  BY <1>2
<1> QED
  BY <1>3, <1>4, <1>5, <1>6

(* The integer types, and what they hold.                                  *)
LEMMA WidthFacts ==
  /\ DOMAIN Width = {"bool", "u8", "i8", "u16", "i16", "u32", "i32", "u64", "i64"}
  /\ \A name \in DOMAIN Width : Width[name] \in Widths
  /\ Width["bool"] = 1
BY DEF Width, Widths

(* As many numbers as the bytes can tell apart, zero among them.           *)
LEMMA RangeFacts ==
  ASSUME NEW name \in DOMAIN Width
  PROVE  /\ Capacity(Width[name]) \in Nat /\ Capacity(Width[name]) > 1
         /\ Lowest(name) \in Int /\ Lowest(name) <= 0 /\ Highest(name) >= 0
         /\ Highest(name) = Lowest(name) + (Capacity(Width[name]) - 1)
         /\ (name \notin Signed => Lowest(name) = 0)
<1> DEFINE c == Capacity(Width[name])
<1>1. c \in Nat /\ c > 1
  BY WidthFacts, Capacities, ScalarsAssumption DEF Widths
<1>2. Highest(name) = Lowest(name) + (c - 1)
  BY DEF Highest
<1>3. Lowest(name) = IF name \in Signed THEN -(c \div 2) ELSE 0
  BY DEF Lowest
<1> HIDE DEF c
<1>4. c \div 2 \in Nat /\ c \div 2 <= c - 1
  BY <1>1
<1> QED
  BY <1>1, <1>2, <1>3, <1>4 DEF c

(* An integer that the codec accepts is read back as it was sent; one it   *)
(* cannot hold is refused by InRange and never cut (Number in schema.cc).  *)
THEOREM IntegersSurvive ==
  ASSUME NEW name \in DOMAIN Width, NEW n \in Int, InRange(name, n)
  PROVE  Native(name, Digits(n, Width[name])) = n
<1> DEFINE w == Width[name]
           c == Capacity(w)
           m == n % c
<1>1. /\ w \in Widths /\ c \in Nat /\ c > 1
      /\ Lowest(name) \in Int /\ Lowest(name) <= 0 /\ Highest(name) >= 0
      /\ Highest(name) = Lowest(name) + (c - 1)
      /\ (name \notin Signed => Lowest(name) = 0)
  BY WidthFacts, RangeFacts
<1>2. n >= Lowest(name) /\ n <= Highest(name)
  BY DEF InRange
<1>3. Native(name, Digits(n, w))
      = IF name \in Signed /\ Unsigned(Digits(n, w)) > Highest(name)
        THEN Unsigned(Digits(n, w)) - c ELSE Unsigned(Digits(n, w))
  BY DEF Native
<1>4. m \in Nat /\ m < c /\ m % c = m
  <2> HIDE DEF c
  <2> QED
    BY <1>1
<1>5. Digits(n, w) = Digits(m, w)
  BY <1>4 DEF Digits
<1>6. Unsigned(Digits(n, w)) = m
  BY <1>1, <1>4, <1>5, UnsignedOfDigits
<1> HIDE DEF w, c, m
<1>7. CASE n >= 0
  <2>1. m = n
    <3>1. n \in Nat /\ n < c
      BY <1>1, <1>2, <1>7
    <3> QED
      BY <1>1, <3>1 DEF m
  <2> QED
    BY <1>1, <1>2, <1>3, <1>6, <2>1 DEF w
<1>8. CASE n < 0
  <2>1. m = n + c
    <3> DEFINE q == n \div c
    <3>1. q \in Int /\ n = c * q + m
      BY <1>1 DEF m
    <3> HIDE DEF q
    <3>2. n > -c
      BY <1>1, <1>2
    <3>3. CASE q >= 0
      BY <1>1, <1>4, <1>8, <3>1, <3>3
    <3>4. CASE q <= -2
      <4>1. c * q <= c * (-2)
        BY <1>1, <3>1, <3>4
      <4> QED
        BY <1>1, <1>4, <3>1, <3>2, <4>1
    <3>5. CASE q = -1
      BY <1>1, <1>4, <3>1, <3>5
    <3> QED
      BY <3>1, <3>3, <3>4, <3>5
  <2>2. name \in Signed /\ m > Highest(name)
    BY <1>1, <1>2, <1>8, <2>1
  <2> QED
    BY <1>1, <1>3, <1>6, <2>1, <2>2 DEF w
<1> QED
  BY <1>7, <1>8

(* The bytes of an integer, read from the top: the numbers on the way are  *)
(* those that Shifted finds on the way back.                               *)
LEMMA DigitsOfUnsigned ==
  ASSUME NEW w \in Widths, NEW b \in [1..w -> Byte]
  PROVE  Unsigned(b) \in Nat /\ Unsigned(b) < Capacity(w) /\ Digits(Unsigned(b), w) = b
<1> DEFINE B(i) == ByteAt(b, i)
           U8 == B(8)
           U7 == B(7) + Base * U8
           U6 == B(6) + Base * U7
           U5 == B(5) + Base * U6
           U4 == B(4) + Base * U5
           U3 == B(3) + Base * U4
           U2 == B(2) + Base * U3
           U1 == B(1) + Base * U2
<1>1. Unsigned(b) = U1
  BY DEF Unsigned
<1>2. w \in Nat /\ 1..w \subseteq 1..8 /\ b \in Seq(Byte) /\ Len(b) = w
  BY DEF Widths
<1>3. /\ \A i \in 1..8 : B(i) \in Byte
      /\ \A i \in 1..w : B(i) = b[i]
      /\ \A i \in 1..8 : i > w => B(i) = 0
  <2>1. 0 \in Byte
    BY ScalarsAssumption DEF Byte
  <2> QED
    BY <1>2, <2>1 DEF ByteAt
<1> HIDE DEF B
<1>4. /\ B(1) \in Byte /\ B(2) \in Byte /\ B(3) \in Byte /\ B(4) \in Byte
      /\ B(5) \in Byte /\ B(6) \in Byte /\ B(7) \in Byte /\ B(8) \in Byte
  BY <1>3
<1>5. /\ U8 \in Nat /\ U8 < Base /\ U8 % Base = B(8)
  <2>1. B(8) % Base = B(8)
    <3>1. B(8) \in Nat /\ B(8) < Base /\ Base \in Nat
      BY <1>4, BytesAreSmall
    <3> QED
      BY <3>1, SmallMod
  <2> QED
    BY <1>4, <2>1, BytesAreSmall
<1>6. U7 \in Nat /\ U7 \div Base = U8 /\ U7 % Base = B(7)
  BY <1>4, <1>5, Apart
<1>7. U6 \in Nat /\ U6 \div Base = U7 /\ U6 % Base = B(6)
  BY <1>4, <1>6, Apart
<1>8. U5 \in Nat /\ U5 \div Base = U6 /\ U5 % Base = B(5)
  BY <1>4, <1>7, Apart
<1>9. U4 \in Nat /\ U4 \div Base = U5 /\ U4 % Base = B(4)
  BY <1>4, <1>8, Apart
<1>10. U3 \in Nat /\ U3 \div Base = U4 /\ U3 % Base = B(3)
  BY <1>4, <1>9, Apart
<1>11. U2 \in Nat /\ U2 \div Base = U3 /\ U2 % Base = B(2)
  BY <1>4, <1>10, Apart
<1>12. U1 \in Nat /\ U1 \div Base = U2 /\ U1 % Base = B(1)
  BY <1>4, <1>11, Apart
<1>13. /\ U7 = B(7) + Base * U8 /\ U6 = B(6) + Base * U7 /\ U5 = B(5) + Base * U6
       /\ U4 = B(4) + Base * U5 /\ U3 = B(3) + Base * U4 /\ U2 = B(2) + Base * U3
       /\ U1 = B(1) + Base * U2 /\ U8 = B(8)
  OBVIOUS
<1> HIDE DEF U1, U2, U3, U4, U5, U6, U7, U8
<1>14. Shifted(U1) = <<U1, U2, U3, U4, U5, U6, U7, U8>>
  BY <1>6, <1>7, <1>8, <1>9, <1>10, <1>11, <1>12 DEF Shifted
<1>15. U1 < Capacity(w)
  <2>0. /\ Base \in Nat /\ Base * Base \in Nat /\ Base * (Base * Base) \in Nat
        /\ Base * 0 = 0
    BY ScalarsAssumption
  <2>1. CASE w = 1
    <3>1. /\ B(2) = 0 /\ B(3) = 0 /\ B(4) = 0 /\ B(5) = 0 /\ B(6) = 0 /\ B(7) = 0 /\ B(8) = 0
      BY <1>3, <2>1
    <3>2. U2 = 0
      BY <1>13, <2>0, <3>1
    <3>3. U1 = B(1)
      BY <1>4, <1>13, <2>0, <3>2 DEF Byte
    <3> QED
      BY <1>4, <2>1, <3>3, Capacities, ScalarsAssumption DEF Byte
  <2>2. CASE w = 2
    <3>1. B(3) = 0 /\ B(4) = 0 /\ B(5) = 0 /\ B(6) = 0 /\ B(7) = 0 /\ B(8) = 0
      BY <1>3, <2>2
    <3>2. U3 = 0
      BY <1>13, <2>0, <3>1
    <3>3. U2 = B(2)
      BY <1>4, <1>13, <2>0, <3>2 DEF Byte
    <3>4. U2 \in Nat /\ U2 < Base
      BY <1>4, <3>3, BytesAreSmall
    <3> QED
      BY <1>4, <1>13, <2>0, <2>2, <3>4, OneMore, Capacities
  <2>3. CASE w = 4
    <3>1. B(5) = 0 /\ B(6) = 0 /\ B(7) = 0 /\ B(8) = 0
      BY <1>3, <2>3
    <3>2. U5 = 0
      BY <1>13, <2>0, <3>1
    <3>3. U4 = B(4)
      BY <1>4, <1>13, <2>0, <3>2 DEF Byte
    <3>4. U4 \in Nat /\ U4 < Base
      BY <1>4, <3>3, BytesAreSmall
    <3>5. U3 < Base * Base
      BY <1>4, <1>13, <2>0, <3>4, OneMore
    <3>6. U2 < Base * (Base * Base)
      BY <1>4, <1>10, <1>13, <2>0, <3>5, OneMore
    <3>7. U1 < Base * (Base * (Base * Base))
      BY <1>4, <1>11, <1>13, <2>0, <3>6, OneMore
    <3> QED
      BY <2>3, <3>7, Capacities
  <2>4. CASE w = 8
    <3> DEFINE c == Capacity(4)
    <3>0. c \in Nat /\ c = Base * (Base * (Base * Base))
      BY Capacities
    <3> HIDE DEF c
    <3>1. /\ Base * c \in Nat /\ Base * (Base * c) \in Nat /\ Base * (Base * (Base * c)) \in Nat
      BY <2>0, <3>0
    <3>2. U7 < Base * Base
      BY <1>4, <1>5, <1>13, <2>0, OneMore
    <3>3. U6 < Base * (Base * Base)
      BY <1>4, <1>6, <1>13, <2>0, <3>2, OneMore
    <3>4. U5 < c
      BY <1>4, <1>7, <1>13, <2>0, <3>0, <3>3, OneMore
    <3>5. U4 < Base * c
      BY <1>4, <1>8, <1>13, <3>0, <3>4, OneMore
    <3>6. U3 < Base * (Base * c)
      BY <1>4, <1>9, <1>13, <3>1, <3>5, OneMore
    <3>7. U2 < Base * (Base * (Base * c))
      BY <1>4, <1>10, <1>13, <3>1, <3>6, OneMore
    <3>8. U1 < Base * (Base * (Base * (Base * c)))
      BY <1>4, <1>11, <1>13, <3>1, <3>7, OneMore
    <3> QED
      BY <2>4, <3>8, Capacities DEF c
  <2> QED
    BY <2>1, <2>2, <2>3, <2>4 DEF Widths
<1>16. Digits(U1, w) = [i \in 1..w |-> Shifted(U1)[i] % Base]
  <2>1. U1 % Capacity(w) = U1
    BY <1>12, <1>15, Capacities, SmallMod DEF Widths
  <2> QED
    BY <2>1 DEF Digits
<1>17. \A i \in 1..8 : Shifted(U1)[i] % Base = B(i)
  <2>1. /\ Shifted(U1)[1] = U1 /\ Shifted(U1)[2] = U2 /\ Shifted(U1)[3] = U3
        /\ Shifted(U1)[4] = U4 /\ Shifted(U1)[5] = U5 /\ Shifted(U1)[6] = U6
        /\ Shifted(U1)[7] = U7 /\ Shifted(U1)[8] = U8
    BY <1>14
  <2>2. \A i \in 1..8 : i \in {1, 2, 3, 4, 5, 6, 7, 8}
    OBVIOUS
  <2> QED
    BY <1>5, <1>6, <1>7, <1>8, <1>9, <1>10, <1>11, <1>12, <2>1, <2>2
<1>18. \A i \in 1..w : Shifted(U1)[i] % Base = b[i]
  BY <1>2, <1>3, <1>17
<1>19. Digits(U1, w) = b
  BY <1>16, <1>18
<1> QED
  BY <1>1, <1>12, <1>15, <1>19

(* Whatever bytes VPP puts where a layout has an integer, the client is    *)
(* shown a number of that type, and exactly the one the bytes stand for:   *)
(* sent back, it is the same bytes.                                        *)
THEOREM BytesAreNumbers ==
  ASSUME NEW name \in DOMAIN Width, NEW b \in [1..Width[name] -> Byte]
  PROVE  /\ Native(name, b) \in Int /\ InRange(name, Native(name, b))
         /\ Digits(Native(name, b), Width[name]) = b
<1> DEFINE w == Width[name]
           c == Capacity(w)
           u == Unsigned(b)
           n == Native(name, b)
<1>1. /\ w \in Widths /\ c \in Nat /\ c > 1
      /\ Lowest(name) \in Int /\ Lowest(name) <= 0 /\ Highest(name) >= 0
      /\ Highest(name) = Lowest(name) + (c - 1)
      /\ (name \notin Signed => Lowest(name) = 0)
  BY WidthFacts, RangeFacts
<1>2. u \in Nat /\ u < c /\ Digits(u, w) = b
  BY <1>1, DigitsOfUnsigned
<1>3. n = IF name \in Signed /\ u > Highest(name) THEN u - c ELSE u
  BY DEF Native
<1>4. n \in Int /\ n % c = u % c
  <2>1. (u - c) % c = u
    <3> HIDE DEF c, u
    <3> DEFINE q == (u - c) \div c
               r == (u - c) % c
    <3>1. q \in Int /\ r \in Nat /\ r < c /\ u - c = c * q + r
      BY <1>1, <1>2
    <3> HIDE DEF q, r
    <3>2. CASE q >= 0
      BY <1>1, <1>2, <3>1, <3>2
    <3>3. CASE q <= -2
      <4>1. c * q <= c * (-2)
        BY <1>1, <3>1, <3>3
      <4> QED
        BY <1>1, <1>2, <3>1, <4>1
    <3>4. CASE q = -1
      BY <1>1, <1>2, <3>1, <3>4 DEF r
    <3> QED
      BY <3>1, <3>2, <3>3, <3>4
  <2>2. u % c = u
    BY <1>1, <1>2, SmallMod
  <2> HIDE DEF c, u, n
  <2> QED
    BY <1>1, <1>2, <1>3, <2>1, <2>2
<1>5. Digits(n, w) = Digits(u, w)
  BY <1>4 DEF Digits
<1>6. n >= Lowest(name) /\ n <= Highest(name)
  <2> HIDE DEF c, u, n
  <2> QED
    BY <1>1, <1>2, <1>3
<1> QED
  BY <1>2, <1>4, <1>5, <1>6 DEF InRange

-----------------------------------------------------------------------------
(* The leaves.                                                             *)

(* What JSON can be where a leaf is expected.                              *)
WellFormed(name, j) ==
  /\ j = [is |-> j.is, data |-> j.data]
  /\ j.is = "number" => j.data \in Int
  /\ j.is = "boolean" => j.data \in BOOLEAN
  /\ j.is = "string" /\ name \in Long => j.data \in Int
  /\ j.is = "string" /\ name \notin Long \cup {"vl_api_interface_index_t"} =>
       j.data \in Seq(Byte)

(* VPP numbers its interfaces apart, and none is the one that means all.   *)
Indexed(names) ==
  /\ \A x \in DOMAIN names : names[x] \in Nat /\ names[x] < AllOnes
  /\ \A x, y \in DOMAIN names : names[x] = names[y] => x = y

(* What was appended is in front of what follows, and comes off again.     *)
LEMMA TakeBack ==
  ASSUME NEW b \in Seq(Byte), NEW rest \in Seq(Byte), NEW n, n = Len(b)
  PROVE  Take(b \o rest, n) = Got(b, rest)
<1>1. b \o rest \in Seq(Byte) /\ Len(b \o rest) = Len(b) + Len(rest)
  BY ConcatProperties
<1>2. Len(b) \in Nat /\ Len(rest) \in Nat
  BY LenProperties
<1>3. SubSeq(b \o rest, 1, Len(b)) = b
  BY <1>1, <1>2, SeqEqual, ConcatProperties
<1>4. SubSeq(b \o rest, Len(b) + 1, Len(b) + Len(rest)) = rest
  BY <1>1, <1>2, SeqEqual, ConcatProperties
<1>5. ~(Len(b \o rest) < n)
  BY <1>1, <1>2
<1>6. Take(b \o rest, n) = Got(SubSeq(b \o rest, 1, n), SubSeq(b \o rest, n + 1, Len(b \o rest)))
  BY <1>5, Zenon DEF Take
<1> QED
  BY <1>1, <1>3, <1>4, <1>6

(* Only what fits is appended.                                             *)
LEMMA ExtendedFacts ==
  ASSUME NEW out \in Seq(Byte), NEW b \in Seq(Byte), NEW done, done = Extended(out, b),
         done.err = "ok"
  PROVE  Extended(out, b) = Put(out \o b) /\ Len(out) + Len(b) <= PayloadLimit
<1>1. Fail("payload_too_large").err # "ok"
  BY DEF Fail
<1>2. Len(out) \in Nat /\ Len(b) \in Nat
  BY LenProperties
<1>3. CASE Len(out) + Len(b) > PayloadLimit
  BY <1>1, <1>3, Zenon DEF Extended
<1>4. CASE ~(Len(out) + Len(b) > PayloadLimit)
  <2>1. Extended(out, b) = Put(out \o b)
    BY <1>4, Zenon DEF Extended
  <2>2. PayloadLimit \in Nat
    BY ScalarsAssumption
  <2>3. Len(out) + Len(b) <= PayloadLimit
    BY <1>2, <1>4, <2>2
  <2> QED
    BY <2>1, <2>3, Zenon
<1> QED
  BY <1>3, <1>4

(* A sequence of one byte.                                                 *)
LEMMA OneByteSeq ==
  ASSUME NEW x \in Byte
  PROVE  <<x>> \in Seq(Byte) /\ Len(<<x>>) = 1 /\ <<x>>[1] = x
OBVIOUS

(* Failures are not successes.                                             *)
LEMMA FailFacts ==
  \A c \in {"invalid_params", "resource_not_found", "payload_too_large", "invalid_reply"} :
    Fail(c).err # "ok"
BY DEF Fail

(* The bytes of a number, as a sequence.                                   *)
LEMMA DigitsSeq ==
  ASSUME NEW w \in Widths, NEW n \in Int
  PROVE  Digits(n, w) \in Seq(Byte) /\ Len(Digits(n, w)) = w
<1>1. n % Capacity(w) \in Nat /\ n % Capacity(w) < Capacity(w)
      /\ (n % Capacity(w)) % Capacity(w) = n % Capacity(w)
  <2> DEFINE c == Capacity(w)
  <2>1. c \in Nat /\ c > 1
    BY Capacities, ScalarsAssumption DEF Widths
  <2> HIDE DEF c
  <2>2. n % c \in Nat /\ n % c < c
    BY <2>1
  <2> QED
    BY <2>1, <2>2, SmallMod DEF c
<1>2. Digits(n, w) = Digits(n % Capacity(w), w)
  BY <1>1 DEF Digits
<1>3. Digits(n, w) \in [1..w -> Byte] /\ Len(Digits(n, w)) = w
  BY <1>1, <1>2, DigitsAt
<1>4. w \in Nat
  BY DEF Widths
<1> QED
  BY <1>3, <1>4

(* A length, or an interface, is read back as it was written.              *)
LEMMA WordsSurvive ==
  ASSUME NEW n \in Nat, n < Capacity(4)
  PROVE  Digits(n, 4) \in Seq(Byte) /\ Len(Digits(n, 4)) = 4 /\ Unsigned(Digits(n, 4)) = n
<1>1. PICK w \in Widths : w = 4
  BY DEF Widths
<1>2. n < Capacity(w) /\ n \in Int
  BY <1>1
<1>3. Digits(n, w) \in Seq(Byte) /\ Len(Digits(n, w)) = w
  BY <1>2, DigitsSeq
<1>4. Unsigned(Digits(n, w)) = n
  BY <1>2, UnsignedOfDigits
<1> QED
  BY <1>1, <1>3, <1>4, Zenon

(* A value is appended to what was written so far and nothing else is      *)
(* changed; it fits the limit; and it is read back as it was sent, leaving *)
(* what follows it: the two halves of Convert agree at every leaf.         *)
Survives(names, name, j, out) ==
  \E b \in Seq(Byte) :
    /\ EncLeaf(names, name, j, out) = Put(out \o b) /\ Len(out) + Len(b) <= PayloadLimit
    /\ \A rest \in Seq(Byte) : DecLeaf(names, name, b \o rest) = Got(j, rest)

(* Each kind of leaf, when it is accepted.                                 *)
LEMMA BooleansSurvive ==
  ASSUME NEW names, NEW j, WellFormed("bool", j), NEW out \in Seq(Byte),
         NEW done, done = EncLeaf(names, "bool", j, out), done.err = "ok"
  PROVE  Survives(names, "bool", j, out)
<1> DEFINE b == <<IF j.data THEN 1 ELSE 0>>
<1>1. EncLeaf(names, "bool", j, out)
      = IF j.is # "boolean" THEN Fail("invalid_params") ELSE Extended(out, b)
  BY DEF EncLeaf
<1>2. j.is = "boolean" /\ j.data \in BOOLEAN /\ j = Bool(j.data)
  BY <1>1, FailFacts DEF WellFormed, Bool
<1>3. b \in Seq(Byte) /\ Len(b) = 1 /\ b[1] = (IF j.data THEN 1 ELSE 0)
  <2>1. (IF j.data THEN 1 ELSE 0) \in Byte
    BY ByteFacts
  <2> QED
    BY <2>1, OneByteSeq
<1> HIDE DEF b
<1>4. Bool(b[1] = 1) = j /\ ~(b[1] > 1)
  <2>1. CASE j.data = TRUE
    <3>1. b[1] = 1 /\ ~(b[1] > 1)
      BY <1>3, <2>1
    <3>2. (b[1] = 1) = TRUE
      BY <3>1
    <3>3. j = Bool(TRUE)
      BY <1>2, <2>1, Zenon
    <3> QED
      BY <3>1, <3>2, <3>3
  <2>2. CASE j.data = FALSE
    <3>1. b[1] # 1 /\ ~(b[1] > 1)
      BY <1>3, <2>2
    <3>2. (b[1] = 1) = FALSE
      BY <3>1, Zenon
    <3>3. j = Bool(FALSE)
      BY <1>2, <2>2, Zenon
    <3> QED
      BY <3>1, <3>2, <3>3
  <2> QED
    BY <1>2, <2>1, <2>2
<1>5. EncLeaf(names, "bool", j, out) = Put(out \o b) /\ Len(out) + Len(b) <= PayloadLimit
  BY <1>1, <1>2, <1>3, ExtendedFacts
<1>6. ASSUME NEW rest \in Seq(Byte) PROVE DecLeaf(names, "bool", b \o rest) = Got(j, rest)
  <2>1. DecLeaf(names, "bool", b \o rest) = DecScalar(names, "bool", Take(b \o rest, 1))
    BY DEF DecLeaf, AddressBytes, Width
  <2>2. Take(b \o rest, 1) = Got(b, rest)
    BY <1>3, TakeBack
  <2> DEFINE part == Got(b, rest)
  <2>3. part.err = "ok" /\ part.val = b /\ part.bytes = rest
    BY DEF Got
  <2> HIDE DEF part
  <2>4. DecScalar(names, "bool", part) = Got(Bool(b[1] = 1), rest)
    <3>1. ~(part.err # "ok") /\ ~(part.val[1] > 1)
      BY <1>4, <2>3, Zenon
    <3>2. DecScalar(names, "bool", part) = DecBool(part)
      BY <2>3 DEF DecScalar, AddressBytes
    <3>3. DecBool(part) = Got(Bool(part.val[1] = 1), part.bytes)
      BY <3>1, Zenon DEF DecBool
    <3> QED
      BY <2>3, <3>2, <3>3, Zenon
  <2> QED
    BY <1>4, <2>1, <2>2, <2>4, Zenon DEF part
<1> QED
  BY <1>3, <1>5, <1>6 DEF Survives

(* Integers, also those that travel as text.                               *)
LEMMA NumbersSurvive ==
  ASSUME NEW names, NEW name \in DOMAIN Width \ {"bool"}, NEW j, WellFormed(name, j),
         NEW out \in Seq(Byte), NEW done, done = EncLeaf(names, name, j, out), done.err = "ok"
  PROVE  Survives(names, name, j, out)
<1> DEFINE b == Digits(j.data, Width[name])
<1>1. EncLeaf(names, name, j, out)
      = IF ~IsNumber(name, j) THEN Fail("invalid_params") ELSE Extended(out, b)
  BY WidthFacts DEF EncLeaf
<1>2. IsNumber(name, j)
  BY <1>1, FailFacts
<1>3. j.data \in Int /\ InRange(name, j.data) /\ j = Number(name, j.data)
  <2>1. CASE name \in Long
    BY <1>2, <2>1 DEF IsNumber, WellFormed, Number, Str
  <2>2. CASE name \notin Long
    BY <1>2, <2>2 DEF IsNumber, WellFormed, Number, Num
  <2> QED
    BY <2>1, <2>2
<1>4. Width[name] \in Widths /\ name \in DOMAIN Width
  BY WidthFacts
<1>5. b \in Seq(Byte) /\ Len(b) = Width[name] /\ Native(name, b) = j.data
  BY <1>3, <1>4, DigitsSeq, IntegersSurvive
<1> HIDE DEF b
<1>6. EncLeaf(names, name, j, out) = Put(out \o b) /\ Len(out) + Len(b) <= PayloadLimit
  BY <1>1, <1>2, <1>5, ExtendedFacts
<1>7. ASSUME NEW rest \in Seq(Byte) PROVE DecLeaf(names, name, b \o rest) = Got(j, rest)
  <2>1. DecLeaf(names, name, b \o rest) = DecScalar(names, name, Take(b \o rest, Width[name]))
    BY DEF DecLeaf, AddressBytes, Width
  <2>2. Take(b \o rest, Width[name]) = Got(b, rest)
    BY <1>5, TakeBack
  <2> DEFINE part == Got(b, rest)
  <2>3. part.err = "ok" /\ part.val = b /\ part.bytes = rest
    BY DEF Got
  <2> HIDE DEF part
  <2>4. DecScalar(names, name, part) = Got(Number(name, Native(name, part.val)), part.bytes)
    BY <2>3 DEF DecScalar, AddressBytes, Width
  <2> QED
    BY <1>3, <1>5, <2>1, <2>2, <2>3, <2>4, Zenon DEF part
<1> QED
  BY <1>5, <1>6, <1>7 DEF Survives

(* Addresses, which are as long as their type.                             *)
LEMMA AddressesSurvive ==
  ASSUME NEW names, NEW name \in DOMAIN AddressBytes, NEW j, WellFormed(name, j),
         NEW out \in Seq(Byte), NEW done, done = EncLeaf(names, name, j, out), done.err = "ok"
  PROVE  Survives(names, name, j, out)
<1> DEFINE b == j.data
<1>1. EncLeaf(names, name, j, out)
      = IF j.is # "string" \/ Len(j.data) # AddressBytes[name]
        THEN Fail("invalid_params") ELSE Extended(out, b)
  BY DEF EncLeaf, AddressBytes, Width
<1>2. j.is = "string" /\ Len(b) = AddressBytes[name]
  BY <1>1, FailFacts
<1>3. b \in Seq(Byte) /\ j = Str(b)
  BY <1>2 DEF WellFormed, Str, AddressBytes, Long
<1> HIDE DEF b
<1>4. EncLeaf(names, name, j, out) = Put(out \o b) /\ Len(out) + Len(b) <= PayloadLimit
  BY <1>1, <1>2, <1>3, ExtendedFacts DEF b
<1>5. ASSUME NEW rest \in Seq(Byte) PROVE DecLeaf(names, name, b \o rest) = Got(j, rest)
  <2>1. DecLeaf(names, name, b \o rest)
        = DecScalar(names, name, Take(b \o rest, AddressBytes[name]))
    BY DEF DecLeaf, AddressBytes
  <2>2. Take(b \o rest, AddressBytes[name]) = Got(b, rest)
    BY <1>2, <1>3, TakeBack
  <2> DEFINE part == Got(b, rest)
  <2>3. part.err = "ok" /\ part.val = b /\ part.bytes = rest
    BY DEF Got
  <2> HIDE DEF part
  <2>4. DecScalar(names, name, part) = Got(Str(part.val), part.bytes)
    BY <2>3 DEF DecScalar, AddressBytes
  <2> QED
    BY <1>3, <2>1, <2>2, <2>3, <2>4, Zenon DEF part
<1> QED
  BY <1>3, <1>4, <1>5 DEF Survives

(* Interfaces, which travel by name.                                       *)
LEMMA InterfacesSurvive ==
  ASSUME NEW names, Indexed(names), NEW j, WellFormed("vl_api_interface_index_t", j),
         NEW out \in Seq(Byte), NEW done,
         done = EncLeaf(names, "vl_api_interface_index_t", j, out), done.err = "ok"
  PROVE  Survives(names, "vl_api_interface_index_t", j, out)
<1> DEFINE name == "vl_api_interface_index_t"
<1>1. EncLeaf(names, name, j, out) = EncInterface(names, j, out)
  BY WidthFacts DEF EncLeaf
<1>2. AllOnes \in Nat /\ AllOnes < Capacity(4) /\ Capacity(4) \in Nat
  <2>1. PICK c : c = Capacity(4)
    OBVIOUS
  <2>2. c \in Nat /\ c >= Base /\ AllOnes = c - 1
    BY <2>1, Capacities DEF AllOnes
  <2>3. AllOnes \in Nat /\ AllOnes < c
    BY <2>2, ScalarsAssumption
  <2> QED
    BY <2>1, <2>2, <2>3
<1>3. j.is = "string" /\ (j.data = "@all" \/ j.data \in DOMAIN names)
  BY <1>1, FailFacts DEF EncInterface
<1>4. j = Str(j.data)
  BY <1>3 DEF WellFormed, Str
<1>5. PICK index : /\ index = IF j.data = "@all" THEN AllOnes ELSE names[j.data]
                   /\ EncInterface(names, j, out) = Extended(out, Digits(index, 4))
  <2>1. CASE j.data = "@all"
    BY <1>3, <2>1, Zenon DEF EncInterface
  <2>2. CASE j.data # "@all"
    BY <1>3, <2>2, Zenon DEF EncInterface
  <2> QED
    BY <2>1, <2>2
<1>6. index \in Nat /\ index < Capacity(4)
  <2>1. CASE j.data = "@all"
    BY <1>2, <1>5, <2>1
  <2>2. CASE j.data # "@all"
    <3>1. index \in Nat /\ index < AllOnes
      BY <1>3, <1>5, <2>2 DEF Indexed
    <3> QED
      BY <1>2, <3>1
  <2> QED
    BY <2>1, <2>2
<1> DEFINE b == Digits(index, 4)
<1>7. b \in Seq(Byte) /\ Len(b) = 4 /\ Unsigned(b) = index
  BY <1>6, WordsSurvive
<1>8. EncInterface(names, j, out) = Extended(out, b)
  BY <1>5
<1> HIDE DEF b
<1>9. EncLeaf(names, name, j, out) = Put(out \o b) /\ Len(out) + Len(b) <= PayloadLimit
  BY <1>1, <1>7, <1>8, ExtendedFacts
<1>10. ASSUME NEW rest \in Seq(Byte) PROVE DecLeaf(names, name, b \o rest) = Got(j, rest)
  <2>1. DecLeaf(names, name, b \o rest) = DecScalar(names, name, Take(b \o rest, 4))
    BY DEF DecLeaf, AddressBytes
  <2>2. Take(b \o rest, 4) = Got(b, rest)
    BY <1>7, TakeBack
  <2> DEFINE part == Got(b, rest)
  <2>3. part.err = "ok" /\ part.val = b /\ part.bytes = rest
    BY DEF Got
  <2> HIDE DEF part
  <2>4. DecScalar(names, name, part) = DecInterface(names, part)
    BY <2>3 DEF DecScalar, AddressBytes
  <2>5. DecInterface(names, part) = Got(Str(j.data), rest)
    <3> DEFINE named == {i \in DOMAIN names : names[i] = index}
    <3>1. Unsigned(part.val) = index
      BY <1>7, <2>3
    <3>2. CASE j.data = "@all"
      <4>1. index = AllOnes
        BY <1>5, <3>2
      <4> QED
        BY <2>3, <3>1, <3>2, <4>1 DEF DecInterface
    <3>3. CASE j.data # "@all"
      <4>1. index = names[j.data] /\ j.data \in DOMAIN names
        BY <1>3, <1>5, <3>3
      <4>2. index # AllOnes
        <5>1. index \in Nat /\ index < AllOnes
          BY <4>1 DEF Indexed
        <5> QED
          BY <1>2, <5>1
      <4>3. named = {j.data}
        BY <4>1 DEF Indexed
      <4>4. DecInterface(names, part) = Got(Str(CHOOSE i \in named : TRUE), part.bytes)
        BY <3>1, <4>2, <4>3 DEF DecInterface
      <4>5. (CHOOSE i \in named : TRUE) = j.data
        BY <4>3
      <4> QED
        BY <2>3, <4>4, <4>5, Zenon
    <3> QED
      BY <3>2, <3>3
  <2> QED
    BY <1>4, <2>1, <2>2, <2>4, <2>5, Zenon DEF part
<1> QED
  BY <1>7, <1>9, <1>10 DEF Survives

(* Appending is associative.                                               *)
LEMMA Appending ==
  ASSUME NEW x \in Seq(Byte), NEW y \in Seq(Byte), NEW z \in Seq(Byte)
  PROVE  /\ (x \o y) \o z = x \o (y \o z) /\ y \o z \in Seq(Byte) /\ x \o y \in Seq(Byte)
         /\ Len(x \o y) = Len(x) + Len(y) /\ Len(y \o z) = Len(y) + Len(z)
         /\ Len(x) \in Nat /\ Len(y) \in Nat /\ Len(z) \in Nat
<1>1. /\ y \o z \in Seq(Byte) /\ x \o y \in Seq(Byte)
      /\ Len(x \o y) = Len(x) + Len(y) /\ Len(y \o z) = Len(y) + Len(z)
      /\ Len(x) \in Nat /\ Len(y) \in Nat /\ Len(z) \in Nat
  BY ConcatProperties, LenProperties
<1>2. (x \o y) \o z = x \o (y \o z)
  BY ConcatAssociative
<1> QED
  BY <1>1, <1>2

(* Strings, after their length.                                            *)
LEMMA StringsSurvive ==
  ASSUME NEW names, NEW j, WellFormed("string", j), NEW out \in Seq(Byte),
         NEW done, done = EncLeaf(names, "string", j, out), done.err = "ok"
  PROVE  Survives(names, "string", j, out)
<1> DEFINE text == j.data
           head == Digits(Len(j.data), 4)
           size == Extended(out, head)
           b == head \o text
<1>1. EncLeaf(names, "string", j, out) = EncString(j, out)
  BY WidthFacts DEF EncLeaf
<1>2. j.is = "string"
  BY <1>1, FailFacts DEF EncString
<1>3. text \in Seq(Byte) /\ j = Str(text) /\ Len(text) \in Nat
  <2>1. text \in Seq(Byte) /\ j = Str(text)
    BY <1>2 DEF WellFormed, Str, Long
  <2> QED
    BY <2>1, LenProperties
<1>4. head \in Seq(Byte)
  <2>1. PICK w \in Widths : w = 4
    BY DEF Widths
  <2>2. Digits(Len(text), w) \in Seq(Byte)
    BY <1>3, DigitsSeq
  <2> QED
    BY <2>1, <2>2
<1>5. EncString(j, out) = IF size.err # "ok" THEN size ELSE Extended(size.bytes, text)
  BY <1>2 DEF EncString
<1>6. size.err = "ok"
  BY <1>1, <1>5
<1> HIDE DEF head, text, size
<1>7. size = Put(out \o head)
  BY <1>4, <1>6, ExtendedFacts DEF size
<1>8. size.bytes = out \o head /\ out \o head \in Seq(Byte)
  <2>1. size.bytes = out \o head
    BY <1>7 DEF Put
  <2> QED
    BY <1>3, <1>4, <2>1, Appending
<1>9. EncString(j, out) = Extended(out \o head, text)
  BY <1>5, <1>6, <1>8, Zenon
<1>10. /\ Extended(out \o head, text) = Put((out \o head) \o text)
       /\ Len(out \o head) + Len(text) <= PayloadLimit
  BY <1>1, <1>3, <1>8, <1>9, ExtendedFacts
<1>11. /\ b \in Seq(Byte) /\ (out \o head) \o text = out \o b /\ Len(b) = Len(head) + Len(text)
       /\ Len(out \o head) = Len(out) + Len(head) /\ Len(out) \in Nat /\ Len(head) \in Nat
  BY <1>3, <1>4, Appending
<1>12. EncLeaf(names, "string", j, out) = Put(out \o b)
  BY <1>1, <1>9, <1>10, <1>11, Zenon
<1>13. Len(out) + Len(b) <= PayloadLimit /\ Len(text) <= PayloadLimit
  BY <1>3, <1>10, <1>11, ScalarsAssumption
<1>14. /\ Len(head) = 4 /\ Unsigned(head) = Len(text)
  <2>1. Len(text) < Capacity(4)
    <3>1. PICK c : c = Capacity(4)
      OBVIOUS
    <3>2. c \in Nat /\ PayloadLimit \in Nat /\ PayloadLimit < c
      BY <3>1, Capacities, ScalarsAssumption
    <3>3. Len(text) < c
      BY <1>3, <1>13, <3>2
    <3> QED
      BY <3>1, <3>3
  <2> QED
    BY <1>3, <2>1, WordsSurvive DEF head, text
<1>15. ASSUME NEW rest \in Seq(Byte) PROVE DecLeaf(names, "string", b \o rest) = Got(j, rest)
  <2>1. DecLeaf(names, "string", b \o rest) = DecString(b \o rest)
    BY DEF DecLeaf, AddressBytes
  <2>2. b \o rest = head \o (text \o rest) /\ text \o rest \in Seq(Byte)
    BY <1>3, <1>4, Appending
  <2>3. Take(b \o rest, 4) = Got(head, text \o rest)
    BY <1>4, <1>14, <2>2, TakeBack
  <2>4. Take(text \o rest, Len(text)) = Got(text, rest)
    BY <1>3, TakeBack
  <2> DEFINE first == Take(b \o rest, 4)
             second == Take(text \o rest, Len(text))
  <2>5. first.err = "ok" /\ first.val = head /\ first.bytes = text \o rest
    BY <2>3 DEF Got
  <2>6. second.err = "ok" /\ second.val = text /\ second.bytes = rest
    BY <2>4 DEF Got
  <2>7. Unsigned(first.val) = Len(text) /\ ~(Unsigned(first.val) > PayloadLimit)
    BY <1>3, <1>13, <1>14, <2>5, ScalarsAssumption
  <2>8. DecString(b \o rest)
        = IF first.err # "ok" THEN first
          ELSE IF Unsigned(first.val) > PayloadLimit THEN Fail("payload_too_large")
          ELSE LET t == Take(first.bytes, Unsigned(first.val)) IN
               IF t.err # "ok" THEN t ELSE Got(Str(t.val), t.bytes)
    BY Zenon DEF DecString
  <2>9. Take(first.bytes, Unsigned(first.val)) = second
    BY <2>5, <2>7
  <2> HIDE DEF first, second
  <2>10. DecString(b \o rest) = Got(Str(second.val), second.bytes)
    BY <2>5, <2>6, <2>7, <2>8, <2>9, Zenon
  <2> QED
    BY <1>3, <2>1, <2>6, <2>10, Zenon
<1> QED
  BY <1>11, <1>12, <1>13, <1>15, Zenon DEF Survives

(* A value Convert accepts for VPP is what it returns for the bytes it     *)
(* wrote, wherever in a payload it stands and whatever follows: no type at *)
(* which Convert ends loses a value, takes a byte of its neighbour, or     *)
(* writes past the limit (src/schema.cc, Schema::Convert both ways).       *)
THEOREM LeavesSurvive ==
  ASSUME NEW names, Indexed(names), NEW name \in Leaves, NEW j, WellFormed(name, j),
         NEW out \in Seq(Byte), NEW done, done = EncLeaf(names, name, j, out), done.err = "ok"
  PROVE  Survives(names, name, j, out)
<1>1. CASE name = "bool"
  BY <1>1, BooleansSurvive
<1>2. CASE name \in DOMAIN Width \ {"bool"}
  BY <1>2, NumbersSurvive
<1>3. CASE name = "string"
  BY <1>3, StringsSurvive
<1>4. CASE name = "vl_api_interface_index_t"
  BY <1>4, InterfacesSurvive
<1>5. CASE name \in DOMAIN AddressBytes
  BY <1>5, AddressesSurvive
<1> QED
  BY <1>1, <1>2, <1>3, <1>4, <1>5 DEF Leaves

(* Text that has no NUL ends where the padding begins.                     *)
LEMMA PaddingEndsText ==
  ASSUME NEW s \in Seq(Byte), NEW n \in Nat, Len(s) < n,
         \A i \in DOMAIN s : s[i] # 0,
         NEW b, b = s \o [i \in 1..(n - Len(s)) |-> 0]
  PROVE  b \in Seq(Byte) /\ Len(b) = n /\ Terminated(b) = s
<1> DEFINE m == n - Len(s)
           pad == [i \in 1..m |-> 0]
           k == Len(s)
           ends == {i \in DOMAIN b : b[i] = 0}
<1>1. k \in Nat /\ m \in Nat /\ m > 0 /\ 0 \in Byte /\ DOMAIN s = 1..k
  BY LenProperties, ByteFacts
<1>2. pad \in Seq(Byte) /\ Len(pad) = m /\ \A i \in 1..m : pad[i] = 0
  BY <1>1
<1> HIDE DEF pad, m
<1>3. b \in Seq(Byte) /\ Len(b) = k + m
  BY <1>2, ConcatProperties DEF pad, m
<1>4. \A i \in 1..(k + m) : b[i] = IF i <= k THEN s[i] ELSE pad[i - k]
  BY <1>2, ConcatProperties DEF pad, m
<1>5. k + m = n
  BY <1>1 DEF m
<1>6. DOMAIN b = 1..(k + m)
  BY <1>3, LenProperties
<1> HIDE DEF k
<1>7. \A i \in 1..k : b[i] = s[i] /\ b[i] # 0
  <2>1. ASSUME NEW i \in 1..k PROVE b[i] = s[i] /\ s[i] # 0
    <3>1. i \in 1..(k + m) /\ i <= k /\ i \in DOMAIN s
      BY <1>1
    <3> QED
      BY <1>4, <3>1
  <2> QED
    BY <2>1
<1>8. b[k + 1] = 0
  BY <1>1, <1>2, <1>4
<1>9. k + 1 \in ends /\ \A i \in ends : i \in Nat /\ i >= k + 1
  BY <1>1, <1>6, <1>7, <1>8
<1> DEFINE first == CHOOSE i \in ends : \A x \in ends : i <= x
<1>10. first = k + 1
  <2> HIDE DEF ends
  <2>1. \A i \in ends : (\A x \in ends : i <= x) => i = k + 1
    BY <1>1, <1>9
  <2>2. \A x \in ends : k + 1 <= x
    BY <1>1, <1>9
  <2> QED
    BY <1>9, <2>1, <2>2
<1>11. ends # {} /\ Terminated(b) = SubSeq(b, 1, first - 1)
  <2>1. ends # {}
    BY <1>9
  <2> QED
    BY <2>1, Zenon DEF Terminated
<1>12. first - 1 = k
  <2> HIDE DEF first
  <2> QED
    BY <1>1, <1>10
<1>13. SubSeq(b, 1, k) = s
  BY <1>1, <1>3, <1>7, SeqEqual DEF k
<1> QED
  BY <1>3, <1>5, <1>11, <1>12, <1>13

(* Text Convert accepts for an array of characters fills it exactly, NUL   *)
(* included, and is what it returns for those bytes: no text is cut, and   *)
(* none runs into its neighbour (src/schema.cc, Schema::Convert).          *)
THEOREM TextSurvives ==
  ASSUME NEW f, f.length \in Nat, NEW item, item = [is |-> item.is, data |-> item.data],
         item.is = "string" => item.data \in Seq(Byte),
         NEW out \in Seq(Byte), NEW done, done = EncText(f, item, out), done.err = "ok"
  PROVE  \E b \in Seq(Byte) :
           /\ EncText(f, item, out) = Put(out \o b)
           /\ Len(b) = f.length /\ Len(out) + Len(b) <= PayloadLimit
           /\ \A rest \in Seq(Byte) : DecText(f, b \o rest) = Got(item, rest)
<1> DEFINE s == item.data
           b == s \o [i \in 1..(f.length - Len(s)) |-> 0]
<1>1. /\ item.is = "string" /\ ~TooLong(f, s) /\ (\A i \in DOMAIN s : s[i] # 0)
      /\ EncText(f, item, out) = Extended(out, b)
  <2>1. CASE \/ item.is # "string" \/ TooLong(f, item.data)
             \/ \E i \in DOMAIN item.data : item.data[i] = 0
    <3>1. EncText(f, item, out) = Fail("invalid_params")
      BY <2>1, Zenon DEF EncText
    <3> QED
      BY <3>1, FailFacts
  <2>2. CASE ~(\/ item.is # "string" \/ TooLong(f, item.data)
               \/ \E i \in DOMAIN item.data : item.data[i] = 0)
    BY <2>2, Zenon DEF EncText
  <2> QED
    BY <2>1, <2>2
<1>2. s \in Seq(Byte) /\ item = Str(s)
  BY <1>1 DEF Str
<1>3. Len(s) < f.length
  <2>1. Len(s) \in Nat
    BY <1>2, LenProperties
  <2> QED
    BY <1>1, <2>1 DEF TooLong
<1>4. b \in Seq(Byte) /\ Len(b) = f.length /\ Terminated(b) = s
  BY <1>1, <1>2, <1>3, PaddingEndsText
<1> HIDE DEF b
<1>5. EncText(f, item, out) = Put(out \o b) /\ Len(out) + Len(b) <= PayloadLimit
  BY <1>1, <1>4, ExtendedFacts
<1>6. ASSUME NEW rest \in Seq(Byte) PROVE DecText(f, b \o rest) = Got(item, rest)
  <2> DEFINE part == Take(b \o rest, f.length)
  <2>1. part = Got(b, rest)
    BY <1>4, TakeBack
  <2>2. part.err = "ok" /\ part.val = b /\ part.bytes = rest
    BY <2>1 DEF Got
  <2>3. DecText(f, b \o rest) = Got(Str(Terminated(part.val)), part.bytes)
    BY <2>2, Zenon DEF DecText
  <2> HIDE DEF part
  <2> QED
    BY <1>2, <1>4, <2>2, <2>3, Zenon
<1> QED
  BY <1>4, <1>5, <1>6

-----------------------------------------------------------------------------
(* Generated callbacks.                                                    *)

(* Dividing what is left of the limit tells whether count elements fit.    *)
LEMMA FitsByDivision ==
  ASSUME NEW left \in Nat, NEW count \in Nat, NEW e \in Nat, e > 0
  PROVE  count > left \div e <=> count * e > left
<1> DEFINE q == left \div e
           r == left % e
<1>1. q \in Nat /\ r \in Nat /\ r < e /\ left = e * q + r
  BY Z3
<1> HIDE DEF q, r
<1>2. CASE count <= q
  <2>1. e * count <= e * q
    BY <1>1, <1>2
  <2> DEFINE x == e * count
             y == e * q
  <2>2. x \in Nat /\ y \in Nat /\ count * e = x
    BY <1>1
  <2>3. x <= y /\ left = y + r
    BY <1>1, <2>1
  <2> HIDE DEF x, y
  <2> QED
    BY <1>1, <1>2, <2>2, <2>3 DEF q
<1>3. CASE count >= q + 1
  <2>1. e * count >= e * (q + 1)
    BY <1>1, <1>3
  <2> DEFINE x == e * count
             y == e * q
  <2>2. x \in Nat /\ y \in Nat /\ count * e = x
    BY <1>1
  <2>3. e * (q + 1) = y + e
    BY <1>1
  <2>4. x >= y + e /\ left = y + r
    BY <1>1, <2>1, <2>3
  <2> HIDE DEF x, y
  <2> QED
    BY <1>1, <1>3, <2>2, <2>4 DEF q
<1> QED
  BY <1>1, <1>2, <1>3

(* The middle of three parts is found where it is.                         *)
LEMMA CutOut ==
  ASSUME NEW x \in Seq(Byte), NEW y \in Seq(Byte), NEW z \in Seq(Byte)
  PROVE  SubSeq(x \o (y \o z), Len(x) + 1, Len(x) + Len(y)) = y
<1> DEFINE p == Len(x)
           w == Len(y)
           v == y \o z
           s == x \o v
           cut == SubSeq(s, p + 1, p + w)
<1>1. p \in Nat /\ w \in Nat /\ Len(z) \in Nat /\ v \in Seq(Byte) /\ Len(v) = w + Len(z)
  BY Appending
<1>2. \A i \in 1..w : v[i] = y[i]
  BY <1>1, ConcatProperties
<1> HIDE DEF v
<1>3. s \in Seq(Byte) /\ Len(s) = p + Len(v)
  BY <1>1, ConcatProperties
<1>4. \A i \in 1..w : s[p + i] = v[i]
  BY <1>1, ConcatProperties
<1> HIDE DEF s, p, w
<1>5. cut \in Seq(Byte) /\ Len(cut) = w /\ \A i \in 1..w : cut[i] = s[p + i]
  BY <1>1, <1>3
<1> HIDE DEF cut
<1>6. \A i \in 1..w : cut[i] = y[i]
  BY <1>2, <1>4, <1>5
<1>7. cut = y
  BY <1>5, <1>6, SeqEqual DEF w
<1> QED
  BY <1>7 DEF cut, s, v, p, w

(* A reply of variable length whose header ends with a count of elements   *)
(* is copied whole: its length is that of the header and of all the        *)
(* elements its count announces, read where the layout puts the count,     *)
(* whatever surrounds it; and it is refused exactly when that exceeds the  *)
(* limit, though the callback only divides and never multiplies first      *)
(* (tools/schema_generator.cc, the check in Callback).                     *)
THEOREM CallbackSizesReply ==
  ASSUME NEW tail, tail.ok = TRUE, tail.width \in Widths, tail.at \in Nat,
         tail.element \in Nat, tail.element > 0, NEW size \in Nat,
         NEW before \in Seq(Byte), Len(before) = tail.at, NEW after \in Seq(Byte),
         NEW count \in Nat, count < Capacity(tail.width),
         NEW reply, reply = before \o (Digits(count, tail.width) \o after)
  PROVE  CopySize(tail, size, CountIn(reply, tail))
         = IF size + count * tail.element > PayloadLimit THEN -1
           ELSE size + count * tail.element
<1> DEFINE w == tail.width
           d == Digits(count, w)
           e == tail.element
           p == tail.at
<1>1. w \in Widths /\ count \in Int /\ count < Capacity(w)
  OBVIOUS
<1> HIDE DEF w
<1>2. d \in Seq(Byte) /\ Len(d) = w
  BY <1>1, DigitsSeq
<1>3. Unsigned(d) = count /\ SubSeq(reply, p + 1, p + w) = d
  <2>1. Unsigned(d) = count
    BY <1>1, UnsignedOfDigits
  <2>2. reply = before \o (d \o after)
    BY DEF w
  <2> HIDE DEF d
  <2>3. SubSeq(before \o (d \o after), Len(before) + 1, Len(before) + Len(d)) = d
    BY <1>2, CutOut
  <2> QED
    BY <1>2, <2>1, <2>2, <2>3, Zenon
<1>4. CountIn(reply, tail) = count
  BY <1>3 DEF CountIn, w
<1>5. CopySize(tail, size, count)
      = IF size > PayloadLimit \/ count > (PayloadLimit - size) \div e
        THEN -1 ELSE size + count * e
  <2>1. tail.width # 0
    BY <1>1 DEF w, Widths
  <2> QED
    BY <2>1 DEF CopySize
<1>6. PayloadLimit \in Nat /\ count * e \in Nat
  BY ScalarsAssumption
<1>7. (size > PayloadLimit \/ count > (PayloadLimit - size) \div e)
      <=> size + count * e > PayloadLimit
  <2>1. CASE size > PayloadLimit
    BY <1>6, <2>1
  <2>2. CASE ~(size > PayloadLimit)
    <3>1. PayloadLimit - size \in Nat
      BY <1>6, <2>2
    <3>2. count > (PayloadLimit - size) \div e <=> count * e > PayloadLimit - size
      BY <3>1, FitsByDivision
    <3> DEFINE x == count * e
    <3>3. x \in Nat
      BY <1>6
    <3>4. count > (PayloadLimit - size) \div e <=> x > PayloadLimit - size
      BY <3>2
    <3> HIDE DEF x
    <3>5. x > PayloadLimit - size <=> size + x > PayloadLimit
      BY <1>6, <3>3
    <3> QED
      BY <2>2, <3>4, <3>5 DEF x
  <2> QED
    BY <2>1, <2>2
<1>8. CASE size + count * e > PayloadLimit
  BY <1>4, <1>5, <1>7, <1>8
<1>9. CASE ~(size + count * e > PayloadLimit)
  BY <1>4, <1>5, <1>7, <1>9
<1> QED
  BY <1>8, <1>9
=============================================================================

---------------------------- MODULE DecimalsProofs ----------------------------
(* Decimals, for any contexts and bounds of its assumptions, any values and  *)
(* any number of aggregates.                                                 *)
EXTENDS Decimals, TLAPS

Numbers == INSTANCE LargestRemainderProofs WITH Digits <- Precision, SumDigits <- Precision

-----------------------------------------------------------------------------
(* Powers of ten.                                                          *)

\* Induction, for a set of numbers in the place of a predicate.
LEMMA Induct ==
    ASSUME NEW T, 0 \in T, \A n \in Nat : n \in T => n + 1 \in T
    PROVE  Nat \subseteq T
  <1>1. Precision \in Nat \ {0} /\ Precision =< Precision
    BY DigitsAssumption
  <1> QED  BY <1>1, Numbers!Induct

LEMMA Least ==
    ASSUME NEW T, T \subseteq Nat, T # {}
    PROVE  \E n \in T : \A m \in T : n =< m
  <1>1. Precision \in Nat \ {0} /\ Precision =< Precision
    BY DigitsAssumption
  <1> QED  BY <1>1, Numbers!Least

\* The recursion of Tens is well founded.
LEMMA TensAre == Tens = [p \in Nat |-> IF p = 0 THEN 1 ELSE 10 * Tens[p - 1]]
  <1> DEFINE Upto(f, k) == f = [p \in 0 .. k |-> IF p = 0 THEN 1 ELSE 10 * f[p - 1]]
             T == {k \in Nat : \E f : Upto(f, k)}
             some(k) == CHOOSE f : Upto(f, k)
             whole == [p \in Nat |-> some(p)[p]]
  <1>1. 0 \in T
    <2>1. Upto([p \in 0 .. 0 |-> 1], 0)
      OBVIOUS
    <2> QED  BY <2>1
  <1>2. ASSUME NEW k \in Nat, NEW f, Upto(f, k)
        PROVE  /\ f[0] = 1
               /\ \A p \in 0 .. k : p # 0 => f[p] = 10 * f[p - 1]
    <2>1. \A p \in 0 .. k : f[p] = IF p = 0 THEN 1 ELSE 10 * f[p - 1]
      BY <1>2
    <2> QED  BY <2>1
  <1>3. ASSUME NEW k \in Nat, NEW f, Upto(f, k)
        PROVE  Upto([p \in 0 .. k + 1 |-> IF p = 0 THEN 1 ELSE 10 * f[p - 1]], k + 1)
    <2> DEFINE g == [p \in 0 .. k + 1 |-> IF p = 0 THEN 1 ELSE 10 * f[p - 1]]
               h == [p \in 0 .. k + 1 |-> IF p = 0 THEN 1 ELSE 10 * g[p - 1]]
    <2>1. \A p \in 0 .. k : p \in 0 .. k + 1 /\ g[p] = f[p]
      <3> HIDE DEF Upto
      <3> QED  BY <1>2, <1>3
    <2>2. \A p \in 0 .. k + 1 : p # 0 => p - 1 \in 0 .. k
      OBVIOUS
    <2>3. \A p \in 0 .. k + 1 : g[p] = h[p]
      BY <2>1, <2>2
    <2>4. g = h
      BY <2>3
    <2> QED  BY <2>4
  <1>4. Nat \subseteq T
    <2>1. ASSUME NEW k \in Nat, k \in T PROVE k + 1 \in T
      <3>1. PICK f : Upto(f, k)
        BY <2>1
      <3>2. \E g : Upto(g, k + 1)
        <4> HIDE DEF Upto
        <4> QED  BY <1>3, <3>1
      <3> QED  BY <3>2
    <2> HIDE DEF T
    <2> QED  BY <1>1, <2>1, Induct
  <1>5. \A k \in Nat : Upto(some(k), k)
    <2> HIDE DEF Upto
    <2> QED  BY <1>4
  <1> HIDE DEF Upto, some
  <1>6. ASSUME NEW k \in Nat
        PROVE  some(k + 1)[k + 1] = 10 * some(k)[k]
    <2> DEFINE S == {p \in Nat : p =< k => some(k + 1)[p] = some(k)[p]}
    <2>1. 0 \in S
      BY <1>2, <1>5
    <2>2. ASSUME NEW p \in Nat, p \in S PROVE p + 1 \in S
      <3> SUFFICES ASSUME p + 1 =< k PROVE some(k + 1)[p + 1] = some(k)[p + 1]
        OBVIOUS
      <3>1. p + 1 \in 0 .. k /\ p + 1 \in 0 .. k + 1 /\ p + 1 # 0 /\ (p + 1) - 1 = p
        OBVIOUS
      <3>2. some(k + 1)[p + 1] = 10 * some(k + 1)[p]
        BY <1>2, <1>5, <3>1
      <3>3. some(k)[p + 1] = 10 * some(k)[p]
        BY <1>2, <1>5, <3>1
      <3> QED  BY <2>2, <3>2, <3>3
    <2>3. k \in S
      <3> HIDE DEF S
      <3> QED  BY <2>1, <2>2, Induct
    <2>4. k + 1 \in 0 .. k + 1 /\ k + 1 # 0 /\ (k + 1) - 1 = k
      OBVIOUS
    <2>5. some(k + 1)[k + 1] = 10 * some(k + 1)[k]
      BY <1>2, <1>5, <2>4
    <2> QED  BY <2>3, <2>5
  <1>7. \A p \in Nat : whole[p] = IF p = 0 THEN 1 ELSE 10 * whole[p - 1]
    <2>1. whole[0] = 1
      BY <1>2, <1>5
    <2>2. ASSUME NEW p \in Nat, p # 0 PROVE whole[p] = 10 * whole[p - 1]
      <3>1. p - 1 \in Nat /\ (p - 1) + 1 = p
        BY <2>2
      <3> QED  BY <1>6, <3>1
    <2> QED  BY <2>1, <2>2
  <1>8. whole = [p \in Nat |-> IF p = 0 THEN 1 ELSE 10 * whole[p - 1]]
    BY <1>7
  <1> HIDE DEF whole
  <1> QED  BY <1>8 DEF Tens

LEMMA TensValues ==
    /\ Tens[0] = 1
    /\ \A p \in Nat : Tens[p] \in Nat \ {0} /\ Tens[p + 1] = 10 * Tens[p] /\ p < Tens[p]
  <1>1. \A p \in Nat : Tens[p] = IF p = 0 THEN 1 ELSE 10 * Tens[p - 1]
    BY TensAre
  <1>2. Tens[0] = 1
    BY <1>1
  <1>3. \A p \in Nat : Tens[p + 1] = 10 * Tens[p]
    <2> TAKE p \in Nat
    <2>1. p + 1 \in Nat /\ p + 1 # 0 /\ (p + 1) - 1 = p
      OBVIOUS
    <2> QED  BY <1>1, <2>1
  <1> DEFINE T == {p \in Nat : Tens[p] \in Nat \ {0} /\ p < Tens[p]}
  <1>4. 0 \in T
    BY <1>2
  <1>5. ASSUME NEW p \in Nat, p \in T PROVE p + 1 \in T
    BY <1>3, <1>5
  <1>6. Nat \subseteq T
    <2> HIDE DEF T
    <2> QED  BY <1>4, <1>5, Induct
  <1> QED  BY <1>2, <1>3, <1>6

LEMMA TensAdd ==
    ASSUME NEW p \in Nat, NEW q \in Nat
    PROVE  Tens[p + q] = Tens[p] * Tens[q]
  <1> DEFINE T == {n \in Nat : Tens[p + n] = Tens[p] * Tens[n]}
  <1>1. 0 \in T
    <2>1. p + 0 = p /\ Tens[p] * 1 = Tens[p]
      BY TensValues
    <2> QED  BY <2>1, TensValues
  <1>2. ASSUME NEW n \in Nat, n \in T PROVE n + 1 \in T
    <2>1. Tens[p + (n + 1)] = 10 * Tens[p + n]
      <3>1. p + (n + 1) = (p + n) + 1 /\ p + n \in Nat
        OBVIOUS
      <3> QED  BY <3>1, TensValues
    <2>2. PICK a \in Nat, b \in Nat : a = Tens[p] /\ b = Tens[n]
      BY TensValues
    <2>3. Tens[n + 1] = 10 * b
      BY <2>2, TensValues
    <2>4. 10 * (a * b) = a * (10 * b)
      OBVIOUS
    <2> QED  BY <1>2, <2>1, <2>2, <2>3, <2>4
  <1>3. Nat \subseteq T
    <2> HIDE DEF T
    <2> QED  BY <1>1, <1>2, Induct
  <1> QED  BY <1>3

LEMMA TensOrder ==
    ASSUME NEW p \in Nat, NEW q \in Nat, p =< q
    PROVE  /\ Tens[p] =< Tens[q]
           /\ p # q => 10 * Tens[p] =< Tens[q]
  <1>1. CASE p = q
    BY <1>1, TensValues
  <1>2. CASE p # q
    <2>1. PICK n \in Nat : q = (p + 1) + n
      <3>1. q - p - 1 \in Nat /\ q = (p + 1) + (q - p - 1)
        BY <1>2
      <3> QED  BY <3>1
    <2>2. PICK a \in Nat : a = Tens[p] /\ Tens[p + 1] = 10 * a
      BY TensValues
    <2>3. PICK b \in Nat \ {0} : b = Tens[n]
      BY TensValues
    <2>4. Tens[q] = (10 * a) * b
      BY <2>1, <2>2, <2>3, TensAdd
    <2>5. 10 * a =< (10 * a) * b
      <3>1. PICK m \in Nat : b = 1 + m
        <4>1. b - 1 \in Nat /\ b = 1 + (b - 1)
          OBVIOUS
        <4> QED  BY <4>1
      <3>2. (10 * a) * (1 + m) = 10 * a + (10 * a) * m /\ (10 * a) * m \in Nat
        OBVIOUS
      <3> QED  BY <3>1, <3>2
    <2> QED  BY <2>2, <2>4, <2>5
  <1> QED  BY <1>1, <1>2
-----------------------------------------------------------------------------
(* How many digits a number has.                                           *)

Numeral(n, d) == d \in Nat \ {0} /\ n < Tens[d] /\ (d = 1 \/ Tens[d - 1] =< n)

LEMMA DigitCountIs ==
    ASSUME NEW n \in Nat
    PROVE  Numeral(n, DigitCount(n))
  <1> DEFINE T == {d \in 1 .. n + 1 : n < Tens[d]}
  <1>1. n + 1 \in T
    <2>1. n + 1 \in Nat /\ n + 1 \in 1 .. n + 1
      OBVIOUS
    <2>2. n + 1 < Tens[n + 1] /\ Tens[n + 1] \in Nat
      BY <2>1, TensValues
    <2> QED  BY <2>1, <2>2
  <1>2. PICK d \in T : \A e \in T : d =< e
    <2>1. T \subseteq Nat /\ T # {}
      BY <1>1
    <2> HIDE DEF T
    <2> QED  BY <2>1, Least
  <1>3. d \in 1 .. n + 1 /\ n < Tens[d] /\ (d = 1 \/ Tens[d - 1] =< n)
    <2>1. ASSUME d # 1 PROVE Tens[d - 1] =< n
      <3>1. d - 1 \in 1 .. n + 1 /\ d - 1 \in Nat /\ d - 1 < d
        BY <2>1
      <3>2. d - 1 \notin T
        BY <1>2, <3>1
      <3>3. Tens[d - 1] \in Nat
        BY <3>1, TensValues
      <3> QED  BY <3>1, <3>2, <3>3
    <2> QED  BY <2>1
  <1>4. /\ DigitCount(n) \in 1 .. n + 1 /\ n < Tens[DigitCount(n)]
        /\ DigitCount(n) = 1 \/ Tens[DigitCount(n) - 1] =< n
    BY <1>3 DEF DigitCount
  <1> HIDE DEF T
  <1> QED  BY <1>4 DEF Numeral

LEMMA NumeralUnique ==
    ASSUME NEW n \in Nat, NEW d, NEW e, Numeral(n, d), Numeral(n, e)
    PROVE  d = e
  <1>1. ASSUME NEW p \in Nat \ {0}, NEW q \in Nat \ {0}, Numeral(n, p), Numeral(n, q), p < q
        PROVE  FALSE
    <2>1. q - 1 \in Nat /\ p =< q - 1 /\ q # 1
      BY <1>1
    <2>2. Tens[p] =< Tens[q - 1]
      BY <2>1, TensOrder
    <2>3. Tens[p] \in Nat /\ Tens[q - 1] \in Nat /\ n < Tens[p] /\ Tens[q - 1] =< n
      BY <1>1, <2>1, TensValues DEF Numeral
    <2> QED  BY <2>2, <2>3
  <1>2. d \in Nat \ {0} /\ e \in Nat \ {0}
    BY DEF Numeral
  <1>3. ~(d < e) /\ ~(e < d)
    BY <1>1, <1>2
  <1> QED  BY <1>2, <1>3

LEMMA DigitCountEqual ==
    ASSUME NEW n \in Nat, NEW d, Numeral(n, d)
    PROVE  DigitCount(n) = d
  BY DigitCountIs, NumeralUnique

\* Zeros at the end are digits.
LEMMA DigitCountShift ==
    ASSUME NEW n \in Nat \ {0}, NEW k \in Nat
    PROVE  /\ n * Tens[k] \in Nat \ {0}
           /\ DigitCount(n * Tens[k]) = DigitCount(n) + k
  <1>1. PICK d \in Nat \ {0} : d = DigitCount(n)
    BY DigitCountIs DEF Numeral
  <1>2. PICK t \in Nat \ {0} : t = Tens[k]
    BY TensValues
  <1>3. n < Tens[d] /\ (d = 1 \/ Tens[d - 1] =< n)
    BY <1>1, DigitCountIs DEF Numeral
  <1>4. PICK a \in Nat : a = Tens[d]
    BY TensValues
  <1>5. n * t \in Nat \ {0}
    OBVIOUS
  <1>6. n * t < Tens[d + k]
    <2>1. Tens[d + k] = a * t
      BY <1>2, <1>4, TensAdd
    <2>2. n + 1 =< a
      BY <1>3, <1>4
    <2>3. (n + 1) * t =< a * t
      BY <2>2, Numbers!Times, DigitsAssumption
    <2>4. (n + 1) * t = n * t + t
      OBVIOUS
    <2>5. a * t \in Nat
      OBVIOUS
    <2> QED  BY <1>5, <2>1, <2>3, <2>4, <2>5
  <1>7. d + k = 1 \/ Tens[d + k - 1] =< n * t
    <2>1. CASE d = 1
      <3>1. d + k - 1 = k
        BY <2>1
      <3>2. t =< n * t
        <4>1. 1 =< n
          OBVIOUS
        <4>2. 1 * t =< n * t
          BY <4>1, Numbers!Times, DigitsAssumption
        <4> QED  BY <4>2
      <3> QED  BY <1>2, <3>1, <3>2
    <2>2. CASE d # 1
      <3>1. PICK b \in Nat : b = Tens[d - 1] /\ d - 1 \in Nat
        BY <2>2, TensValues
      <3>2. Tens[(d - 1) + k] = b * t
        BY <1>2, <3>1, TensAdd
      <3>3. b * t =< n * t
        BY <1>3, <2>2, <3>1, Numbers!Times, DigitsAssumption
      <3>4. (d - 1) + k = d + k - 1
        OBVIOUS
      <3> QED  BY <3>2, <3>3, <3>4
    <2> QED  BY <2>1, <2>2
  <1>8. Numeral(n * t, d + k)
    BY <1>6, <1>7 DEF Numeral
  <1> QED  BY <1>1, <1>2, <1>5, <1>8, DigitCountEqual
-----------------------------------------------------------------------------
(* Trailing zeros.                                                         *)

LEMMA Divides ==
    ASSUME NEW n \in Nat, NEW d \in Nat \ {0}
    PROVE  n % d = 0 <=> \E m \in Nat : n = m * d
  <1>1. PICK q \in Nat : n = q * d + (n % d)
    <2>1. n = (n \div d) * d + (n % d) /\ n \div d \in Nat
      OBVIOUS
    <2> QED  BY <2>1
  <1>2. ASSUME n % d = 0 PROVE \E m \in Nat : n = m * d
    <2>1. n = q * d
      BY <1>1, <1>2
    <2> QED  BY <2>1
  <1>3. ASSUME NEW m \in Nat, n = m * d PROVE n % d = 0
    BY <1>3
  <1> QED  BY <1>2, <1>3

\* A number is its significant digits and so many zeros.
Parts(c, q, k) == q \in Nat \ {0} /\ k \in Nat /\ q % 10 # 0 /\ c = q * Tens[k]

LEMMA PartsExist ==
    ASSUME NEW c \in Nat \ {0}
    PROVE  \E q, k : Parts(c, q, k)
  <1> DEFINE T == {k \in Nat : c % Tens[k] # 0}
  <1>1. c \in T
    <2>1. c < Tens[c] /\ Tens[c] \in Nat \ {0}
      BY TensValues
    <2>2. PICK t \in Nat \ {0} : t = Tens[c]
      BY <2>1
    <2>3. c % t = c
      BY <2>1, <2>2
    <2> QED  BY <2>2, <2>3
  <1>2. PICK z \in T : \A k \in T : z =< k
    <2>1. T \subseteq Nat /\ T # {}
      BY <1>1
    <2> HIDE DEF T
    <2> QED  BY <2>1, Least
  <1>3. z # 0
    <2>1. c % 1 = 0
      OBVIOUS
    <2> QED  BY <2>1, TensValues
  <1>4. PICK k \in Nat : z = k + 1
    <2>1. z - 1 \in Nat /\ z = (z - 1) + 1
      BY <1>3
    <2> QED  BY <2>1
  <1>5. PICK t \in Nat \ {0} : t = Tens[k] /\ Tens[k + 1] = 10 * t
    BY TensValues
  <1>6. c % t = 0
    <2>1. k \notin T
      BY <1>2, <1>4
    <2> QED  BY <1>5, <2>1
  <1>7. PICK q \in Nat : c = q * t
    BY <1>6, Divides
  <1>8. c % (10 * t) # 0
    BY <1>4, <1>5
  <1>9. q # 0 /\ q % 10 # 0
    <2>1. q # 0
      BY <1>7
    <2>2. ASSUME q % 10 = 0 PROVE FALSE
      <3>1. PICK m \in Nat : q = m * 10
        BY <2>2, Divides
      <3>2. (m * 10) * t = m * (10 * t) /\ 10 * t \in Nat \ {0}
        OBVIOUS
      <3> QED  BY <1>7, <1>8, <3>1, <3>2, Divides
    <2> QED  BY <2>1, <2>2
  <1> QED  BY <1>5, <1>7, <1>9 DEF Parts

LEMMA StrippedIs ==
    ASSUME NEW d \in Decimal, NEW q, NEW k, Parts(d.coefficient, q, k)
    PROVE  Stripped(d) = [coefficient |-> q, exponent |-> d.exponent + k]
  <1>1. PICK c \in Nat : c = d.coefficient
    BY DEF Decimal
  <1>2. q \in Nat \ {0} /\ k \in Nat /\ q % 10 # 0
    BY DEF Parts
  <1>3. PICK t \in Nat \ {0} : t = Tens[k] /\ Tens[k + 1] = 10 * t
    BY <1>2, TensValues
  <1>4. c = q * t
    BY <1>1, <1>3 DEF Parts
  <1>5. k \in 0 .. c
    <2>1. k < t
      BY <1>2, <1>3, TensValues
    <2>2. 1 * t =< q * t
      <3>1. 1 =< q
        BY <1>2
      <3> QED  BY <1>2, <3>1, Numbers!Times, DigitsAssumption
    <2> QED  BY <1>2, <1>4, <2>1, <2>2
  <1>6. ASSUME NEW z \in Nat, z =< k PROVE c % Tens[z] = 0
    <2>1. PICK n \in Nat : k = n + z
      <3>1. k - z \in Nat /\ k = (k - z) + z
        BY <1>2, <1>6
      <3> QED  BY <3>1
    <2>2. PICK a \in Nat \ {0}, b \in Nat \ {0} : a = Tens[n] /\ b = Tens[z]
      BY TensValues
    <2>3. t = a * b
      BY <1>3, <2>1, <2>2, TensAdd
    <2>4. PICK m \in Nat : m = q * a
      BY <1>2
    <2>5. q * (a * b) = (q * a) * b
      BY <1>2
    <2>6. c = m * b
      BY <1>4, <2>3, <2>4, <2>5
    <2>7. c % b = 0
      BY <2>6, Divides
    <2> QED  BY <2>2, <2>7
  <1>7. ASSUME NEW z \in Nat, k < z PROVE c % Tens[z] # 0
    <2>1. PICK n \in Nat : z = n + (k + 1)
      <3>1. z - (k + 1) \in Nat /\ z = (z - (k + 1)) + (k + 1)
        BY <1>2, <1>7
      <3> QED  BY <3>1
    <2>2. PICK a \in Nat \ {0}, b \in Nat \ {0} : a = Tens[n] /\ b = Tens[z]
      BY TensValues
    <2>3. b = a * (10 * t)
      BY <1>2, <1>3, <2>1, <2>2, TensAdd
    <2>4. ASSUME c % b = 0 PROVE FALSE
      <3>1. PICK m \in Nat : c = m * b
        BY <2>4, Divides
      <3>2. PICK x \in Nat : x = m * a
        OBVIOUS
      <3>3. m * (a * (10 * t)) = ((m * a) * 10) * t
        OBVIOUS
      <3>4. q * t = (x * 10) * t
        BY <1>4, <2>3, <3>1, <3>2, <3>3
      <3>5. q = x * 10
        <4>1. PICK y \in Nat : y = x * 10
          OBVIOUS
        <4>2. ~(q < y)
          <5>1. q < y => q * t + t =< y * t
            BY <1>2, Numbers!MultiplesApart, DigitsAssumption
          <5>2. q * t \in Nat
            BY <1>2
          <5> QED  BY <3>4, <4>1, <5>1, <5>2
        <4>3. ~(y < q)
          <5>1. y < q => y * t + t =< q * t
            BY <1>2, Numbers!MultiplesApart, DigitsAssumption
          <5>2. q * t \in Nat
            BY <1>2
          <5> QED  BY <3>4, <4>1, <5>1, <5>2
        <4> QED  BY <1>2, <4>1, <4>2, <4>3
      <3> QED  BY <1>2, <3>5, Divides
    <2> QED  BY <2>2, <2>4
  <1>8. \A z \in 0 .. c : (c % Tens[z] = 0 /\ c % Tens[z + 1] # 0) <=> z = k
    <2> TAKE z \in 0 .. c
    <2>1. z \in Nat /\ z + 1 \in Nat
      OBVIOUS
    <2>2. CASE z = k
      <3>1. c % Tens[k] = 0
        BY <1>2, <1>6
      <3>2. c % Tens[k + 1] # 0
        <4>1. k < k + 1 /\ k + 1 \in Nat
          BY <1>2
        <4> QED  BY <1>7, <4>1
      <3> QED  BY <2>2, <3>1, <3>2
    <2>3. CASE z < k
      BY <1>2, <1>6, <2>1, <2>3
    <2>4. CASE k < z
      BY <1>2, <1>7, <2>1, <2>4
    <2> QED  BY <1>2, <2>1, <2>2, <2>3, <2>4
  <1>9. (CHOOSE z \in 0 .. c : c % Tens[z] = 0 /\ c % Tens[z + 1] # 0) = k
    BY <1>5, <1>8
  <1>10. c \div t = q
    BY <1>2, <1>4, Numbers!Multiple, DigitsAssumption
  <1> QED  BY <1>1, <1>3, <1>9, <1>10 DEF Stripped

\* Stripping changes neither the value nor where its first digit stands.
LEMMA StrippedValue ==
    ASSUME NEW d \in Decimal, d.coefficient # 0
    PROVE  \E q, k : /\ Parts(d.coefficient, q, k)
                     /\ Stripped(d) = [coefficient |-> q, exponent |-> d.exponent + k]
                     /\ DigitCount(d.coefficient) = DigitCount(q) + k
                     /\ DigitCount(q) \in Nat \ {0}
  <1>1. d.coefficient \in Nat \ {0}
    BY DEF Decimal
  <1>2. PICK q : \E k : Parts(d.coefficient, q, k)
    BY <1>1, PartsExist
  <1>3. PICK k : Parts(d.coefficient, q, k)
    BY <1>2
  <1>4. Stripped(d) = [coefficient |-> q, exponent |-> d.exponent + k]
    BY <1>3, StrippedIs
  <1>5. q \in Nat \ {0} /\ k \in Nat /\ d.coefficient = q * Tens[k]
    BY <1>3 DEF Parts
  <1>6. DigitCount(d.coefficient) = DigitCount(q) + k
    BY <1>5, DigitCountShift
  <1>7. DigitCount(q) \in Nat \ {0}
    BY <1>5, DigitCountIs DEF Numeral
  <1> QED  BY <1>3, <1>4, <1>6, <1>7
-----------------------------------------------------------------------------
(* What a context does to a value.                                         *)

LEMMA HalfEvenIs ==
    ASSUME NEW n \in Nat, NEW step \in Nat \ {0}
    PROVE  /\ HalfEven(n, step) \in Nat
           /\ n \div step =< HalfEven(n, step) /\ HalfEven(n, step) =< (n \div step) + 1
           /\ \A m \in Nat : n = m * step => HalfEven(n, step) = m
  <1>1. PICK down \in Nat : down = n \div step
    OBVIOUS
  <1>2. HalfEven(n, step) = down \/ HalfEven(n, step) = down + 1
    BY <1>1 DEF HalfEven
  <1>3. ASSUME NEW m \in Nat, n = m * step PROVE HalfEven(n, step) = m
    <2>1. n \div step = m
      BY <1>3, Numbers!Multiple, DigitsAssumption
    <2>2. n % step = 0
      BY <1>3, Divides
    <2> QED  BY <2>1, <2>2 DEF HalfEven
  <1> QED  BY <1>1, <1>2, <1>3

\* A value that fits is left alone.
LEMMA RoundedShort ==
    ASSUME NEW d \in Decimal, NEW p \in Nat, DigitCount(d.coefficient) =< p
    PROVE  RoundedTo(d, p) = d
  <1>1. DigitCount(d.coefficient) \in Nat
    BY DigitCountIs DEF Decimal, Numeral
  <1> QED  BY <1>1 DEF RoundedTo

\* A value that has too many digits gets as many as the context has, and its
\* first digit stays where it was, or moves up by a carry.
LEMMA RoundedLong ==
    ASSUME NEW d \in Decimal, NEW p \in Nat \ {0}, p < DigitCount(d.coefficient)
    PROVE  /\ RoundedTo(d, p) \in Decimal
           /\ RoundedTo(d, p).coefficient # 0
           /\ DigitCount(RoundedTo(d, p).coefficient) = p
           /\ d.exponent + DigitCount(d.coefficient) =< RoundedTo(d, p).exponent + p
  <1>1. PICK c \in Nat : c = d.coefficient
    BY DEF Decimal
  <1>2. PICK n \in Nat \ {0} : n = DigitCount(c)
    BY DigitCountIs DEF Numeral
  <1>3. p < n /\ n - p \in Nat \ {0} /\ p - 1 \in Nat /\ n # 1 /\ d.exponent \in Int
    BY <1>1, <1>2 DEF Decimal
  <1>4. PICK step \in Nat \ {0} : step = Tens[n - p]
    BY <1>3, TensValues
  <1>5. PICK rounded : rounded = HalfEven(c, step)
    OBVIOUS
  <1>6. PICK low \in Nat \ {0} : low = Tens[p - 1] /\ Tens[p] = 10 * low
    <2>1. (p - 1) + 1 = p
      OBVIOUS
    <2> QED  BY <1>3, <2>1, TensValues
  <1>7. low =< c \div step
    <2>1. Tens[n - 1] =< c
      BY <1>2, <1>3, DigitCountIs DEF Numeral
    <2>2. Tens[n - 1] = low * step
      <3>1. (p - 1) + (n - p) = n - 1
        BY <1>3
      <3> QED  BY <1>3, <1>4, <1>6, <3>1, TensAdd
    <2>3. low * step \in Nat /\ (low * step) \div step = low
      BY Numbers!Multiple, DigitsAssumption
    <2> QED  BY <2>1, <2>2, <2>3, Numbers!DivisionMonotone, DigitsAssumption
  <1>8. rounded \in Nat \ {0} /\ low =< rounded
    <2>1. PICK down \in Nat : down = c \div step
      OBVIOUS
    <2>2. HalfEven(c, step) \in Nat /\ c \div step =< HalfEven(c, step)
      BY HalfEvenIs
    <2>3. rounded \in Nat /\ down =< rounded /\ low =< down
      BY <1>5, <1>7, <2>1, <2>2
    <2> QED  BY <2>3
  <1>9. RoundedTo(d, p) =
          IF rounded < Tens[p]
          THEN [coefficient |-> rounded, exponent |-> d.exponent + (n - p)]
          ELSE [coefficient |-> low, exponent |-> d.exponent + (n - p) + 1]
    <2>1. ~(n - p =< 0)
      BY <1>3
    <2> QED  BY <1>1, <1>2, <1>4, <1>5, <1>6, <2>1 DEF RoundedTo
  <1>10. CASE rounded < Tens[p]
    <2>1. Numeral(rounded, p)
      BY <1>6, <1>8, <1>10 DEF Numeral
    <2>2. DigitCount(rounded) = p
      BY <1>8, <2>1, DigitCountEqual
    <2>3. RoundedTo(d, p) = [coefficient |-> rounded, exponent |-> d.exponent + (n - p)]
      BY <1>9, <1>10
    <2>4. /\ d.exponent + (n - p) \in Int
          /\ d.exponent + n =< d.exponent + (n - p) + p
      BY <1>3
    <2> QED  BY <1>1, <1>2, <1>8, <2>2, <2>3, <2>4 DEF Decimal
  <1>11. CASE ~(rounded < Tens[p])
    <2>1. Numeral(low, p)
      BY <1>6 DEF Numeral
    <2>2. DigitCount(low) = p
      BY <2>1, DigitCountEqual
    <2>3. RoundedTo(d, p) = [coefficient |-> low, exponent |-> d.exponent + (n - p) + 1]
      BY <1>9, <1>11
    <2>4. /\ d.exponent + (n - p) + 1 \in Int
          /\ d.exponent + n =< d.exponent + (n - p) + 1 + p
      BY <1>3
    <2> QED  BY <1>1, <1>2, <2>2, <2>3, <2>4 DEF Decimal
  <1> QED  BY <1>10, <1>11

LEMMA RoundedType ==
    ASSUME NEW d \in Decimal, NEW p \in Nat \ {0}
    PROVE  /\ RoundedTo(d, p) \in Decimal
           /\ DigitCount(RoundedTo(d, p).coefficient) \in Nat
           /\ DigitCount(RoundedTo(d, p).coefficient) =< p
           /\ RoundedTo(d, p).coefficient = 0 <=> d.coefficient = 0
  <1>1. DigitCount(d.coefficient) \in Nat
    BY DigitCountIs DEF Decimal, Numeral
  <1>2. CASE DigitCount(d.coefficient) =< p
    BY <1>1, <1>2, RoundedShort
  <1>3. CASE p < DigitCount(d.coefficient)
    <2>1. d.coefficient # 0
      <3>1. Numeral(0, 1)
        BY TensValues DEF Numeral
      <3>2. DigitCount(0) = 1
        BY <3>1, DigitCountEqual
      <3> QED  BY <1>3, <3>2
    <2> QED  BY <1>3, <2>1, RoundedLong
  <1> QED  BY <1>1, <1>2, <1>3

\* Rounding what is rounded changes nothing.
LEMMA RoundedTwice ==
    ASSUME NEW d \in Decimal, NEW p \in Nat \ {0}
    PROVE  RoundedTo(RoundedTo(d, p), p) = RoundedTo(d, p)
  BY RoundedType, RoundedShort

\* A context that holds the significant digits takes away zeros only.
LEMMA RoundedZeros ==
    ASSUME NEW d \in Decimal, NEW p \in Nat \ {0}, d.coefficient # 0,
           DigitCount(Stripped(d).coefficient) =< p
    PROVE  Stripped(RoundedTo(d, p)) = Stripped(d)
  <1>1. PICK q, k : /\ Parts(d.coefficient, q, k)
                    /\ Stripped(d) = [coefficient |-> q, exponent |-> d.exponent + k]
                    /\ DigitCount(d.coefficient) = DigitCount(q) + k
                    /\ DigitCount(q) \in Nat \ {0}
    BY StrippedValue
  <1>2. /\ q \in Nat \ {0} /\ k \in Nat /\ q % 10 # 0 /\ d.coefficient = q * Tens[k]
        /\ d.exponent \in Int
    BY <1>1 DEF Parts, Decimal
  <1>3. PICK n \in Nat \ {0} : n = DigitCount(d.coefficient)
    BY <1>1, <1>2
  <1>4. CASE n =< p
    BY <1>3, <1>4, RoundedShort
  <1>5. CASE p < n
    <2>1. n - p \in Nat \ {0} /\ k - (n - p) \in Nat
      BY <1>1, <1>2, <1>3, <1>5
    <2>2. PICK j \in Nat : j = k - (n - p)
      BY <2>1
    <2>3. PICK a \in Nat \ {0}, step \in Nat \ {0} : a = Tens[j] /\ step = Tens[n - p]
      BY <2>1, <2>2, TensValues
    <2>4. d.coefficient = (q * a) * step
      <3>1. j + (n - p) = k
        BY <1>2, <2>1, <2>2
      <3>2. Tens[k] = a * step
        BY <2>1, <2>3, <3>1, TensAdd
      <3>3. q * (a * step) = (q * a) * step
        BY <1>2
      <3> QED  BY <1>2, <3>2, <3>3
    <2>5. PICK m \in Nat \ {0} : m = q * a
      BY <1>2
    <2>6. HalfEven(d.coefficient, step) = m
      <3>1. d.coefficient \in Nat
        BY DEF Decimal
      <3> QED  BY <2>4, <2>5, <3>1, HalfEvenIs
    <2>7. m < Tens[p]
      <3>1. DigitCount(m) = DigitCount(q) + j
        BY <1>2, <2>3, <2>5, DigitCountShift
      <3>2. DigitCount(m) = p
        BY <1>1, <1>2, <1>3, <2>1, <2>2, <3>1
      <3> QED  BY <3>2, DigitCountIs DEF Numeral
    <2>8. RoundedTo(d, p) = [coefficient |-> m, exponent |-> d.exponent + (n - p)]
      <3>1. ~(n - p =< 0)
        BY <2>1
      <3> QED  BY <1>3, <2>3, <2>6, <2>7, <3>1 DEF RoundedTo
    <2>9. RoundedTo(d, p) \in Decimal /\ Parts(RoundedTo(d, p).coefficient, q, j)
      BY <1>2, <2>1, <2>2, <2>3, <2>5, <2>8 DEF Parts, Decimal
    <2>10. Stripped(RoundedTo(d, p))
             = [coefficient |-> q, exponent |-> RoundedTo(d, p).exponent + j]
      BY <2>9, StrippedIs
    <2>11. RoundedTo(d, p).exponent + j = d.exponent + k
      BY <1>2, <2>1, <2>2, <2>8
    <2> QED  BY <1>1, <2>10, <2>11
  <1> QED  BY <1>2, <1>3, <1>4, <1>5
-----------------------------------------------------------------------------
(* What fit_decimal accepts.                                               *)

\* Where the last digit and the first digit of a value may stand.
InBound(s) == /\ -s.exponent =< FractionDigits
              /\ s.exponent + DigitCount(s.coefficient) =< IntegerDigits

LEMMA FitIs ==
    ASSUME NEW d \in Decimal, NEW p \in Nat \ {0}, d.coefficient # 0
    PROVE  FitDecimal(d, p) <=> InBound(Stripped(RoundedTo(d, p)))
  <1>1. PICK r \in Decimal : r = RoundedTo(d, p) /\ r.coefficient # 0
    BY RoundedType
  <1>2. PICK q, k : /\ Parts(r.coefficient, q, k)
                    /\ Stripped(r) = [coefficient |-> q, exponent |-> r.exponent + k]
                    /\ DigitCount(q) \in Nat \ {0}
    BY <1>1, StrippedValue
  <1>3. PICK e \in Int : e = r.exponent + k
    BY <1>2 DEF Parts, Decimal
  <1>4. q # 0 /\ Normalized(d, p) = [coefficient |-> q, exponent |-> e]
    BY <1>1, <1>2, <1>3 DEF Parts, Normalized
  <1>5. FitDecimal(d, p) <=> /\ Max(0, -e) =< FractionDigits
                             /\ Max(1, e + DigitCount(q)) =< IntegerDigits
    BY <1>4 DEF FitDecimal
  <1>6. Stripped(RoundedTo(d, p)) = [coefficient |-> q, exponent |-> e]
    BY <1>1, <1>2, <1>3
  <1> QED  BY <1>2, <1>5, <1>6, DigitsAssumption DEF Max, InBound

LEMMA WithinIs ==
    ASSUME NEW d, d.coefficient # 0
    PROVE  WithinBound(d) <=> InBound(Stripped(d))
  BY DEF WithinBound, InBound

\* fit_decimal judges a value by the bound if the context holds its significant
\* digits, or else all integer digits of the bound beside its fraction digits:
\* then what is too long is too large, and so is what it is rounded to.
LEMMA Judged ==
    ASSUME NEW d \in Decimal, NEW p \in Nat \ {0}, d.coefficient # 0,
           \/ DigitCount(Stripped(d).coefficient) =< p
           \/ IntegerDigits - Stripped(d).exponent =< p
    PROVE  FitDecimal(d, p) <=> WithinBound(d)
  <1>1. CASE DigitCount(Stripped(d).coefficient) =< p
    <2>1. Stripped(RoundedTo(d, p)) = Stripped(d)
      BY <1>1, RoundedZeros
    <2> QED  BY <2>1, FitIs, WithinIs
  <1>2. CASE ~(DigitCount(Stripped(d).coefficient) =< p)
    <2>1. PICK q, k : /\ Parts(d.coefficient, q, k)
                      /\ Stripped(d) = [coefficient |-> q, exponent |-> d.exponent + k]
                      /\ DigitCount(d.coefficient) = DigitCount(q) + k
                      /\ DigitCount(q) \in Nat \ {0}
      BY StrippedValue
    <2>2. k \in Nat /\ d.exponent \in Int
      BY <2>1 DEF Parts, Decimal
    <2>3. PICK n \in Nat \ {0} : n = DigitCount(q)
      BY <2>1
    <2>4. p < n /\ IntegerDigits - (d.exponent + k) =< p
      BY <1>2, <2>1, <2>3
    <2>5. ~WithinBound(d)
      BY <2>1, <2>2, <2>3, <2>4, DigitsAssumption, WithinIs DEF InBound
    <2>6. PICK r \in Decimal : r = RoundedTo(d, p)
      BY RoundedType
    <2>7. /\ r.coefficient # 0 /\ DigitCount(r.coefficient) = p
          /\ d.exponent + (n + k) =< r.exponent + p
      BY <2>1, <2>2, <2>3, <2>4, <2>6, RoundedLong
    <2>8. PICK a, j : /\ Parts(r.coefficient, a, j)
                      /\ Stripped(r) = [coefficient |-> a, exponent |-> r.exponent + j]
                      /\ DigitCount(r.coefficient) = DigitCount(a) + j
                      /\ DigitCount(a) \in Nat \ {0}
      BY <2>7, StrippedValue
    <2>9. j \in Nat /\ r.exponent \in Int
      BY <2>8 DEF Parts, Decimal
    <2>10. ~InBound(Stripped(r))
      <3>1. (r.exponent + j) + DigitCount(a) = r.exponent + p
        BY <2>7, <2>8, <2>9
      <3>2. IntegerDigits < r.exponent + p
        BY <2>2, <2>4, <2>7, <2>9, DigitsAssumption
      <3> QED  BY <2>8, <2>9, <3>1, <3>2, DigitsAssumption DEF InBound
    <2> QED  BY <2>5, <2>6, <2>10, FitIs
  <1> QED  BY <1>1, <1>2

\* What a computation rounds before fit_decimal rounds it once more.
LEMMA FitRounded ==
    ASSUME NEW d \in Decimal, NEW p \in Nat \ {0}
    PROVE  FitDecimal(RoundedTo(d, p), p) <=> FitDecimal(d, p)
  <1>1. CASE d.coefficient = 0
    <2>1. DigitCount(d.coefficient) = 1
      <3>1. Numeral(0, 1)
        BY TensValues DEF Numeral
      <3> QED  BY <1>1, <3>1, DigitCountEqual
    <2>2. RoundedTo(d, p) = d
      BY <2>1, RoundedShort
    <2> QED  BY <2>2
  <1>2. CASE d.coefficient # 0
    <2>1. RoundedTo(d, p) \in Decimal /\ RoundedTo(d, p).coefficient # 0
      BY <1>2, RoundedType
    <2> QED  BY <1>2, <2>1, FitIs, RoundedTwice
  <1> QED  BY <1>1, <1>2
-----------------------------------------------------------------------------
(* Sums.                                                                   *)

LEMMA PlusIs ==
    ASSUME NEW a \in Decimal, NEW b \in Decimal
    PROVE  /\ Plus(a, b) \in Decimal
           /\ a.coefficient =< Plus(a, b).coefficient
  <1>1. PICK e \in Int : e = Min(a.exponent, b.exponent)
    BY DEF Min, Decimal
  <1>2. a.exponent - e \in Nat /\ b.exponent - e \in Nat
    BY <1>1 DEF Min, Decimal
  <1>3. PICK s \in Nat \ {0}, t \in Nat \ {0} :
           s = Tens[a.exponent - e] /\ t = Tens[b.exponent - e]
    BY <1>2, TensValues
  <1>4. PICK m \in Nat, n \in Nat : m = a.coefficient /\ n = b.coefficient
    BY DEF Decimal
  <1>5. Plus(a, b) = [coefficient |-> m * s + n * t, exponent |-> e]
    BY <1>1, <1>3, <1>4 DEF Plus, At
  <1>6. m =< m * s /\ m * s \in Nat /\ n * t \in Nat
    <2>1. 1 =< s
      OBVIOUS
    <2>2. 1 * m =< s * m
      BY <2>1, Numbers!Times, DigitsAssumption
    <2>3. s * m = m * s
      OBVIOUS
    <2> QED  BY <2>2, <2>3
  <1> QED  BY <1>4, <1>5, <1>6 DEF Decimal

\* A smaller number has no more digits.
LEMMA FewerDigits ==
    ASSUME NEW m \in Nat, NEW n \in Nat, m =< n
    PROVE  DigitCount(m) =< DigitCount(n)
  <1>1. PICK d \in Nat \ {0}, e \in Nat \ {0} : d = DigitCount(m) /\ e = DigitCount(n)
    BY DigitCountIs DEF Numeral
  <1>2. ASSUME e < d PROVE FALSE
    <2>1. d - 1 \in Nat /\ e =< d - 1 /\ d # 1
      BY <1>2
    <2>2. Tens[e] =< Tens[d - 1]
      BY <2>1, TensOrder
    <2>3. n < Tens[e] /\ Tens[d - 1] =< m
      BY <1>1, <2>1, DigitCountIs DEF Numeral
    <2>4. Tens[e] \in Nat /\ Tens[d - 1] \in Nat
      BY <2>1, TensValues
    <2> QED  BY <2>2, <2>3, <2>4
  <1> QED  BY <1>1, <1>2
-----------------------------------------------------------------------------
(* Products.                                                               *)

LEMMA TimesType ==
    ASSUME NEW a \in Decimal, NEW b \in Decimal
    PROVE  Times(a, b) \in Decimal
  <1>1. PICK m \in Nat, n \in Nat : m = a.coefficient /\ n = b.coefficient
    BY DEF Decimal
  <1>2. m * n \in Nat /\ a.exponent + b.exponent \in Int
    BY DEF Decimal
  <1> QED  BY <1>1, <1>2 DEF Times, Decimal

\* A product ends in no fewer zeros than its factors together.
LEMMA ProductZeros ==
    ASSUME NEW a \in Decimal, NEW b \in Decimal, a.coefficient # 0, b.coefficient # 0
    PROVE  /\ Times(a, b).coefficient # 0
           /\ Stripped(Times(a, b)).exponent \in Int
           /\ Stripped(a).exponent \in Int /\ Stripped(b).exponent \in Int
           /\ Stripped(a).exponent + Stripped(b).exponent =< Stripped(Times(a, b)).exponent
  <1>1. PICK q, k : /\ Parts(a.coefficient, q, k)
                    /\ Stripped(a) = [coefficient |-> q, exponent |-> a.exponent + k]
    BY StrippedValue
  <1>2. PICK r, l : /\ Parts(b.coefficient, r, l)
                    /\ Stripped(b) = [coefficient |-> r, exponent |-> b.exponent + l]
    BY StrippedValue
  <1>3. /\ q \in Nat \ {0} /\ k \in Nat /\ a.coefficient = q * Tens[k]
        /\ r \in Nat \ {0} /\ l \in Nat /\ b.coefficient = r * Tens[l]
        /\ a.exponent \in Int /\ b.exponent \in Int
    BY <1>1, <1>2 DEF Parts, Decimal
  <1>4. PICK n \in Nat \ {0} : n = q * r
    BY <1>3
  <1>5. PICK p : \E j : Parts(n, p, j)
    BY PartsExist
  <1>6. PICK j : Parts(n, p, j)
    BY <1>5
  <1>7. p \in Nat \ {0} /\ j \in Nat /\ p % 10 # 0 /\ n = p * Tens[j]
    BY <1>6 DEF Parts
  <1>8. PICK x \in Nat \ {0} : x = Tens[k]
    BY <1>3, TensValues
  <1>9. PICK y \in Nat \ {0} : y = Tens[l]
    BY <1>3, TensValues
  <1>10. PICK z \in Nat \ {0} : z = Tens[j]
    BY <1>7, TensValues
  <1>11. k + l \in Nat /\ Tens[k + l] = x * y
    BY <1>3, <1>8, <1>9, TensAdd
  <1>12. j + (k + l) \in Nat /\ Tens[j + (k + l)] = z * (x * y)
    <2>1. PICK m \in Nat : m = k + l
      BY <1>11
    <2>2. j + m \in Nat /\ Tens[j + m] = z * Tens[m]
      BY <1>7, <1>10, TensAdd
    <2> QED  BY <1>11, <2>1, <2>2
  <1>13. a.coefficient * b.coefficient = p * Tens[j + (k + l)]
    <2>1. PICK s \in Nat : s = x * y
      OBVIOUS
    <2>2. (q * x) * (r * y) = (q * r) * (x * y)
      BY <1>3
    <2>3. (p * z) * s = p * (z * s)
      BY <1>7
    <2>4. n = p * z
      BY <1>7, <1>10
    <2>5. a.coefficient = q * x /\ b.coefficient = r * y
      BY <1>3, <1>8, <1>9
    <2>6. a.coefficient * b.coefficient = (q * r) * s
      BY <2>1, <2>2, <2>5
    <2>7. a.coefficient * b.coefficient = (p * z) * s
      BY <1>4, <2>4, <2>6
    <2> QED  BY <1>12, <2>1, <2>3, <2>7
  <1>14. Parts(Times(a, b).coefficient, p, j + (k + l))
    BY <1>7, <1>12, <1>13 DEF Parts, Times
  <1>15. Stripped(Times(a, b)).exponent = (a.exponent + b.exponent) + (j + (k + l))
    <2>1. Stripped(Times(a, b)) = [coefficient |-> p,
                                   exponent |-> Times(a, b).exponent + (j + (k + l))]
      BY <1>14, TimesType, StrippedIs
    <2> QED  BY <2>1 DEF Times
  <1>16. Times(a, b).coefficient # 0
    <2>1. PICK t \in Nat \ {0} : t = Tens[j + (k + l)]
      BY <1>12, TensValues
    <2>2. p * t # 0
      BY <1>7
    <2> QED  BY <1>13, <2>1, <2>2 DEF Times
  <1> QED  BY <1>1, <1>2, <1>3, <1>7, <1>15, <1>16

\* The context of _multiply judges every product of two values that are within
\* the bound exactly as the bound does: its answer is never that of a rounding.
THEOREM ProductsJudged ==
    ASSUME NEW a \in Decimal, NEW b \in Decimal, a.coefficient # 0, b.coefficient # 0,
           WithinBound(a), WithinBound(b)
    PROVE  FitDecimal(RoundedTo(Times(a, b), WidePrecision), WidePrecision)
             <=> WithinBound(Times(a, b))
  <1>1. Times(a, b) \in Decimal /\ WidePrecision \in Nat \ {0}
    BY TimesType, DigitsAssumption
  <1>2. Times(a, b).coefficient # 0
    BY ProductZeros
  <1>3. -Stripped(a).exponent =< FractionDigits /\ -Stripped(b).exponent =< FractionDigits
    BY WithinIs DEF InBound
  <1>4. IntegerDigits - Stripped(Times(a, b)).exponent =< WidePrecision
    <2>1. PICK f \in Int, g \in Int, h \in Int :
             f = Stripped(a).exponent /\ g = Stripped(b).exponent
             /\ h = Stripped(Times(a, b)).exponent
      BY ProductZeros
    <2>2. f + g =< h
      BY <2>1, ProductZeros
    <2> QED  BY <1>3, <2>1, <2>2, DigitsAssumption
  <1>5. FitDecimal(Times(a, b), WidePrecision) <=> WithinBound(Times(a, b))
    BY <1>1, <1>2, <1>4, Judged
  <1> QED  BY <1>1, <1>5, FitRounded
-----------------------------------------------------------------------------
(* The computation.                                                        *)

\* Beside its types: the sum is exact as long as the exact sum is short, and
\* the last answer is fit_decimal's, in the context of what was judged.
Answered ==
    accepted <=> FitDecimal(judged, IF source = "product" THEN WidePrecision ELSE Precision)
SumExact == Short(exact) => sum = exact
IInv == TypeOK /\ Answered /\ SumExact

LEMMA ZeroShort ==
    Zero \in Decimal /\ DigitCount(Zero.coefficient) =< Precision /\ FitDecimal(Zero, Precision)
  <1>1. DigitCount(0) = 1
    <2>1. Numeral(0, 1)
      BY TensValues DEF Numeral
    <2> QED  BY <2>1, DigitCountEqual
  <1>2. Normalized(Zero, Precision) = Zero
    BY DEF Normalized, Zero
  <1>3. FitDecimal(Zero, Precision)
    BY <1>2, DigitsAssumption DEF FitDecimal, Zero, Max
  <1> QED  BY <1>1, <1>3, DigitsAssumption DEF Zero, Decimal

LEMMA InitInvariant == Init => IInv
  BY ZeroShort, CountAssumption DEF Init, IInv, TypeOK, Answered, SumExact

LEMMA InputInvariant ==
    ASSUME IInv, NEW d \in Inputs, Input(d)
    PROVE  IInv'
  <1>1. d \in Decimal
    BY InputAssumption
  <1>2. TypeOK'
    BY <1>1, ZeroShort, CountAssumption DEF Input, TypeOK, FitDecimal
  <1> QED  BY <1>2 DEF IInv, Input, Answered, SumExact

LEMMA QuantityInvariant ==
    ASSUME IInv, NEW d \in Totals, Quantity(d)
    PROVE  IInv'
  <1>1. d \in Decimal /\ sum \in Decimal /\ exact \in Decimal
    BY InputAssumption DEF IInv, TypeOK
  <1>2. PICK s \in Decimal : s = Plus(sum, d)
    BY <1>1, PlusIs
  <1>3. sum' = RoundedTo(s, Precision)
    BY <1>2 DEF Quantity, Added
  <1>4. sum' \in Decimal /\ DigitCount(sum'.coefficient) =< Precision
    BY <1>3, RoundedType, DigitsAssumption
  <1>5. TypeOK'
    <2>1. exact' \in Decimal
      BY <1>1, PlusIs DEF Quantity
    <2>2. count' \in 0 .. MaxAggregates
      BY CountAssumption DEF IInv, TypeOK, Quantity
    <2>3. judged' \in Decimal /\ accepted' \in BOOLEAN /\ source' = "quantity"
      BY <1>4 DEF Quantity, Judge, FitDecimal
    <2> QED  BY <1>4, <2>1, <2>2, <2>3 DEF TypeOK
  <1>6. Answered'
    <2>1. accepted' <=> FitDecimal(sum', Precision)
      BY <1>4, FitRounded, DigitsAssumption DEF Quantity, Judge
    <2> QED  BY <2>1 DEF Answered, Quantity, Judge
  <1>7. SumExact'
    <2>1. exact' = Plus(exact, d)
      BY DEF Quantity
    <2>2. SUFFICES ASSUME Short(exact') PROVE sum' = exact'
      BY DEF SumExact
    <2>3. /\ exact' \in Decimal
          /\ exact.coefficient =< exact'.coefficient
      BY <1>1, <2>1, PlusIs
    <2>4. DigitCount(exact.coefficient) =< DigitCount(exact'.coefficient)
      BY <1>1, <2>3, FewerDigits DEF Decimal
    <2>5. DigitCount(exact.coefficient) \in Nat /\ DigitCount(exact'.coefficient) \in Nat
      BY <1>1, <2>3, DigitCountIs DEF Decimal, Numeral
    <2>6. Short(exact)
      BY <2>2, <2>4, <2>5, DigitsAssumption DEF Short
    <2>7. s = exact'
      BY <1>2, <2>1, <2>6 DEF IInv, SumExact
    <2> QED  BY <1>3, <2>2, <2>7, RoundedShort, DigitsAssumption DEF Short
  <1> QED  BY <1>5, <1>6, <1>7 DEF IInv

LEMMA MultiplyInvariant ==
    ASSUME IInv, NEW price \in Prices, Multiply(price)
    PROVE  IInv'
  <1>1. price \in Decimal /\ sum \in Decimal
    BY InputAssumption DEF IInv, TypeOK
  <1>2. Times(sum, price) \in Decimal
    BY <1>1, TimesType
  <1>3. TypeOK'
    BY <1>2 DEF IInv, TypeOK, Multiply, Judge, FitDecimal
  <1>4. WidePrecision \in Nat \ {0}
    BY DigitsAssumption
  <1>5. Answered'
    <2>1. accepted' <=> FitDecimal(Times(sum, price), WidePrecision)
      BY <1>2, <1>4, FitRounded DEF Multiply, Judge
    <2> QED  BY <2>1 DEF Answered, Multiply, Judge
  <1>6. SumExact'
    BY DEF IInv, SumExact, Multiply, Short
  <1> QED  BY <1>3, <1>5, <1>6 DEF IInv

\* Every step keeps the invariant.
THEOREM Invariance == Spec => []IInv
  <1>1. IInv /\ [Next]_vars => IInv'
    <2> SUFFICES ASSUME IInv, [Next]_vars PROVE IInv'
      OBVIOUS
    <2>1. CASE \E d \in Inputs : Input(d)
      BY <2>1, InputInvariant
    <2>2. CASE \E d \in Totals : Quantity(d)
      BY <2>2, QuantityInvariant
    <2>3. CASE \E price \in Prices : Multiply(price)
      BY <2>3, MultiplyInvariant
    <2>4. CASE UNCHANGED vars
      BY <2>4 DEF vars, IInv, TypeOK, Answered, SumExact, Short
    <2> QED  BY <2>1, <2>2, <2>3, <2>4 DEF Next
  <1> QED  BY InitInvariant, <1>1, PTL DEF Spec

\* A sum of aggregates never has more digits than the context it is added in,
\* also when a carry runs through all of them.
THEOREM TypeCorrect == Spec => []TypeOK
  <1>1. IInv => TypeOK
    BY DEF IInv
  <1> QED  BY <1>1, Invariance, PTL

\* fit_decimal accepts exactly the values within the bound, wherever the
\* context can hold their significant digits, and _multiply's products of
\* factors within the fraction digits always: the 100 digits of _multiply lose
\* nothing that the bound of 58 and 18 digits would let through.
THEOREM ValuesJudged == Spec => []ShortValuesJudged
  <1>1. IInv => ShortValuesJudged
    <2> SUFFICES ASSUME IInv, judged.coefficient # 0,
                        Short(Stripped(judged)) \/ Released(judged)
                 PROVE  accepted <=> WithinBound(judged)
      BY DEF ShortValuesJudged
    <2>1. PICK q, k : /\ Parts(judged.coefficient, q, k)
                      /\ Stripped(judged) = [coefficient |-> q, exponent |-> judged.exponent + k]
                      /\ DigitCount(q) \in Nat \ {0}
      BY StrippedValue DEF IInv, TypeOK
    <2>2. judged.exponent + k \in Int
      BY <2>1 DEF IInv, TypeOK, Decimal, Parts
    <2>3. CASE source = "product"
      <3>1. \/ DigitCount(Stripped(judged).coefficient) =< WidePrecision
            \/ IntegerDigits - Stripped(judged).exponent =< WidePrecision
        BY <2>1, <2>2, DigitsAssumption DEF Short, Released
      <3>2. FitDecimal(judged, WidePrecision) <=> WithinBound(judged)
        BY <3>1, Judged, DigitsAssumption DEF IInv, TypeOK
      <3> QED  BY <2>3, <3>2 DEF IInv, Answered
    <2>4. CASE source # "product"
      <3>1. DigitCount(Stripped(judged).coefficient) =< Precision
        BY <2>4 DEF Short, Released
      <3>2. FitDecimal(judged, Precision) <=> WithinBound(judged)
        BY <3>1, Judged, DigitsAssumption DEF IInv, TypeOK
      <3> QED  BY <2>4, <3>2 DEF IInv, Answered
    <2> QED  BY <2>3, <2>4
  <1> QED  BY <1>1, Invariance, PTL

\* Usage's total is the exact sum of its aggregates whenever the numeral of that
\* sum at their least exponent, trailing zeros counted, is no longer than the
\* context: no digit is lost on the way, as no partial sum has a longer one.
THEOREM SumsExact == Spec => []ShortSumsExact
  <1>1. IInv => ShortSumsExact
    BY DEF IInv, SumExact, ShortSumsExact, SameValue
  <1> QED  BY <1>1, Invariance, PTL
=============================================================================

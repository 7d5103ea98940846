--------------------------- MODULE PipelineProofs --------------------------
(***************************************************************************)
(* Theorems about Quantize and Pipeline, for every value of their          *)
(* constants.                                                              *)
(***************************************************************************)
EXTENDS Pipeline, LoopProofs, FiniteSetTheorems

-----------------------------------------------------------------------------
(* Division, by any positive number.                                       *)

\* The quotient and the remainder of a division.
LEMMA DivMod ==
  ASSUME NEW a \in Int, NEW d \in Nat \ {0}
  PROVE  /\ a \div d \in Int /\ a % d \in 0 .. d - 1
         /\ a = d * (a \div d) + (a % d)
  BY SMT

\* The quotient as a bound, and what rounding down to a multiple returns.
LEMMA DivBounds ==
  ASSUME NEW a \in Int, NEW d \in Nat \ {0}
  PROVE  /\ a \div d \in Int /\ d * (a \div d) \in Int
         /\ a - (a % d) = d * (a \div d)
         /\ d * (a \div d) <= a /\ a < d * (a \div d) + d
  <1>1. PICK q \in Int, r \in 0 .. d - 1 :
          q = a \div d /\ r = a % d /\ a = d * q + r
    BY DivMod
  <1>2. PICK p \in Int : p = d * q
    BY SMT
  <1>3. a - r = p /\ p <= a /\ a < p + d
    BY <1>1, <1>2
  <1> QED
    BY <1>1, <1>2, <1>3

\* A multiple of d below another is below it by d at least.
LEMMA Multiples ==
  ASSUME NEW d \in Nat \ {0}, NEW p \in Int, NEW q \in Int, p < q
  PROVE  d * p + d <= d * q
  <1>1. d * (q - p - 1) >= 0
    BY SMT
  <1>2. d * (q - p - 1) = d * q - d * p - d
    BY SMT
  <1> QED
    BY <1>1, <1>2, SMT

\* There is one quotient and one remainder.
LEMMA DivUnique ==
  ASSUME NEW d \in Nat \ {0}, NEW q \in Int, NEW r \in 0 .. d - 1
  PROVE  (d * q + r) \div d = q /\ (d * q + r) % d = r
  <1> DEFINE a == d * q + r
  <1>1. a \in Int /\ d * q \in Int
    BY SMT
  <1>2. a \div d \in Int /\ a % d \in 0 .. d - 1 /\ a = d * (a \div d) + (a % d)
    BY <1>1, DivMod
  <1> DEFINE p == a \div d
  <1>3. ~(p < q)
    BY <1>1, <1>2, Multiples, SMT
  <1>4. ~(q < p)
    BY <1>1, <1>2, Multiples, SMT
  <1>5. p = q
    BY <1>2, <1>3, <1>4
  <1> QED
    BY <1>1, <1>2, <1>5

-----------------------------------------------------------------------------
(* What a pattern is worth.                                                *)

\* Up to every exponent there is a function that is defined as Ulp is.
LEMMA UlpUpTo ==
  ASSUME NEW n \in Nat
  PROVE  \E u \in [0 .. n -> Nat] :
           \A e \in 0 .. n : u[e] = IF e <= 1 THEN 1 ELSE 2 * u[e - 1]
  <1> DEFINE P(k) == \E u \in [0 .. k -> Nat] :
                        \A e \in 0 .. k : u[e] = IF e <= 1 THEN 1 ELSE 2 * u[e - 1]
             T == {k \in Nat : ~P(k)}
  <1>1. SUFFICES ASSUME T # {} PROVE FALSE
    OBVIOUS
  <1>2. PICK m \in T : \A t \in T : m <= t
    BY <1>1, Least, Zenon
  <1>3. m # 0
    <2>1. SUFFICES P(0)
      BY <1>2
    <2> DEFINE u == [e \in 0 .. 0 |-> 1]
    <2>2. u \in [0 .. 0 -> Nat]
      OBVIOUS
    <2>3. \A e \in 0 .. 0 : u[e] = IF e <= 1 THEN 1 ELSE 2 * u[e - 1]
      OBVIOUS
    <2> QED
      BY <2>2, <2>3
  <1>4. m - 1 \in Nat /\ P(m - 1)
    <2> HIDE DEF P
    <2>1. m \in Nat /\ m - 1 \in Nat /\ ~(m <= m - 1)
      BY <1>2, <1>3
    <2>2. m - 1 \notin T
      BY <1>2, <2>1
    <2> QED
      BY <2>1, <2>2
  <1>5. PICK v \in [0 .. m - 1 -> Nat] :
           \A e \in 0 .. m - 1 : v[e] = IF e <= 1 THEN 1 ELSE 2 * v[e - 1]
    BY <1>4
  <1> DEFINE u == [e \in 0 .. m |-> IF e < m THEN v[e] ELSE IF m <= 1 THEN 1 ELSE 2 * v[m - 1]]
  <1>6. u \in [0 .. m -> Nat]
    BY <1>4, <1>5
  <1>7. ASSUME NEW e \in 0 .. m
        PROVE  u[e] = IF e <= 1 THEN 1 ELSE 2 * u[e - 1]
    <2>1. e \in Nat /\ e <= m /\ m \in Nat
      BY <1>4
    <2>2. CASE e < m
      <3>1. e \in 0 .. m - 1 /\ u[e] = v[e]
        BY <2>1, <2>2
      <3>2. e > 1 => e - 1 \in 0 .. m /\ u[e - 1] = v[e - 1]
        BY <2>1, <2>2
      <3> QED
        BY <1>5, <3>1, <3>2
    <2>3. CASE e = m
      <3>1. u[e] = IF m <= 1 THEN 1 ELSE 2 * v[m - 1]
        BY <2>1, <2>3
      <3>2. m > 1 => e - 1 \in 0 .. m /\ u[e - 1] = v[m - 1]
        BY <2>1, <2>3
      <3> QED
        BY <2>3, <3>1, <3>2
    <2> QED
      BY <2>1, <2>2, <2>3
  <1>8. P(m)
    BY <1>6, <1>7
  <1> QED
    BY <1>2, <1>8

\* Ulp is the function its definition describes.
LEMMA UlpDefined ==
  Ulp = [e \in 0 .. Exponents |-> IF e <= 1 THEN 1 ELSE 2 * Ulp[e - 1]]
  <1>1. PICK u \in [0 .. Exponents -> Nat] :
           \A e \in 0 .. Exponents : u[e] = IF e <= 1 THEN 1 ELSE 2 * u[e - 1]
    BY UlpUpTo, QuantizeAssumption
  <1>2. u = [e \in 0 .. Exponents |-> IF e <= 1 THEN 1 ELSE 2 * u[e - 1]]
    BY <1>1
  <1> QED
    BY <1>2 DEF Ulp

\* The worth of the last bit is positive and doubles with the exponent.
LEMMA UlpGrows ==
  /\ \A e \in 0 .. Exponents : Ulp[e] \in Nat \ {0}
  /\ Ulp[0] = 1 /\ Ulp[1] = 1
  /\ \A e \in 1 .. Exponents - 1 : Ulp[e + 1] = 2 * Ulp[e]
  <1>1. \A e \in 0 .. Exponents : Ulp[e] = IF e <= 1 THEN 1 ELSE 2 * Ulp[e - 1]
    BY UlpDefined
  <1>2. Exponents \in Nat \ {0}
    BY QuantizeAssumption
  <1>3. \A e \in 0 .. Exponents : Ulp[e] \in Nat \ {0}
    <2> DEFINE T == {e \in 0 .. Exponents : Ulp[e] \notin Nat \ {0}}
    <2>1. SUFFICES ASSUME T # {} PROVE FALSE
      OBVIOUS
    <2>2. T \in SUBSET Nat
      BY <1>2
    <2>3. PICK m \in T : \A t \in T : m <= t
      BY <2>1, <2>2, Least, Zenon
    <2>4. m > 1 /\ m \in Nat
      BY <1>1, <1>2, <2>3
    <2>5. Ulp[m - 1] \in Nat \ {0} /\ Ulp[m] = 2 * Ulp[m - 1]
      BY <1>1, <1>2, <2>3, <2>4
    <2> QED
      BY <2>3, <2>5
  <1>4. \A e \in 1 .. Exponents - 1 : Ulp[e + 1] = 2 * Ulp[e]
    BY <1>1, <1>2
  <1> QED
    BY <1>1, <1>2, <1>3, <1>4

\* Between two exponents the worth at least doubles.
LEMMA UlpMonotone ==
  ASSUME NEW d \in 1 .. Exponents, NEW e \in 1 .. Exponents, d < e
  PROVE  2 * Ulp[d] <= Ulp[e]
  <1> DEFINE T == {k \in d + 1 .. Exponents : ~(2 * Ulp[d] <= Ulp[k])}
  <1>1. Exponents \in Nat
    BY QuantizeAssumption
  <1>2. SUFFICES ASSUME T # {} PROVE FALSE
    BY <1>1
  <1>3. T \in SUBSET Nat
    BY <1>1
  <1>4. PICK m \in T : \A t \in T : m <= t
    BY <1>2, <1>3, Least, Zenon
  <1>5. m \in Nat /\ m - 1 \in 1 .. Exponents - 1 /\ Ulp[m] = 2 * Ulp[m - 1]
    <2>1. m \in Nat /\ m - 1 \in 1 .. Exponents - 1
      BY <1>1, <1>4
    <2>2. (m - 1) + 1 = m
      BY <2>1
    <2> QED
      BY <2>1, <2>2, UlpGrows
  <1>6. Ulp[d] \in Nat /\ Ulp[m - 1] \in Nat
    BY <1>1, <1>5, UlpGrows
  <1>7. m # d + 1
    BY <1>4, <1>5, <1>6
  <1>8. 2 * Ulp[d] <= Ulp[m - 1]
    BY <1>1, <1>4, <1>5, <1>7
  <1> QED
    BY <1>4, <1>5, <1>6, <1>8

\* The widths of the fields as numbers: the mantissa field is a whole number
\* of coarse patterns.
LEMMA Widths ==
  \E k \in Nat \ {0} :
    /\ Half \in Nat \ {0} /\ Coarse = 2 * Half /\ Coarse \in Nat \ {0}
    /\ Mantissas \in Nat \ {0} /\ Mantissas = Coarse * k
    /\ Exponents \in Nat \ {0}
    /\ Infinity \in Nat \ {0} /\ Infinity = Mantissas * Exponents
    /\ SignBit \in Nat \ {0} /\ SignBit = Infinity + Mantissas
    /\ SignBit = Mantissas * (Exponents + 1)
  <1>1. PICK k \in 1 .. Mantissas : Mantissas = k * (2 * Half)
    BY QuantizeAssumption
  <1>2. Half \in Nat \ {0} /\ Exponents \in Nat \ {0}
    BY QuantizeAssumption
  <1>3. k \in Nat \ {0} /\ Coarse \in Nat \ {0} /\ Coarse = 2 * Half
    BY <1>1, <1>2 DEF Coarse
  <1>4. Mantissas = Coarse * k /\ Mantissas \in Nat \ {0}
    BY <1>1, <1>2, <1>3, SMT
  <1>5. Infinity \in Nat \ {0} /\ Infinity = Mantissas * Exponents
    BY <1>2, <1>4, SMT DEF Infinity
  <1>6. SignBit \in Nat \ {0} /\ SignBit = Mantissas * (Exponents + 1)
    BY <1>2, <1>4, <1>5, SMT DEF SignBit
  <1> QED
    BY <1>2, <1>3, <1>4, <1>5, <1>6 DEF SignBit

\* A pattern without its sign, put together from exponent and mantissa; the
\* finite ones are those below the reserved exponent.
LEMMA Fields ==
  ASSUME NEW e \in 0 .. Exponents, NEW f \in 0 .. Mantissas - 1
  PROVE  LET n == Mantissas * e + f
         IN  /\ n \in 0 .. SignBit - 1
             /\ n < Infinity <=> e < Exponents
             /\ n \div Mantissas = e /\ n % Mantissas = f /\ n % SignBit = n
             /\ Magnitude(n) = IF e = 0 THEN f ELSE (Mantissas + f) * Ulp[e]
  <1> DEFINE M == Mantissas
             n == M * e + f
  <1>1. /\ M \in Nat \ {0} /\ Exponents \in Nat \ {0}
        /\ Infinity \in Nat /\ Infinity = M * Exponents
        /\ SignBit \in Nat \ {0} /\ SignBit = Infinity + M
    BY Widths
  <1>2. e \in Nat /\ f \in Nat /\ e <= Exponents /\ f < M
    BY <1>1
  <1> HIDE DEF M
  <1>3. PICK p \in Int : p = M * e
    BY <1>1, <1>2, SMT
  <1>4. p >= 0
    BY <1>1, <1>2, <1>3, SMT
  <1>5. e < Exponents => p + M <= Infinity
    BY <1>1, <1>2, <1>3, Multiples
  <1>6. e = Exponents => p = Infinity
    BY <1>1, <1>3
  <1>7. n \in 0 .. SignBit - 1 /\ (n < Infinity <=> e < Exponents)
    BY <1>1, <1>2, <1>3, <1>4, <1>5, <1>6
  <1>8. n \div M = e /\ n % M = f
    BY <1>1, <1>2, DivUnique DEF M
  <1>9. n % SignBit = n
    <2>1. (SignBit * 0 + n) % SignBit = n
      BY <1>1, <1>7, DivUnique
    <2>2. SignBit * 0 + n = n
      BY <1>1, <1>7
    <2> QED
      BY <2>1, <2>2, Zenon
  <1>10. Magnitude(n) = IF e = 0 THEN f ELSE (M + f) * Ulp[e]
    <2> HIDE DEF n
    <2> QED
      BY <1>8, <1>9, Zenon DEF Magnitude, M
  <1> QED
    BY <1>7, <1>8, <1>9, <1>10 DEF M

\* Every pattern without its sign has those fields.
LEMMA FieldsOf ==
  ASSUME NEW n \in 0 .. SignBit - 1
  PROVE  \E e \in 0 .. Exponents, f \in 0 .. Mantissas - 1 :
            n = Mantissas * e + f
  <1>1. /\ Mantissas \in Nat \ {0} /\ Exponents \in Nat \ {0} /\ SignBit \in Nat \ {0}
        /\ SignBit = Mantissas * (Exponents + 1)
    BY Widths
  <1>2. n \in Int
    BY <1>1
  <1>3. PICK e \in Int, f \in 0 .. Mantissas - 1 : n = Mantissas * e + f
    BY <1>1, <1>2, DivMod
  <1>4. PICK p \in Int : p = Mantissas * e
    BY <1>1, SMT
  <1>5. e >= 0
    <2>1. SUFFICES ASSUME e < 0 PROVE FALSE
      OBVIOUS
    <2>2. Mantissas * e + Mantissas <= Mantissas * 0
      BY <1>1, <2>1, Multiples
    <2> QED
      BY <1>1, <1>3, <1>4, <2>2
  <1>6. e <= Exponents
    <2>1. SUFFICES ASSUME Exponents + 1 <= e PROVE FALSE
      BY <1>1
    <2>2. Mantissas * (Exponents + 1) <= Mantissas * e
      <3>1. CASE Exponents + 1 = e
        BY <3>1, <1>1, <1>4
      <3>2. CASE Exponents + 1 < e
        <4>1. Mantissas * (Exponents + 1) + Mantissas <= Mantissas * e
          BY <1>1, <3>2, Multiples
        <4> QED
          BY <1>1, <1>4, <4>1
      <3> QED
        BY <1>1, <2>1, <3>1, <3>2
    <2> QED
      BY <1>1, <1>2, <1>3, <1>4, <2>2
  <1> QED
    BY <1>1, <1>3, <1>5, <1>6

\* The sign does not count.
LEMMA MagnitudeUnsigned ==
  ASSUME NEW s \in Nat, NEW n \in 0 .. SignBit - 1
  PROVE  /\ (SignBit * s + n) \div SignBit = s /\ (SignBit * s + n) % SignBit = n
         /\ Magnitude(SignBit * s + n) = Magnitude(n)
  <1>1. /\ Mantissas \in Nat \ {0} /\ Exponents \in Nat \ {0} /\ SignBit \in Nat \ {0}
        /\ SignBit = Mantissas * (Exponents + 1)
    BY Widths
  <1>2. (SignBit * s + n) \div SignBit = s /\ (SignBit * s + n) % SignBit = n
    BY <1>1, DivUnique
  <1>3. PICK e \in 0 .. Exponents, f \in 0 .. Mantissas - 1 : n = Mantissas * e + f
    BY FieldsOf
  <1>4. n % Mantissas = f /\ n % SignBit = n
    BY <1>3, Fields
  <1>5. SignBit * s + n = Mantissas * ((Exponents + 1) * s + e) + f
    BY <1>1, <1>3, SMT
  <1>6. (Exponents + 1) * s + e \in Int
    BY <1>1, SMT
  <1>7. (SignBit * s + n) % Mantissas = f
    <2> DEFINE q == (Exponents + 1) * s + e
    <2>1. q \in Int
      BY <1>6
    <2> HIDE DEF q
    <2>2. (Mantissas * q + f) % Mantissas = f
      BY <1>1, <2>1, DivUnique
    <2> QED
      BY <1>5, <2>2, Zenon DEF q
  <1> QED
    BY <1>2, <1>4, <1>7, Zenon DEF Magnitude

\* Of two patterns without a sign the larger number is worth more.
LEMMA MagnitudeMonotone ==
  ASSUME NEW m \in 0 .. SignBit - 1, NEW n \in 0 .. SignBit - 1, m < n
  PROVE  /\ Magnitude(m) \in Nat /\ Magnitude(n) \in Nat
         /\ Magnitude(m) < Magnitude(n)
  <1>1. Mantissas \in Nat \ {0} /\ Exponents \in Nat \ {0}
    BY Widths
  <1>2. PICK d \in 0 .. Exponents, f \in 0 .. Mantissas - 1 : m = Mantissas * d + f
    BY FieldsOf
  <1>3. PICK e \in 0 .. Exponents, g \in 0 .. Mantissas - 1 : n = Mantissas * e + g
    BY FieldsOf
  <1>4. PICK x \in Nat \ {0}, y \in Nat \ {0} : x = Ulp[d] /\ y = Ulp[e]
    BY UlpGrows
  <1>5. Magnitude(m) = IF d = 0 THEN f ELSE (Mantissas + f) * x
    BY <1>2, <1>4, Fields
  <1>6. Magnitude(n) = IF e = 0 THEN g ELSE (Mantissas + g) * y
    BY <1>3, <1>4, Fields
  <1>7. /\ d \in Nat /\ e \in Nat /\ f \in Nat /\ g \in Nat
        /\ d <= Exponents /\ e <= Exponents /\ f < Mantissas /\ g < Mantissas
    BY <1>1
  <1>8. Magnitude(m) \in Nat /\ Magnitude(n) \in Nat
    BY <1>1, <1>4, <1>5, <1>6, <1>7, SMT
  <1>9. d <= e
    <2>1. SUFFICES ASSUME e < d PROVE FALSE
      BY <1>7
    <2>2. Mantissas * e + Mantissas <= Mantissas * d
      BY <1>1, <1>7, <2>1, Multiples
    <2>3. PICK p \in Int, q \in Int : p = Mantissas * d /\ q = Mantissas * e
      BY <1>1, <1>7, SMT
    <2> QED
      BY <1>1, <1>2, <1>3, <1>7, <2>2, <2>3
  <1>10. CASE d = e
    <2>1. f < g
      <3>1. PICK p \in Int : p = Mantissas * d
        BY <1>1, <1>7, SMT
      <3> QED
        BY <1>2, <1>3, <1>7, <1>10, <3>1
    <2>2. CASE d = 0
      BY <1>5, <1>6, <1>10, <2>1, <2>2
    <2>3. CASE d # 0
      <3>1. x * (Mantissas + f) < x * (Mantissas + g)
        <4>1. x * (Mantissas + f) + x <= x * (Mantissas + g)
          BY <1>1, <1>4, <1>7, <2>1, Multiples
        <4> QED
          BY <1>1, <1>4, <1>7, <4>1, SMT
      <3>2. x = y
        BY <1>4, <1>10
      <3> QED
        BY <1>1, <1>4, <1>5, <1>6, <1>7, <1>10, <2>3, <3>1, <3>2, SMT
    <2> QED
      BY <2>2, <2>3
  <1>11. CASE d < e
    <2>1. Mantissas * y <= Magnitude(n)
      BY <1>1, <1>4, <1>6, <1>7, <1>11, SMT
    <2>2. CASE d = 0
      <3>1. Mantissas <= Mantissas * y
        BY <1>1, <1>4, SMT
      <3> QED
        BY <1>1, <1>4, <1>5, <1>7, <1>8, <2>1, <2>2, <3>1, SMT
    <2>3. CASE d # 0
      <3>1. 2 * x <= y
        BY <1>4, <1>7, <1>11, <2>3, UlpMonotone
      <3>2. Mantissas * (2 * x) <= Mantissas * y
        BY <1>1, <1>4, <3>1, SMT
      <3>3. (Mantissas + f) * x < Mantissas * (2 * x)
        <4>1. x * (Mantissas + f) + x <= x * (Mantissas + Mantissas)
          BY <1>1, <1>4, <1>7, Multiples
        <4> QED
          BY <1>1, <1>4, <1>7, <4>1, SMT
      <3>4. PICK p \in Int, q \in Int : p = Mantissas * (2 * x) /\ q = Mantissas * y
        BY <1>1, <1>4, SMT
      <3> QED
        BY <1>5, <1>8, <2>1, <2>3, <3>2, <3>3, <3>4
    <2> QED
      BY <2>2, <2>3
  <1> QED
    BY <1>7, <1>8, <1>9, <1>10, <1>11

\* From one coarse pattern to the next the worth grows evenly: the next one is
\* worth as much as the last mantissa's successor, also where it belongs to
\* the next exponent.  A normal cell is far from zero, the last finite one
\* ends where the mantissas do.
LEMMA Cell ==
  ASSUME NEW B \in Nat, Coarse * B < Infinity
  PROVE  \E u \in Nat \ {0}, a \in Nat :
           /\ Coarse * B + Coarse <= Infinity
           /\ \A r \in 0 .. Coarse : Coarse * B + r < Infinity =>
                 Magnitude(Coarse * B + r) = a + r * u
           /\ \/ \A r \in 0 .. Coarse - 1 : a + r * u < Mantissas
              \/ /\ Mantissas * u <= a
                 /\ Coarse * B + Coarse = Infinity => a = (2 * Mantissas - Coarse) * u
  <1> DEFINE C == Coarse
             M == Mantissas
             n == C * B
  <1>1. PICK k \in Nat \ {0} :
          /\ C \in Nat \ {0} /\ M \in Nat \ {0} /\ M = C * k /\ Exponents \in Nat \ {0}
          /\ Infinity \in Nat \ {0} /\ Infinity = M * Exponents
          /\ SignBit \in Nat \ {0} /\ SignBit = Infinity + M
    BY Widths
  <1>2. PICK e \in Int, g \in 0 .. k - 1 : B = k * e + g
    <2>1. B \in Int
      OBVIOUS
    <2> QED
      BY <2>1, DivMod
  <1> DEFINE F == C * g
  <1>3. F \in Nat /\ F + C <= M
    <2>1. g \in Nat /\ g < k
      BY <1>1
    <2>2. C * g + C <= C * k
      BY <1>1, <2>1, Multiples
    <2>3. C * g \in Nat
      BY <1>1, <2>1, SMT
    <2> QED
      BY <1>1, <2>2, <2>3
  <1>4. n \in Nat /\ n = M * e + F
    BY <1>1, <1>2, SMT
  <1>5. e \in 0 .. Exponents - 1
    <2>1. n \in 0 .. SignBit - 1 /\ F \in 0 .. M - 1
      BY <1>1, <1>3, <1>4
    <2>2. PICK d \in 0 .. Exponents, f \in 0 .. M - 1 : n = M * d + f
      BY <2>1, FieldsOf
    <2>3. n \div M = d /\ (n < Infinity <=> d < Exponents)
      BY <2>2, Fields
    <2>4. (M * e + F) \div M = e
      BY <1>1, <2>1, DivUnique
    <2>5. d = e
      BY <1>4, <2>3, <2>4, Zenon
    <2> QED
      BY <1>1, <2>3, <2>5
  <1>6. PICK u \in Nat \ {0} : u = Ulp[e]
    BY <1>1, <1>5, UlpGrows
  <1> DEFINE a == IF e = 0 THEN F ELSE (M + F) * u
  <1>7. a \in Nat
    BY <1>1, <1>3, SMT
  <1>8. PICK p \in Nat : p = M * e
    BY <1>1, <1>5, SMT
  <1>9. p + M <= Infinity
    BY <1>1, <1>5, <1>8, Multiples
  <1> HIDE DEF C, M, F
  <1>10. n = p + F /\ n + C <= Infinity
    BY <1>1, <1>3, <1>4, <1>8, <1>9
  <1>11. ASSUME NEW r \in 0 .. C, F + r < M
         PROVE  Magnitude(n + r) = a + r * u
    <2>1. F + r \in 0 .. M - 1 /\ r \in Nat
      BY <1>1, <1>3, <1>11
    <2>2. Magnitude(M * e + (F + r)) = IF e = 0 THEN F + r ELSE (M + (F + r)) * u
      BY <1>1, <1>5, <1>6, <2>1, Fields DEF M
    <2>3. n + r = M * e + (F + r)
      BY <1>3, <1>8, <1>10, <2>1
    <2>4. e = 0 => u = 1
      BY <1>6, UlpGrows
    <2>5. (M + (F + r)) * u = (M + F) * u + r * u
      BY <1>1, <1>3, <2>1, SMT
    <2>6. e = 0 => F + r = F + r * u
      BY <1>3, <2>1, <2>4
    <2>7. Magnitude(n + r) = IF e = 0 THEN F + r ELSE (M + (F + r)) * u
      BY <2>2, <2>3, Zenon
    <2> QED
      BY <2>5, <2>6, <2>7
  <1>12. ASSUME n + C < Infinity, F + C = M
         PROVE  Magnitude(n + C) = a + C * u
    <2>1. n + C = M * (e + 1) + 0
      BY <1>1, <1>3, <1>4, <1>5, <1>12, SMT
    <2>2. e + 1 \in 0 .. Exponents /\ 0 \in 0 .. M - 1
      BY <1>1, <1>5
    <2>3. /\ n + C < Infinity <=> e + 1 < Exponents
          /\ Magnitude(n + C) = IF e + 1 = 0 THEN 0 ELSE (M + 0) * Ulp[e + 1]
      <3> DEFINE m == M * (e + 1) + 0
      <3>1. /\ m < Infinity <=> e + 1 < Exponents
            /\ Magnitude(m) = IF e + 1 = 0 THEN 0 ELSE (M + 0) * Ulp[e + 1]
        BY <2>2, Fields DEF M
      <3> QED
        BY <2>1, <3>1, Zenon
    <2>4. Magnitude(n + C) = M * Ulp[e + 1]
      BY <1>1, <1>5, <2>3
    <2>5. CASE e = 0
      <3>1. u = 1 /\ Ulp[e + 1] = 1
        BY <1>6, <2>5, UlpGrows
      <3> QED
        BY <1>1, <1>3, <1>12, <2>4, <2>5, <3>1
    <2>6. CASE e # 0
      <3>1. Ulp[e + 1] = 2 * u
        BY <1>1, <1>5, <1>6, <1>12, <2>3, <2>6, UlpGrows
      <3>2. M * (2 * u) = (M + F) * u + C * u
        BY <1>1, <1>3, <1>12, SMT
      <3> QED
        BY <2>4, <2>6, <3>1, <3>2
    <2> QED
      BY <2>5, <2>6
  <1>13. ASSUME NEW r \in 0 .. C, n + r < Infinity
         PROVE  Magnitude(n + r) = a + r * u
    <2>1. r \in Nat /\ r <= C /\ (r < C => F + r < M)
      BY <1>1, <1>3
    <2>2. CASE F + r < M
      BY <1>11, <2>2
    <2>3. CASE ~(F + r < M)
      <3>1. r = C /\ F + C = M
        BY <1>1, <1>3, <2>1, <2>3
      <3> QED
        BY <1>12, <1>13, <3>1
    <2> QED
      BY <2>2, <2>3
  <1>14. \/ \A r \in 0 .. C - 1 : a + r * u < M
         \/ /\ M * u <= a
            /\ n + C = Infinity => a = (2 * M - C) * u
    <2>1. CASE e = 0
      <3>1. u = 1 /\ a = F
        BY <1>6, <2>1, UlpGrows
      <3>2. \A r \in 0 .. C - 1 : a + r * u < M
        BY <1>1, <1>3, <3>1
      <3> QED
        BY <3>2
    <2>2. CASE e # 0
      <3>1. M * u <= a
        BY <1>1, <1>3, <2>2, SMT
      <3>2. ASSUME n + C = Infinity PROVE a = (2 * M - C) * u
        <4>1. F = M - C
          BY <1>1, <1>3, <1>8, <1>9, <1>10, <3>2
        <4>2. M + F = 2 * M - C
          BY <1>1, <4>1
        <4> QED
          BY <2>2, <4>2
      <3> QED
        BY <3>1, <3>2
    <2> QED
      BY <2>1, <2>2
  <1> HIDE DEF a
  <1> QED
    BY <1>7, <1>10, <1>13, <1>14 DEF C, M

-----------------------------------------------------------------------------
(* Rounding.                                                               *)

\* A finite pattern: its sign, its kept bits and those rounded away.
LEMMA Parts ==
  ASSUME NEW b \in Bits, IsFinite(b)
  PROVE  \E s \in {0, 1}, B \in Nat, r \in 0 .. Coarse - 1 :
           b = SignBit * s + (Coarse * B + r) /\ Coarse * B + r < Infinity
  <1>1. /\ Coarse \in Nat \ {0} /\ SignBit \in Nat \ {0} /\ Infinity \in Nat
    BY Widths
  <1>2. b \in Int /\ 0 <= b /\ b < SignBit * 2
    BY <1>1, SMT DEF Bits
  <1>3. PICK s \in Int, n \in 0 .. SignBit - 1 :
           s = b \div SignBit /\ n = b % SignBit /\ b = SignBit * s + n
    BY <1>1, <1>2, DivMod
  <1>4. PICK p \in Int : p = SignBit * s
    BY <1>1, SMT
  <1>5. s >= 0
    <2>1. SUFFICES ASSUME s < 0 PROVE FALSE
      OBVIOUS
    <2>2. SignBit * s + SignBit <= SignBit * 0
      BY <1>1, <2>1, Multiples
    <2> QED
      BY <1>1, <1>2, <1>3, <1>4, <2>2
  <1>6. s < 2
    <2>1. SUFFICES ASSUME 2 <= s PROVE FALSE
      OBVIOUS
    <2>2. SignBit * 2 <= SignBit * s
      BY <1>1, <2>1, SMT
    <2> QED
      BY <1>1, <1>2, <1>3, <1>4, <2>2
  <1>7. n < Infinity /\ n \in Int
    BY <1>1, <1>3 DEF IsFinite
  <1>8. PICK B \in Int, r \in 0 .. Coarse - 1 : n = Coarse * B + r
    <2>1. /\ n \div Coarse \in Int /\ n % Coarse \in 0 .. Coarse - 1
          /\ n = Coarse * (n \div Coarse) + (n % Coarse)
      BY <1>1, <1>7, DivMod
    <2> QED
      BY <2>1, Zenon
  <1>9. B >= 0
    <2>1. SUFFICES ASSUME B < 0 PROVE FALSE
      OBVIOUS
    <2>2. Coarse * B + Coarse <= Coarse * 0
      BY <1>1, <2>1, Multiples
    <2>3. PICK y \in Int : y = Coarse * B
      BY <1>1, SMT
    <2> QED
      BY <1>1, <1>3, <1>8, <2>2, <2>3
  <1>10. s \in {0, 1} /\ B \in Nat
    BY <1>5, <1>6, <1>9
  <1> QED
    BY <1>3, <1>7, <1>8, <1>10

\* Such parts make a pattern, which rounds down to its kept bits.
LEMMA OfParts ==
  ASSUME NEW s \in {0, 1}, NEW B \in Nat, NEW r \in 0 .. Coarse - 1,
         Coarse * B + r < SignBit
  PROVE  LET b == SignBit * s + (Coarse * B + r)
         IN  /\ b \in Bits
             /\ b \div SignBit = s /\ b % SignBit = Coarse * B + r
             /\ b % Coarse = r /\ b - r = Coarse * (b \div Coarse)
             /\ Magnitude(b) = Magnitude(Coarse * B + r)
             /\ RoundDown(b) = SignBit * s + Coarse * B
             /\ b \div Coarse \in Nat
  <1> DEFINE C == Coarse
             n == C * B + r
             b == SignBit * s + n
  <1>1. PICK k \in Nat \ {0} :
          /\ C \in Nat \ {0} /\ Mantissas = C * k /\ Exponents \in Nat \ {0}
          /\ SignBit \in Nat \ {0} /\ SignBit = Mantissas * (Exponents + 1)
    BY Widths
  <1>2. r \in Nat /\ r < C
    BY <1>1
  <1>3. n \in 0 .. SignBit - 1
    BY <1>1, <1>2, SMT
  <1>4. b \in Bits
    BY <1>1, <1>3, SMT DEF Bits
  <1>5. s \in Nat
    OBVIOUS
  <1>6. b \div SignBit = s /\ b % SignBit = n /\ Magnitude(b) = Magnitude(n)
    <2> HIDE DEF n
    <2> QED
      BY <1>3, <1>5, MagnitudeUnsigned
  <1> DEFINE Q == k * (Exponents + 1) * s + B
  <1>7. Q \in Nat
    BY <1>1, SMT
  <1>8. b = C * Q + r
    BY <1>1, <1>2, SMT
  <1> HIDE DEF C, b, Q
  <1>9. b \div C = Q /\ b % C = r
    <2>1. Q \in Int /\ r \in 0 .. C - 1
      BY <1>1, <1>2, <1>7
    <2>2. (C * Q + r) \div C = Q /\ (C * Q + r) % C = r
      BY <1>1, <2>1, DivUnique
    <2> QED
      BY <1>8, <2>2, Zenon
  <1>10. PICK y \in Int : y = C * Q
    BY <1>1, <1>7, SMT
  <1>11. b - r = C * Q
    BY <1>2, <1>8, <1>10
  <1>12. RoundDown(b) = SignBit * s + C * B
    <2>1. PICK x \in Int, z \in Int : x = SignBit * s /\ z = C * B
      BY <1>1, SMT
    <2> QED
      BY <1>2, <1>9, <2>1 DEF RoundDown, C, b
  <1> QED
    BY <1>4, <1>6, <1>7, <1>9, <1>11, <1>12 DEF C, b

\* What Quantize returns: the next kept pattern where the bits rounded away
\* are more than half, or half with an odd kept bit, and the next is finite;
\* the kept bits themselves otherwise.
LEMMA QuantizeCases ==
  ASSUME NEW s \in {0, 1}, NEW B \in Nat, NEW r \in 0 .. Coarse - 1,
         Coarse * B + r < Infinity
  PROVE  LET b  == SignBit * s + (Coarse * B + r)
             up == r + ((b \div Coarse) % 2) > Half
         IN  /\ up /\ Coarse * B + Coarse < Infinity
                  => Quantize(b) = SignBit * s + (Coarse * B + Coarse)
             /\ ~(up /\ Coarse * B + Coarse < Infinity)
                  => Quantize(b) = SignBit * s + Coarse * B
  <1> DEFINE C == Coarse
             n == C * B + r
             b == SignBit * s + n
             P == (b \div C) % 2
  <1>1. PICK k \in Nat \ {0} :
          /\ Half \in Nat \ {0} /\ C = 2 * Half /\ C \in Nat \ {0}
          /\ Mantissas \in Nat \ {0} /\ Mantissas = C * k
          /\ Infinity \in Nat \ {0}
          /\ SignBit \in Nat \ {0} /\ SignBit = Infinity + Mantissas
    BY Widths
  <1>2. C <= Mantissas
    BY <1>1, SMT
  <1>3. n < SignBit
    BY <1>1
  <1>4. /\ b \in Bits /\ b \div C \in Nat /\ b % SignBit = n
        /\ RoundDown(b) = SignBit * s + C * B
    BY <1>3, OfParts
  <1>5. P \in {0, 1}
    BY <1>4
  <1>6. IsFinite(b)
    BY <1>4 DEF IsFinite
  <1>7. PICK x \in Nat, y \in Nat : x = SignBit * s /\ y = C * B
    BY <1>1, SMT
  <1>8. x = 0 \/ x = SignBit
    BY <1>1, <1>7
  <1>9. y + C <= Infinity
    <2>1. y < Infinity
      BY <1>1, <1>7
    <2> QED
      BY <1>7, <2>1, Cell
  <1> DEFINE z == b + Bias(b)
             v == r + Half - 1 + P
  <1>10. r \in Nat /\ r < C
    BY <1>1
  <1> HIDE DEF P
  <1>11. z = x + (y + v)
    BY <1>1, <1>5, <1>7, <1>10 DEF Bias, P
  <1>12. v \in Nat /\ v < C + Half /\ y + v < SignBit
    BY <1>1, <1>2, <1>5, <1>9, <1>10
  <1>13. z % (2 * SignBit) = z
    <2>1. z \in 0 .. 2 * SignBit - 1 /\ 2 * SignBit \in Nat \ {0}
      BY <1>1, <1>7, <1>8, <1>11, <1>12
    <2> HIDE DEF z
    <2>2. (2 * SignBit * 0 + z) % (2 * SignBit) = z
      BY <2>1, DivUnique
    <2>3. 2 * SignBit * 0 + z = z
      BY <1>1, <2>1
    <2> QED
      BY <2>2, <2>3, Zenon
  <1>14. CASE ~(r + P > Half)
    <2>1. v \in 0 .. C - 1 /\ C * B + v < SignBit
      BY <1>1, <1>5, <1>7, <1>10, <1>12, <1>14
    <2>2. z = SignBit * s + (C * B + v)
      BY <1>7, <1>11
    <2>3. RoundDown(SignBit * s + (C * B + v)) = SignBit * s + C * B
      BY <2>1, OfParts
    <2>4. RoundDown(z) = RoundDown(b)
      BY <1>4, <2>2, <2>3, Zenon
    <2>5. Quantize(b) = RoundDown(b)
      <3> HIDE DEF b, z
      <3> QED
        BY <1>6, <1>13, <2>4 DEF Quantize, z
    <2> QED
      BY <1>4, <1>14, <2>5 DEF P
  <1>15. CASE r + P > Half
    <2> DEFINE w == v - C
    <2>1. w \in 0 .. C - 1 /\ B + 1 \in Nat
      BY <1>1, <1>5, <1>10, <1>12, <1>15
    <2>2. C * (B + 1) = y + C
      BY <1>1, <1>7, SMT
    <2>3. z = SignBit * s + (C * (B + 1) + w)
      BY <1>1, <1>7, <1>11, <1>12, <2>2
    <2>4. C * (B + 1) + w < SignBit
      BY <1>1, <1>12, <2>2
    <2>5. RoundDown(SignBit * s + (C * (B + 1) + w)) = SignBit * s + C * (B + 1)
      <3> HIDE DEF w
      <3> QED
        BY <2>1, <2>4, OfParts
    <2>6. RoundDown(z) = SignBit * s + C * (B + 1)
      BY <2>3, <2>5, Zenon
    <2>7. (SignBit * s + C * (B + 1)) % SignBit = C * (B + 1)
      <3>1. C * (B + 1) \in 0 .. SignBit - 1 /\ s \in Int
        BY <1>1, <1>9, <2>2
      <3> QED
        BY <1>1, <3>1, DivUnique
    <2>8. IsFinite(RoundDown(z)) <=> C * B + C < Infinity
      <3>1. RoundDown(z) % SignBit = y + C
        BY <2>2, <2>6, <2>7, Zenon
      <3> QED
        BY <1>7, <3>1 DEF IsFinite
    <2>9. Quantize(b) = IF IsFinite(RoundDown(z)) THEN RoundDown(z) ELSE RoundDown(b)
      <3> HIDE DEF b, z
      <3> QED
        BY <1>6, <1>13 DEF Quantize, z
    <2>10. RoundDown(z) = SignBit * s + (C * B + C)
      BY <1>7, <2>2, <2>6, Zenon
    <2> QED
      BY <1>4, <1>15, <2>8, <2>9, <2>10 DEF P
  <1> QED
    BY <1>14, <1>15 DEF P

\* A finite pattern of the kept precision has no bits to round away.
LEMMA KeptForm ==
  ASSUME NEW c \in Bits, IsFinite(c), c % Coarse = 0
  PROVE  \E N \in Nat : /\ Coarse * N < Infinity
                        /\ c = SignBit * (c \div SignBit) + Coarse * N
                        /\ Magnitude(c) = Magnitude(Coarse * N)
  <1>1. Coarse \in Nat \ {0} /\ SignBit \in Nat /\ Infinity < SignBit /\ Infinity \in Nat
    BY Widths
  <1>2. PICK s \in {0, 1}, N \in Nat, r \in 0 .. Coarse - 1 :
           c = SignBit * s + (Coarse * N + r) /\ Coarse * N + r < Infinity
    BY Parts
  <1>3. PICK y \in Int : y = Coarse * N
    BY <1>1, SMT
  <1>4. Coarse * N + r < SignBit
    BY <1>1, <1>2, <1>3
  <1>5. c % Coarse = r /\ c \div SignBit = s /\ Magnitude(c) = Magnitude(Coarse * N + r)
    <2> DEFINE d == SignBit * s + (Coarse * N + r)
    <2>1. d % Coarse = r /\ d \div SignBit = s /\ Magnitude(d) = Magnitude(Coarse * N + r)
      BY <1>4, OfParts
    <2> QED
      BY <1>2, <2>1, Zenon
  <1>6. r = 0 /\ Coarse * N + r = Coarse * N
    BY <1>3, <1>5
  <1> QED
    BY <1>2, <1>5, <1>6, Zenon

\* A kept pattern put together from its sign and its kept bits.
LEMMA KeptPattern ==
  ASSUME NEW s \in {0, 1}, NEW N \in Nat, Coarse * N < Infinity
  PROVE  LET c == SignBit * s + Coarse * N
         IN  /\ c \in Bits /\ IsFinite(c) /\ c % Coarse = 0 /\ c \div SignBit = s
             /\ c = Coarse * (c \div Coarse) /\ c \div Coarse \in Nat
             /\ Magnitude(c) = Magnitude(Coarse * N)
  <1>1. Coarse \in Nat \ {0} /\ SignBit \in Nat /\ Infinity < SignBit /\ Infinity \in Nat
    BY Widths
  <1>2. PICK y \in Nat, x \in Nat : y = Coarse * N /\ x = SignBit * s
    BY <1>1, SMT
  <1>3. 0 \in 0 .. Coarse - 1 /\ Coarse * N + 0 < SignBit /\ Coarse * N + 0 = Coarse * N
    BY <1>1, <1>2
  <1> DEFINE c == SignBit * s + Coarse * N
  <1>4. /\ c \in Bits /\ c % SignBit = Coarse * N /\ c % Coarse = 0
        /\ c \div SignBit = s /\ c - 0 = Coarse * (c \div Coarse)
        /\ Magnitude(c) = Magnitude(Coarse * N) /\ c \div Coarse \in Nat
    <2> DEFINE d == SignBit * s + (Coarse * N + 0)
    <2>1. d = c
      BY <1>3, Zenon
    <2>2. /\ d \in Bits /\ d % SignBit = Coarse * N + 0 /\ d % Coarse = 0
          /\ d \div SignBit = s /\ d - 0 = Coarse * (d \div Coarse)
          /\ Magnitude(d) = Magnitude(Coarse * N + 0) /\ d \div Coarse \in Nat
      BY <1>3, OfParts
    <2> QED
      BY <1>3, <2>1, <2>2, Zenon
  <1>5. c = Coarse * (c \div Coarse)
    BY <1>2, <1>4
  <1>6. IsFinite(c)
    BY <1>4 DEF IsFinite
  <1> QED
    BY <1>4, <1>5, <1>6

\* The kept patterns around a value, in order of what they are worth.
LEMMA KeptOrder ==
  ASSUME NEW B \in Nat, NEW N \in Nat, B < N, Coarse * N < Infinity
  PROVE  /\ Coarse * B < Infinity /\ Coarse * B + Coarse <= Coarse * N
         /\ Magnitude(Coarse * B) \in Nat /\ Magnitude(Coarse * N) \in Nat
         /\ Magnitude(Coarse * B) < Magnitude(Coarse * N)
         /\ Magnitude(Coarse * B + Coarse) <= Magnitude(Coarse * N)
         /\ N # B + 1 => Magnitude(Coarse * B + Coarse) < Magnitude(Coarse * N)
         /\ Magnitude(Coarse * B + Coarse) \in Nat
  <1>1. Coarse \in Nat \ {0} /\ SignBit \in Nat /\ Infinity < SignBit /\ Infinity \in Nat
    BY Widths
  <1>2. PICK x \in Nat, y \in Nat : x = Coarse * B /\ y = Coarse * N
    BY <1>1, SMT
  <1>3. x + Coarse <= y
    BY <1>1, <1>2, Multiples
  <1>4. x < Infinity /\ y < Infinity /\ x \in 0 .. SignBit - 1 /\ y \in 0 .. SignBit - 1
        /\ x + Coarse \in 0 .. SignBit - 1
    BY <1>1, <1>2, <1>3
  <1>5. x < y
    BY <1>1, <1>3
  <1>6. Magnitude(x) \in Nat /\ Magnitude(y) \in Nat /\ Magnitude(x) < Magnitude(y)
    BY <1>4, <1>5, MagnitudeMonotone
  <1>7. N # B + 1 => x + Coarse < y
    <2>1. SUFFICES ASSUME B + 1 < N PROVE x + Coarse < y
      OBVIOUS
    <2>2. Coarse * (B + 1) + Coarse <= y
      BY <1>1, <1>2, <2>1, Multiples
    <2>3. Coarse * (B + 1) = x + Coarse
      BY <1>1, <1>2, SMT
    <2> QED
      BY <1>1, <2>2, <2>3
  <1>8. x + Coarse < y => /\ Magnitude(x + Coarse) \in Nat
                          /\ Magnitude(x + Coarse) < Magnitude(y)
    BY <1>4, MagnitudeMonotone
  <1>9. x + Coarse = y \/ x + Coarse < y
    BY <1>1, <1>3
  <1>10. /\ Magnitude(x + Coarse) \in Nat
         /\ Magnitude(x + Coarse) <= Magnitude(y)
         /\ N # B + 1 => Magnitude(x + Coarse) < Magnitude(y)
    <2>1. CASE x + Coarse = y
      <3>1. N = B + 1
        BY <1>1, <1>2, <1>7, <2>1
      <3> QED
        BY <1>6, <2>1, <3>1
    <2>2. CASE x + Coarse < y
      BY <1>6, <1>8, <2>2
    <2> QED
      BY <1>9, <2>1, <2>2
  <1> QED
    BY <1>2, <1>3, <1>4, <1>6, <1>10, Zenon

\* What Quantize returns is what the comments of storage.rs promise, for every
\* width of the fields: the kept pattern nearest to the reading, of two
\* equally near the even one, and within one part in 2^(kept + 1) of a normal
\* reading (storage.rs:51-61, 71-100).
THEOREM QuantizeRounds == \A b \in Bits : Rounds(b, Quantize(b))
  <1> SUFFICES ASSUME NEW b \in Bits PROVE Rounds(b, Quantize(b))
    OBVIOUS
  <1>1. CASE ~IsFinite(b)
    BY <1>1 DEF Rounds, Quantize
  <1>2. CASE IsFinite(b)
    <2> DEFINE C == Coarse
               M == Mantissas
               q == Quantize(b)
               Kept == {c \in Bits : /\ IsFinite(c)
                                     /\ c % Coarse = 0
                                     /\ c \div SignBit = b \div SignBit}
    <2>1. PICK k \in Nat \ {0} :
            /\ Half \in Nat \ {0} /\ C = 2 * Half /\ C \in Nat \ {0}
            /\ M \in Nat \ {0} /\ M = C * k
            /\ SignBit \in Nat \ {0} /\ Infinity \in Nat \ {0} /\ SignBit = Infinity + M
      BY Widths
    <2>2. PICK s \in {0, 1}, B \in Nat, r \in 0 .. C - 1 :
             b = SignBit * s + (C * B + r) /\ C * B + r < Infinity
      BY <1>2, Parts
    <2>3. PICK y \in Nat, x \in Nat : y = C * B /\ x = SignBit * s
      BY <2>1, SMT
    <2>4. r \in Nat /\ r < C /\ y < Infinity /\ y + r < SignBit /\ Infinity < SignBit
      BY <2>1, <2>2, <2>3
    <2>5. PICK u \in Nat \ {0}, a \in Nat :
             /\ y + C <= Infinity
             /\ \A t \in 0 .. C : y + t < Infinity => Magnitude(y + t) = a + t * u
             /\ \/ \A t \in 0 .. C - 1 : a + t * u < M
                \/ /\ M * u <= a
                   /\ y + C = Infinity => a = (2 * M - C) * u
      <3>1. \E u \in Nat \ {0}, a \in Nat :
             /\ C * B + C <= Infinity
             /\ \A t \in 0 .. C : C * B + t < Infinity => Magnitude(C * B + t) = a + t * u
             /\ \/ \A t \in 0 .. C - 1 : a + t * u < M
                \/ /\ M * u <= a
                   /\ C * B + C = Infinity => a = (2 * M - C) * u
        BY <2>3, <2>4, Cell, Zenon
      <3> QED
        BY <2>3, <3>1, Zenon
    <2> DEFINE P == (b \div C) % 2
               up == r + P > Half /\ y + C < Infinity
    <2>6. /\ b \div SignBit = s /\ b - r = C * (b \div C)
          /\ Magnitude(b) = Magnitude(y + r)
          /\ b \div C \in Nat
      <3> DEFINE d == SignBit * s + (C * B + r)
      <3>1. /\ d \div SignBit = s /\ d - r = C * (d \div C)
            /\ Magnitude(d) = Magnitude(C * B + r) /\ d \div C \in Nat
        BY <2>3, <2>4, OfParts
      <3> QED
        BY <2>2, <2>3, <3>1, Zenon
    <2>7. P \in {0, 1}
      BY <2>6
    <2>8. /\ up => q = x + (y + C)
          /\ ~up => q = x + y
      <3> DEFINE d == SignBit * s + (C * B + r)
      <3>1. /\ r + ((d \div C) % 2) > Half /\ C * B + C < Infinity
                 => Quantize(d) = SignBit * s + (C * B + C)
            /\ ~(r + ((d \div C) % 2) > Half /\ C * B + C < Infinity)
                 => Quantize(d) = SignBit * s + C * B
        BY <2>2, QuantizeCases
      <3> QED
        BY <2>2, <2>3, <3>1, Zenon
    <2>9. PICK v \in Nat, w \in Nat \ {0} :
             v = r * u /\ w = C * u /\ v < w
             /\ (r < Half <=> 2 * v < w) /\ (r = Half <=> 2 * v = w)
      <3>1. r * u \in Nat /\ C * u \in Nat \ {0} /\ r * u < C * u
        BY <2>1, <2>4, SMT
      <3>2. C * u = 2 * (Half * u) /\ Half * u \in Nat
        BY <2>1, SMT
      <3>3. (r < Half => r * u < Half * u) /\ (r > Half => r * u > Half * u)
        BY <2>1, <2>4, SMT
      <3> QED
        BY <2>1, <2>4, <3>1, <3>2, <3>3
    <2>10. /\ Magnitude(b) = a + v /\ Magnitude(y) = a
           /\ y + C < Infinity => Magnitude(y + C) = a + w
      <3>1. r \in 0 .. C /\ 0 \in 0 .. C /\ C \in 0 .. C /\ y + r < Infinity
        BY <2>1, <2>2, <2>3, <2>4
      <3>2. Magnitude(y + r) = a + r * u /\ Magnitude(y + 0) = a + 0 * u
            /\ (y + C < Infinity => Magnitude(y + C) = a + C * u)
        BY <2>3, <2>4, <2>5, <3>1
      <3>3. y + 0 = y /\ a + 0 * u = a
        BY SMT
      <3> QED
        BY <2>6, <2>9, <3>2, <3>3, Zenon
    <2> HIDE DEF C, M
    <2>11. /\ q \in Kept
           /\ up => /\ Magnitude(q) = a + w /\ q = b - r + C
           /\ ~up => /\ Magnitude(q) = a /\ q = b - r
      <3>1. CASE up
        <4>1. C * (B + 1) = y + C /\ B + 1 \in Nat
          BY <2>1, <2>3, SMT
        <4>2. C * (B + 1) < Infinity
          BY <3>1, <4>1
        <4> DEFINE d == SignBit * s + C * (B + 1)
        <4>3. /\ d \in Bits /\ IsFinite(d) /\ d % C = 0 /\ d \div SignBit = s
              /\ Magnitude(d) = Magnitude(C * (B + 1))
          BY <4>1, <4>2, KeptPattern DEF C
        <4>4. q = d
          BY <2>3, <2>8, <3>1, <4>1, Zenon
        <4>5. /\ q \in Bits /\ IsFinite(q) /\ q % C = 0 /\ q \div SignBit = s
              /\ Magnitude(q) = Magnitude(y + C)
          BY <4>1, <4>3, <4>4, Zenon
        <4>6. q = b - r + C
          BY <2>1, <2>2, <2>3, <2>4, <2>8, <3>1
        <4> HIDE DEF q
        <4> QED
          BY <2>6, <2>10, <3>1, <4>5, <4>6 DEF C
      <3>2. CASE ~up
        <4> DEFINE d == SignBit * s + C * B
        <4>1. /\ d \in Bits /\ IsFinite(d) /\ d % C = 0 /\ d \div SignBit = s
              /\ Magnitude(d) = Magnitude(C * B)
          BY <2>3, <2>4, KeptPattern DEF C
        <4>2. q = d
          BY <2>3, <2>8, <3>2, Zenon
        <4>3. /\ q \in Bits /\ IsFinite(q) /\ q % C = 0 /\ q \div SignBit = s
              /\ Magnitude(q) = Magnitude(y)
          BY <2>3, <4>1, <4>2, Zenon
        <4>4. q = b - r
          BY <2>1, <2>2, <2>3, <2>4, <2>8, <3>2
        <4> HIDE DEF q
        <4> QED
          BY <2>6, <2>10, <3>2, <4>3, <4>4 DEF C
      <3> QED
        BY <3>1, <3>2
    <2>12. ~up => (q \div C) % 2 = P
      <3>1. SUFFICES ASSUME ~up PROVE q \div C = b \div C
        BY Zenon
      <3>2. q = C * (b \div C) + 0
        BY <2>1, <2>4, <2>6, <2>11, <3>1, SMT
      <3> DEFINE e == b \div C
      <3>3. e \in Int
        BY <2>6
      <3> HIDE DEF e
      <3>4. (C * e + 0) \div C = e
        BY <2>1, <3>3, DivUnique
      <3> QED
        BY <3>2, <3>4, Zenon DEF e
    <2>13. up => (q \div C) % 2 = 1 - P
      <3>1. SUFFICES ASSUME up PROVE q \div C = (b \div C) + 1
        BY <2>6
      <3> DEFINE e == (b \div C) + 1
      <3>2. e \in Int /\ q = C * e + 0
        BY <2>1, <2>4, <2>6, <2>11, <3>1, SMT
      <3> HIDE DEF e
      <3>3. (C * e + 0) \div C = e
        BY <2>1, <3>2, DivUnique
      <3> QED
        BY <3>2, <3>3, Zenon DEF e
    <2> HIDE DEF q, P
    <2>14. Distance(b, q) = IF up THEN w - v ELSE v
      <3>1. CASE up
        BY <2>9, <2>10, <2>11, <3>1 DEF Distance
      <3>2. CASE ~up
        BY <2>9, <2>10, <2>11, <3>2 DEF Distance
      <3> QED
        BY <3>1, <3>2
    <2>15. ASSUME NEW c \in Kept \ {q}
           PROVE  \/ Distance(b, q) < Distance(b, c)
                  \/ Distance(b, q) = Distance(b, c) /\ (q \div Coarse) % 2 = 0
      <3>1. PICK N \in Nat : /\ C * N < Infinity
                             /\ c = SignBit * (c \div SignBit) + C * N
                             /\ Magnitude(c) = Magnitude(C * N)
        BY KeptForm DEF C
      <3>2. c = x + C * N
        BY <2>3, <2>6, <3>1
      <3>3. PICK z \in Nat : z = Magnitude(c)
        <4>1. CASE N = 0
          <5>1. C * N = C * 0 /\ C * 0 = 0 /\ C * 1 = C /\ 0 < SignBit
            BY <2>1, <4>1
          <5>2. 0 \in 0 .. SignBit - 1 /\ SignBit - 1 \in 0 .. SignBit - 1 /\ 0 < SignBit - 1
            BY <2>1
          <5> QED
            BY <3>1, <5>1, <5>2, MagnitudeMonotone
        <4>2. CASE N # 0
          BY <3>1, <4>2, KeptOrder DEF C
        <4> QED
          BY <4>1, <4>2
      <3>4. CASE N < B
        <4>1. z < a
          BY <2>3, <2>4, <2>10, <3>1, <3>3, <3>4, KeptOrder DEF C
        <4>2. Distance(b, c) = a + v - z
          BY <2>9, <2>10, <3>3, <4>1 DEF Distance
        <4>3. up => 2 * v >= w
          BY <2>7, <2>9, <2>4, <2>1
        <4> QED
          BY <2>9, <2>14, <4>1, <4>2, <4>3
      <3>5. CASE N = B
        <4>1. up
          BY <2>3, <2>8, <3>2, <3>5
        <4>2. z = a
          BY <2>3, <2>10, <3>1, <3>3, <3>5, Zenon
        <4>3. Distance(b, c) = v
          BY <2>9, <2>10, <3>3, <4>2 DEF Distance
        <4>4. 2 * v > w \/ (2 * v = w /\ P = 1)
          BY <2>1, <2>4, <2>7, <2>9, <4>1
        <4> QED
          BY <2>9, <2>13, <2>14, <4>1, <4>3, <4>4 DEF C
      <3>6. CASE N > B
        <4>1. /\ y + C < Infinity /\ a + w <= z
              /\ N # B + 1 => a + w < z
          <5>1. /\ y + C <= C * N
                /\ Magnitude(y + C) <= z
                /\ N # B + 1 => Magnitude(y + C) < z
            BY <2>3, <3>1, <3>3, <3>6, KeptOrder DEF C
          <5>2. y + C < Infinity
            <6>1. PICK o \in Int : o = C * N
              BY <2>1, SMT
            <6> QED
              BY <2>1, <3>1, <5>1, <6>1
          <5> QED
            BY <2>10, <5>1, <5>2
        <4>2. Distance(b, c) = z - a - v
          BY <2>9, <2>10, <3>3, <4>1 DEF Distance
        <4>3. CASE up
          <5>1. N # B + 1
            <6>1. SUFFICES ASSUME N = B + 1 PROVE FALSE
              OBVIOUS
            <6>2. C * N = y + C
              BY <2>1, <2>3, <6>1, SMT
            <6>3. c = q
              BY <2>8, <3>2, <4>3, <6>2
            <6> QED
              BY <6>3
          <5> QED
            BY <2>9, <2>14, <3>3, <4>1, <4>2, <4>3, <5>1
        <4>4. CASE ~up
          <5>1. 2 * v < w \/ (2 * v = w /\ P = 0)
            BY <2>1, <2>4, <2>7, <2>9, <4>1, <4>4
          <5> QED
            BY <2>9, <2>12, <2>14, <3>3, <4>1, <4>2, <4>4, <5>1 DEF C
        <4> QED
          BY <4>3, <4>4
      <3> QED
        BY <3>4, <3>5, <3>6
    <2>16. ASSUME Magnitude(b) >= M
           PROVE  Distance(b, q) * ((2 * M) \div C) <= Magnitude(b)
      <3>1. (2 * M) \div C = 2 * k
        <4>1. 2 * M = C * (2 * k) + 0 /\ 2 * k \in Int
          BY <2>1, SMT
        <4>2. (C * (2 * k) + 0) \div C = 2 * k
          BY <2>1, <4>1, DivUnique
        <4> QED
          BY <4>1, <4>2, Zenon
      <3>2. M * u <= a /\ (y + C = Infinity => a = (2 * M - C) * u)
        <4>1. r \in 0 .. C - 1 /\ ~(a + r * u < M)
          BY <2>1, <2>4, <2>9, <2>10, <2>16
        <4> QED
          BY <2>5, <4>1
      <3>3. M * u = k * w
        BY <2>1, <2>9, SMT
      <3>4. CASE 2 * Distance(b, q) <= w
        <4>1. PICK d \in Nat : d = Distance(b, q)
          BY <2>9, <2>14
        <4>2. k * (2 * d) <= k * w
          BY <2>1, <2>9, <3>4, <4>1, SMT
        <4>3. d * (2 * k) = k * (2 * d)
          BY <2>1, <4>1, SMT
        <4>4. PICK i \in Int, j \in Int : i = k * (2 * d) /\ j = k * w
          BY <2>1, <2>9, <4>1, SMT
        <4> QED
          BY <2>9, <2>10, <3>1, <3>2, <3>3, <4>1, <4>2, <4>3, <4>4
      <3>5. CASE ~(2 * Distance(b, q) <= w)
        <4>1. ~up /\ y + C = Infinity /\ Distance(b, q) = v
          BY <2>1, <2>3, <2>4, <2>5, <2>7, <2>9, <2>14, <3>5
        <4>2. a = 2 * (k * w) - w
          BY <2>1, <2>9, <3>2, <3>3, <4>1, SMT
        <4>3. v * (2 * k) <= 2 * (k * w) - w + v
          <5>1. (w - v) * (2 * k) >= w - v
            BY <2>1, <2>9, SMT
          <5> QED
            BY <2>1, <2>9, <5>1, SMT
        <4> QED
          BY <2>10, <3>1, <4>1, <4>2, <4>3
      <3> QED
        BY <3>4, <3>5
    <2> QED
      BY <1>2, <2>11, <2>15, <2>16 DEF Rounds, C, M, q
  <1> QED
    BY <1>1, <1>2

-----------------------------------------------------------------------------
(* Runs of readings.                                                       *)

\* The elements of a finite set of numbers have the ranks from nought on.
LEMMA RankOnto ==
  ASSUME NEW T \in SUBSET Int, IsFiniteSet(T), NEW k \in 1 .. Cardinality(T)
  PROVE  \E t \in T : Cardinality({s \in T : s < t}) = k - 1
  <1> DEFINE n == Cardinality(T)
             Below(t) == {s \in T : s < t}
             f == [t \in T |-> Cardinality(Below(t)) + 1]
  <1>1. n \in Nat
    BY FS_CardinalityType
  <1>2. ASSUME NEW t \in T
        PROVE  IsFiniteSet(Below(t)) /\ Cardinality(Below(t)) \in 0 .. n - 1
    <2>1. Below(t) \in SUBSET T /\ T # Below(t)
      OBVIOUS
    <2>2. IsFiniteSet(Below(t)) /\ Cardinality(Below(t)) <= n /\ n # Cardinality(Below(t))
      BY <2>1, FS_Subset
    <2>3. Cardinality(Below(t)) \in Nat
      BY <2>2, FS_CardinalityType
    <2> QED
      BY <1>1, <2>2, <2>3
  <1>3. f \in [T -> 1 .. n]
    BY <1>1, <1>2
  <1>4. ASSUME NEW s \in T, NEW t \in T, s < t
        PROVE  f[s] < f[t]
    <2>1. s \in Int /\ t \in Int /\ \A x \in T : x \in Int
      OBVIOUS
    <2>2. \A x \in Below(s) : x \in Below(t)
      BY <1>4, <2>1
    <2>3. s \in Below(t) /\ s \notin Below(s)
      BY <1>4, <2>1
    <2>4. f[s] = Cardinality(Below(s)) + 1 /\ f[t] = Cardinality(Below(t)) + 1
      BY Zenon
    <2> HIDE DEF Below
    <2>5. Below(s) \in SUBSET Below(t) /\ Below(t) # Below(s)
      BY <2>2, <2>3
    <2>6. Cardinality(Below(s)) <= Cardinality(Below(t))
          /\ Cardinality(Below(t)) # Cardinality(Below(s))
      BY <1>2, <2>5, FS_Subset
    <2> HIDE DEF f
    <2> QED
      BY <1>1, <1>2, <2>4, <2>6
  <1>5. \A s, t \in T : f[s] = f[t] => s = t
    <2>1. SUFFICES ASSUME NEW s \in T, NEW t \in T, f[s] = f[t] PROVE s = t
      BY Zenon
    <2>2. f[s] \in 1 .. n /\ ~(s < t) /\ ~(t < s)
      BY <1>3, <1>4, <2>1
    <2> QED
      BY <2>2
  <1> HIDE DEF f
  <1>6. f \in Injection(T, 1 .. n)
    BY <1>3, <1>5 DEF Injection, IsInjective
  <1>7. IsFiniteSet(1 .. n) /\ Cardinality(1 .. n) = n
    BY <1>1, FS_Interval
  <1>8. f \in Surjection(T, 1 .. n)
    BY <1>6, <1>7, FS_Injection
  <1>9. PICK t \in T : f[t] = k
    BY <1>8 DEF Surjection
  <1>10. Cardinality(Below(t)) = k - 1
    <2>1. f[t] = Cardinality(Below(t)) + 1
      BY Zenon DEF f
    <2> HIDE DEF Below
    <2> QED
      BY <1>1, <1>2, <1>9, <2>1
  <1> QED
    BY <1>10

\* A run is a sequence of the readings it is made of, with at least one of
\* them where there is one.
LEMMA RunShape ==
  ASSUME NEW S \in SUBSET Reading
  PROVE  /\ Run(S) \in Seq(S)
         /\ S # {} => Run(S) # <<>>
  <1> DEFINE T == {r.ts : r \in S}
             n == Cardinality(T)
             e(k) == CHOOSE r \in S : Cardinality({t \in T : t < r.ts}) = k - 1
  <1>1. T \in SUBSET Second /\ Second \in SUBSET Int /\ IsFiniteSet(Second)
    BY PipelineAssumption, FS_Interval DEF Reading, Second
  <1>2. T \in SUBSET Int /\ IsFiniteSet(T)
    BY <1>1, FS_Subset
  <1>3. n \in Nat
    BY <1>2, FS_CardinalityType
  <1>4. ASSUME NEW k \in 1 .. n PROVE e(k) \in S
    <2> HIDE DEF T
    <2>1. PICK t \in T : Cardinality({s \in T : s < t}) = k - 1
      BY <1>2, <1>4, RankOnto
    <2>2. PICK r \in S : r.ts = t
      BY DEF T
    <2>3. Cardinality({s \in T : s < r.ts}) = k - 1
      BY <2>1, <2>2, Zenon
    <2> DEFINE Q(q) == Cardinality({s \in T : s < q.ts}) = k - 1
    <2>4. Q(r)
      BY <2>3
    <2>5. e(k) = CHOOSE q \in S : Q(q)
      BY Zenon
    <2> HIDE DEF Q, e
    <2>6. (CHOOSE q \in S : Q(q)) \in S
      BY <2>4
    <2> QED
      BY <2>5, <2>6
  <1>5. Run(S) = [k \in 1 .. n |-> e(k)]
    BY DEF Run
  <1> HIDE DEF e, n
  <1>6. Run(S) \in [1 .. n -> S]
    BY <1>4, <1>5
  <1>7. Run(S) \in Seq(S)
    BY <1>3, <1>6
  <1>8. ASSUME S # {} PROVE Run(S) # <<>>
    <2>1. T # {}
      BY <1>8
    <2>2. n # 0
      BY <1>2, <2>1, FS_EmptySet DEF n
    <2>3. DOMAIN Run(S) = 1 .. n
      BY <1>5, Zenon
    <2>4. Len(Run(S)) = n
      BY <1>3, <1>7, <2>3, LenProperties
    <2> QED
      BY <2>2, <2>4
  <1> QED
    BY <1>7, <1>8

\* What a sequence made of others holds.
LEMMA Holds ==
  ASSUME NEW S, NEW s \in Seq(S)
  PROVE  /\ ToSet(s) \in SUBSET S
         /\ ToSet(<<>>) = {}
         /\ \A e \in S : /\ Append(s, e) \in Seq(S) /\ ToSet(Append(s, e)) \subseteq ToSet(s) \cup {e}
                         /\ <<e>> \in Seq(S) /\ ToSet(<<e>>) = {e}
         /\ s # <<>> => /\ Head(s) \in ToSet(s) /\ Last(s) \in ToSet(s)
                        /\ Tail(s) \in Seq(S) /\ ToSet(Tail(s)) \subseteq ToSet(s)
  <1>1. Len(s) \in Nat /\ s \in [1 .. Len(s) -> S] /\ DOMAIN s = 1 .. Len(s)
    BY LenProperties
  <1>2. ToSet(s) \in SUBSET S
    BY <1>1 DEF ToSet
  <1>3. ToSet(<<>>) = {}
    BY DEF ToSet
  <1>4. ASSUME NEW e \in S
        PROVE  /\ Append(s, e) \in Seq(S) /\ ToSet(Append(s, e)) \subseteq ToSet(s) \cup {e}
               /\ <<e>> \in Seq(S) /\ ToSet(<<e>>) = {e}
    <2> DEFINE a == Append(s, e)
    <2>1. /\ a \in Seq(S) /\ Len(a) = Len(s) + 1
          /\ \A i \in 1 .. Len(s) : a[i] = s[i]
          /\ a[Len(s) + 1] = e
      BY AppendProperties
    <2>2. DOMAIN a = 1 .. Len(s) + 1
      BY <2>1, LenProperties
    <2> HIDE DEF a
    <2>3. ToSet(a) \subseteq ToSet(s) \cup {e}
      <3>1. ASSUME NEW i \in DOMAIN a PROVE a[i] \in ToSet(s) \cup {e}
        <4>1. i \in 1 .. Len(s) \/ i = Len(s) + 1
          BY <1>1, <2>2
        <4> QED
          BY <1>1, <2>1, <4>1 DEF ToSet
      <3> QED
        BY <3>1 DEF ToSet
    <2>4. <<e>> \in Seq(S) /\ ToSet(<<e>>) = {e}
      BY DEF ToSet
    <2> QED
      BY <2>1, <2>3, <2>4 DEF a
  <1>5. ASSUME s # <<>>
        PROVE  /\ Head(s) \in ToSet(s) /\ Last(s) \in ToSet(s)
               /\ Tail(s) \in Seq(S) /\ ToSet(Tail(s)) \subseteq ToSet(s)
    <2>1. Len(s) \in Nat \ {0}
      BY <1>1, <1>5, EmptySeq
    <2>2. 1 \in DOMAIN s /\ Len(s) \in DOMAIN s /\ Head(s) = s[1]
      BY <1>1, <2>1
    <2>3. /\ Tail(s) \in Seq(S) /\ Len(Tail(s)) = Len(s) - 1
          /\ \A i \in 1 .. Len(Tail(s)) : Tail(s)[i] = s[i + 1]
      BY <1>5, HeadTailProperties
    <2>4. DOMAIN Tail(s) = 1 .. Len(s) - 1
      BY <2>3, LenProperties
    <2>5. ASSUME NEW i \in DOMAIN Tail(s) PROVE Tail(s)[i] \in ToSet(s)
      <3>1. i + 1 \in DOMAIN s /\ Tail(s)[i] = s[i + 1]
        BY <1>1, <2>1, <2>3, <2>4
      <3> QED
        BY <3>1 DEF ToSet
    <2> QED
      BY <2>2, <2>3, <2>5 DEF ToSet, Last
  <1> QED
    BY <1>2, <1>3, <1>4, <1>5

\* A concatenation holds no more than its parts.
LEMMA HoldsBoth ==
  ASSUME NEW S, NEW s \in Seq(S), NEW t \in Seq(S)
  PROVE  s \o t \in Seq(S) /\ ToSet(s \o t) \subseteq ToSet(s) \cup ToSet(t)
  <1>1. /\ Len(s) \in Nat /\ DOMAIN s = 1 .. Len(s)
        /\ Len(t) \in Nat /\ DOMAIN t = 1 .. Len(t)
    BY LenProperties
  <1> DEFINE c == s \o t
  <1>2. /\ c \in Seq(S) /\ Len(c) = Len(s) + Len(t)
        /\ \A i \in 1 .. Len(s) + Len(t) : c[i] = IF i <= Len(s) THEN s[i] ELSE t[i - Len(s)]
    BY ConcatProperties
  <1>3. DOMAIN c = 1 .. Len(s) + Len(t)
    BY <1>2, LenProperties
  <1> HIDE DEF c
  <1>4. ASSUME NEW i \in DOMAIN c PROVE c[i] \in ToSet(s) \cup ToSet(t)
    <2>1. CASE i <= Len(s)
      <3>1. i \in DOMAIN s /\ c[i] = s[i]
        BY <1>1, <1>2, <1>3, <2>1
      <3> QED
        BY <3>1 DEF ToSet
    <2>2. CASE ~(i <= Len(s))
      <3>1. i - Len(s) \in DOMAIN t /\ c[i] = t[i - Len(s)]
        BY <1>1, <1>2, <1>3, <2>2
      <3> QED
        BY <3>1 DEF ToSet
    <2> QED
      BY <2>1, <2>2
  <1> QED
    BY <1>2, <1>4 DEF c, ToSet

\* The halves of a run of at least two readings are runs of its readings that
\* are not empty, and together they are the run.
LEMMA SplitShape ==
  ASSUME NEW run \in Seq(Reading), Len(run) > 1
  PROVE  \E l, r \in Seq(Reading) \ {<<>>} :
            /\ Split(run) = <<l, r>> /\ l \o r = run
            /\ ToSet(l) \subseteq ToSet(run) /\ ToSet(r) \subseteq ToSet(run)
  <1> DEFINE n == Len(run)
             h == n \div 2
             l == SubSeq(run, 1, h)
             r == SubSeq(run, h + 1, n)
  <1>1. n \in Nat /\ DOMAIN run = 1 .. n /\ \A i \in 1 .. n : run[i] \in Reading
    BY LenProperties
  <1>2. h \in Nat /\ h >= 1 /\ h < n
    BY <1>1
  <1> HIDE DEF n, h
  <1>3. /\ l \in Seq(Reading) /\ Len(l) = h
        /\ \A i \in 1 .. h : l[i] = run[i]
    <2>1. /\ l \in Seq(Reading) /\ Len(l) = IF 1 <= h THEN h - 1 + 1 ELSE 0
          /\ \A i \in 1 .. h - 1 + 1 : l[i] = run[1 + i - 1]
      BY <1>1, <1>2, SubSeqProperties
    <2> HIDE DEF l
    <2> QED
      BY <1>2, <2>1
  <1>4. /\ r \in Seq(Reading) /\ Len(r) = n - h
        /\ \A i \in 1 .. n - h : r[i] = run[h + i]
    <2>1. /\ r \in Seq(Reading)
          /\ Len(r) = IF h + 1 <= n THEN n - (h + 1) + 1 ELSE 0
          /\ \A i \in 1 .. n - (h + 1) + 1 : r[i] = run[h + 1 + i - 1]
      BY <1>1, <1>2, SubSeqProperties
    <2> HIDE DEF r
    <2> QED
      BY <1>1, <1>2, <2>1
  <1> HIDE DEF l, r
  <1>5. l # <<>> /\ r # <<>>
    BY <1>1, <1>2, <1>3, <1>4
  <1>6. ToSet(l) \subseteq ToSet(run) /\ ToSet(r) \subseteq ToSet(run)
    <2>1. DOMAIN l = 1 .. h /\ DOMAIN r = 1 .. n - h
      BY <1>3, <1>4, LenProperties
    <2>2. \A i \in DOMAIN l : l[i] \in ToSet(run)
      BY <1>1, <1>2, <1>3, <2>1 DEF ToSet
    <2>3. ASSUME NEW i \in DOMAIN r PROVE r[i] \in ToSet(run)
      <3>1. h + i \in DOMAIN run /\ r[i] = run[h + i]
        BY <1>1, <1>2, <1>4, <2>1
      <3> QED
        BY <3>1 DEF ToSet
    <2> QED
      BY <2>2, <2>3 DEF ToSet
  <1>7. l \o r = run
    <2>1. /\ l \o r \in Seq(Reading) /\ Len(l \o r) = Len(l) + Len(r)
          /\ \A i \in 1 .. Len(l) + Len(r) :
                (l \o r)[i] = IF i <= Len(l) THEN l[i] ELSE r[i - Len(l)]
      BY <1>3, <1>4, ConcatProperties
    <2>2. /\ l \o r \in Seq(Reading) /\ Len(l \o r) = h + (n - h)
          /\ \A i \in 1 .. h + (n - h) : (l \o r)[i] = IF i <= h THEN l[i] ELSE r[i - h]
      BY <1>3, <1>4, <2>1, Zenon
    <2>3. Len(l \o r) = n
      BY <1>1, <1>2, <2>2
    <2>4. ASSUME NEW i \in 1 .. n PROVE (l \o r)[i] = run[i]
      BY <1>1, <1>2, <1>3, <1>4, <2>2
    <2> QED
      BY <2>2, <2>3, <2>4, SeqEqual DEF n
  <1>8. Split(run) = <<l, r>>
    BY DEF Split, l, r, h, n
  <1> QED
    BY <1>3, <1>4, <1>5, <1>6, <1>7, <1>8

-----------------------------------------------------------------------------
(* The inductive invariant.                                                *)

\* A chunk: a run of readings and the seconds it starts and ends at.
Chunk == [lo : Second, hi : Second, run : Seq(Reading)]

\* A point that is the rounded newest reading of its second.
Newest(p) == sent[p.ts] \in Bits /\ p.value = Quantize(sent[p.ts])

\* A run that is not empty and lies in one window.
InWindow(run, w) == run # <<>> /\ \A p \in ToSet(run) : WindowOf(p.ts) = w

Types ==
    /\ raw \in [Second -> Bits \cup {None}]
    /\ sent \in [Second -> Bits \cup {None}]
    /\ inserts \in 0 .. MaxInserts
    /\ window \in {None} \cup 0 .. WindowOf(MaxTime)
    /\ chunks \in SUBSET Chunk
    /\ stack \in Seq(Seq(Reading))
    /\ out \in Seq(Chunk)

\* A raw row is the newest reading of its second.
RawNewest == \A s \in Second : raw[s] # None => Newest([ts |-> s, value |-> raw[s]])

\* A chunk lies in the window it is filed under, and a point of it that no raw
\* row overrides is the newest reading of its second.
Filed ==
    \A c \in chunks :
       /\ InWindow(c.run, WindowOf(c.lo))
       /\ \A p \in ToSet(c.run) : raw[p.ts] = None => Newest(p)

\* All that an open compaction holds is of its window, and the newest.
Compacted ==
    IF window = None THEN stack = <<>> /\ out = <<>>
    ELSE /\ \A run \in ToSet(stack) :
              InWindow(run, window) /\ \A p \in ToSet(run) : Newest(p)
         /\ \A c \in ToSet(out) :
              /\ WindowOf(c.lo) = window
              /\ InWindow(c.run, window) /\ \A p \in ToSet(c.run) : Newest(p)

IInv == Types /\ RawNewest /\ Filed /\ Compacted

\* Rounding stays among the patterns, none of which is None.
LEMMA QuantizeBits ==
  ASSUME NEW b \in Bits
  PROVE  Quantize(b) \in Bits /\ Quantize(b) # None /\ b # None
  <1>1. Rounds(b, Quantize(b))
    BY QuantizeRounds
  <1>2. Quantize(b) \in Bits
    BY <1>1 DEF Rounds
  <1>3. None \notin Bits
    BY Widths DEF Bits, None
  <1> QED
    BY <1>2, <1>3

\* The windows of the time line have numbers, which None is not.
LEMMA WindowNat ==
  /\ MaxTime \in Nat /\ Second \in SUBSET Nat
  /\ \A s \in Second : WindowOf(s) \in Nat
  /\ WindowOf(MaxTime) \in Nat
  /\ \A w \in 0 .. WindowOf(MaxTime) : w # None
  <1>1. MaxTime \in Nat /\ Second \in SUBSET Nat /\ MaxTime \in Second
    BY PipelineAssumption DEF Second
  <1>2. \A s \in Nat : WindowOf(s) \in Nat
    BY PipelineAssumption, SMT DEF WindowOf
  <1> QED
    BY <1>1, <1>2 DEF None

\* The invariant holds when the process starts.
LEMMA InvInit == Init => IInv
  <1> SUFFICES ASSUME Init PROVE IInv
    OBVIOUS
  <1>1. Types
    <2>1. MaxInserts \in Nat
      BY PipelineAssumption
    <2>2. stack \in Seq(Seq(Reading)) /\ out \in Seq(Chunk)
      BY EmptySeq DEF Init
    <2> QED
      BY <2>1, <2>2 DEF Init, Types
  <1>2. RawNewest /\ Filed /\ Compacted
    BY DEF Init, RawNewest, Filed, Compacted
  <1> QED
    BY <1>1, <1>2 DEF IInv

\* An insert replaces the row and the newest reading of its second together.
LEMMA InvInsert ==
  ASSUME IInv, NEW s \in Second, NEW v \in Scraped[s], Insert(s, v)
  PROVE  IInv'
  <1>1. v \in Bits
    BY PipelineAssumption DEF Second
  <1>2. Quantize(v) \in Bits /\ Quantize(v) # None /\ v # None
    BY <1>1, QuantizeBits
  <1>3. /\ raw' = [raw EXCEPT ![s] = Quantize(v)] /\ sent' = [sent EXCEPT ![s] = v]
        /\ raw \in [Second -> Bits \cup {None}] /\ sent \in [Second -> Bits \cup {None}]
        /\ UNCHANGED <<chunks, window, stack, out>> /\ window = None
    BY DEF Insert, IInv, Types
  <1>4. ASSUME NEW t \in Second
        PROVE  /\ t = s => raw'[t] = Quantize(v) /\ sent'[t] = v
               /\ t # s => raw'[t] = raw[t] /\ sent'[t] = sent[t]
    BY <1>3
  <1>5. Types'
    <2>1. raw' \in [Second -> Bits \cup {None}] /\ sent' \in [Second -> Bits \cup {None}]
      BY <1>1, <1>2, <1>3
    <2>2. inserts' \in 0 .. MaxInserts
      BY PipelineAssumption DEF Insert, IInv, Types
    <2> QED
      BY <1>3, <2>1, <2>2 DEF IInv, Types
  <1>6. RawNewest'
    <2>1. SUFFICES ASSUME NEW t \in Second, raw'[t] # None
                   PROVE  sent'[t] \in Bits /\ raw'[t] = Quantize(sent'[t])
      BY DEF RawNewest, Newest
    <2>2. CASE t = s
      BY <1>1, <1>4, <2>2
    <2>3. CASE t # s
      BY <1>4, <2>1, <2>3 DEF IInv, RawNewest, Newest
    <2> QED
      BY <2>2, <2>3
  <1>7. Filed'
    <2>1. SUFFICES ASSUME NEW c \in chunks
                   PROVE  /\ InWindow(c.run, WindowOf(c.lo))
                          /\ \A p \in ToSet(c.run) : raw'[p.ts] = None => Newest(p)'
      BY <1>3 DEF Filed, InWindow, WindowOf
    <2>2. InWindow(c.run, WindowOf(c.lo))
      BY DEF IInv, Filed
    <2>3. ASSUME NEW p \in ToSet(c.run), raw'[p.ts] = None
          PROVE  Newest(p)'
      <3>1. p.ts \in Second
        <4>1. c.run \in Seq(Reading)
          BY DEF IInv, Types, Chunk
        <4>2. p \in Reading
          BY <4>1, Holds
        <4> QED
          BY <4>2 DEF Reading
      <3>2. raw[p.ts] = None /\ sent'[p.ts] = sent[p.ts]
        BY <1>2, <1>4, <2>3, <3>1
      <3> QED
        BY <3>2 DEF IInv, Filed, Newest
    <2> QED
      BY <2>2, <2>3
  <1>8. Compacted'
    BY <1>3 DEF IInv, Compacted
  <1> QED
    BY <1>5, <1>6, <1>7, <1>8 DEF IInv

\* What compact_window merges: readings of the window, all the newest.
LEMMA MergedNewest ==
  ASSUME IInv, NEW w, \E r \in RawRows : WindowOf(r.ts) = w
  PROVE  /\ Merged(w) \in Seq(Reading)
         /\ InWindow(Merged(w), w) /\ \A p \in ToSet(Merged(w)) : Newest(p)
  <1> DEFINE S == {r \in RawRows : WindowOf(r.ts) = w}
                    \cup {r \in UNION {ToSet(c.run) : c \in WindowChunks(w)} :
                            raw[r.ts] = None}
  <1>1. ASSUME NEW r \in RawRows
        PROVE  r \in Reading /\ Newest(r)
    <2>1. PICK s \in Second : raw[s] # None /\ r = [ts |-> s, value |-> raw[s]]
      BY DEF RawRows
    <2> QED
      BY <2>1 DEF IInv, Types, RawNewest, Reading
  <1>2. ASSUME NEW c \in WindowChunks(w), NEW r \in ToSet(c.run), raw[r.ts] = None
        PROVE  r \in Reading /\ WindowOf(r.ts) = w /\ Newest(r)
    <2>1. c \in chunks /\ WindowOf(c.lo) = w /\ c.run \in Seq(Reading)
      BY DEF WindowChunks, IInv, Types, Chunk
    <2>2. r \in Reading
      BY <2>1, Holds
    <2> QED
      BY <1>2, <2>1, <2>2 DEF IInv, Filed, InWindow
  <1>3. \A r \in S : r \in Reading /\ WindowOf(r.ts) = w /\ Newest(r)
    BY <1>1, <1>2
  <1>4. S # {}
    OBVIOUS
  <1>5. Merged(w) = Run(S)
    BY DEF Merged
  <1> HIDE DEF S
  <1>6. S \in SUBSET Reading
    BY <1>3
  <1>7. Run(S) \in Seq(S) /\ Run(S) # <<>>
    BY <1>4, <1>6, RunShape
  <1>8. Run(S) \in Seq(Reading) /\ ToSet(Run(S)) \in SUBSET S
    BY <1>6, <1>7, Holds, SeqMonotonic
  <1> QED
    BY <1>3, <1>5, <1>7, <1>8 DEF InWindow

\* A compaction starts with the merged run of its window.
LEMMA InvCompactBegin ==
  ASSUME IInv, NEW w \in 0 .. WindowOf(MaxTime), CompactBegin(w)
  PROVE  IInv'
  <1> DEFINE m == Merged(w)
  <1>1. /\ m \in Seq(Reading) /\ InWindow(m, w) /\ \A p \in ToSet(m) : Newest(p)
    BY MergedNewest DEF CompactBegin
  <1>2. w # None
    BY WindowNat
  <1>3. /\ window' = w /\ stack' = <<m>> /\ out' = <<>>
        /\ UNCHANGED <<raw, chunks, inserts, sent>>
    BY DEF CompactBegin
  <1> HIDE DEF m
  <1>4. stack' \in Seq(Seq(Reading)) /\ ToSet(stack') = {m}
    <2>1. <<>> \in Seq(Seq(Reading))
      BY EmptySeq
    <2> QED
      BY <1>1, <1>3, <2>1, Holds
  <1>5. out' \in Seq(Chunk) /\ ToSet(out') = {}
    BY <1>3, EmptySeq DEF ToSet
  <1>6. Types'
    BY <1>3, <1>4, <1>5 DEF IInv, Types
  <1>7. RawNewest' /\ Filed'
    BY <1>3 DEF IInv, RawNewest, Filed, Newest, InWindow, WindowOf
  <1>8. Compacted'
    <2>1. \A p \in ToSet(m) : Newest(p)'
      BY <1>1, <1>3 DEF Newest
    <2> QED
      BY <1>1, <1>2, <1>3, <1>4, <1>5, <2>1 DEF Compacted
  <1> QED
    BY <1>6, <1>7, <1>8 DEF IInv

\* The calls to come, once the next has been made.
LEMMA EncodeShape ==
  ASSUME IInv, NEW fits \in BOOLEAN, Encode(fits)
  PROVE  \E run \in ToSet(stack), rest \in Seq(Seq(Reading)) :
           /\ run \in Seq(Reading) \ {<<>>} /\ stack = <<run>> \o rest
           /\ ToSet(rest) \subseteq ToSet(stack)
           /\ \/ \E l, r \in Seq(Reading) \ {<<>>} :
                    /\ stack' = <<l, r>> \o rest /\ out' = out
                    /\ l \o r = run
                    /\ ToSet(l) \subseteq ToSet(run) /\ ToSet(r) \subseteq ToSet(run)
              \/ /\ stack' = rest
                 /\ out' = Append(out, Blob(run))
  <1> DEFINE run == Head(stack)
             rest == Tail(stack)
  <1>1. stack \in Seq(Seq(Reading)) /\ stack # <<>>
    BY DEF IInv, Types, Encode
  <1>2. run \in ToSet(stack) /\ rest \in Seq(Seq(Reading)) /\ ToSet(rest) \subseteq ToSet(stack)
    BY <1>1, Holds
  <1>3. run \in Seq(Reading) /\ run # <<>>
    <2>1. ToSet(stack) \in SUBSET Seq(Reading)
      BY <1>1, Holds
    <2>2. window # None
      BY <1>1 DEF IInv, Compacted
    <2> QED
      BY <1>2, <2>1, <2>2 DEF IInv, Compacted, InWindow
  <1>4. stack = <<run>> \o rest
    BY <1>1, HeadTailProperties, SMT
  <1>5. CASE Halves(fits, run)
    <2>1. Len(run) > 1
      BY <1>5 DEF Halves
    <2>2. PICK l, r \in Seq(Reading) \ {<<>>} :
            /\ Split(run) = <<l, r>> /\ l \o r = run
            /\ ToSet(l) \subseteq ToSet(run) /\ ToSet(r) \subseteq ToSet(run)
      BY <1>3, <2>1, SplitShape
    <2>3. stack' = Split(run) \o rest /\ out' = out
      BY <1>5 DEF Encode
    <2> QED
      BY <1>2, <1>3, <1>4, <2>2, <2>3
  <1>6. CASE ~Halves(fits, run)
    <2>1. stack' = rest /\ out' = Append(out, Blob(run))
      BY <1>3, <1>6 DEF Encode
    <2> QED
      BY <1>2, <1>3, <1>4, <2>1
  <1> QED
    BY <1>5, <1>6

\* One call of split_encode hands every reading on.
LEMMA InvEncode ==
  ASSUME IInv, NEW fits \in BOOLEAN, Encode(fits)
  PROVE  IInv'
  <1>1. PICK run \in ToSet(stack), rest \in Seq(Seq(Reading)) :
           /\ run \in Seq(Reading) \ {<<>>} /\ stack = <<run>> \o rest
           /\ ToSet(rest) \subseteq ToSet(stack)
           /\ \/ \E l, r \in Seq(Reading) \ {<<>>} :
                    /\ stack' = <<l, r>> \o rest /\ out' = out
                    /\ l \o r = run
                    /\ ToSet(l) \subseteq ToSet(run) /\ ToSet(r) \subseteq ToSet(run)
              \/ /\ stack' = rest
                 /\ out' = Append(out, Blob(run))
    BY EncodeShape
  <1>2. UNCHANGED <<raw, chunks, window, inserts, sent>>
    BY DEF Encode
  <1>3. window # None
    BY DEF IInv, Compacted, Encode
  <1>4. /\ \A x \in ToSet(stack) : InWindow(x, window) /\ \A p \in ToSet(x) : Newest(p)
        /\ \A c \in ToSet(out) : /\ WindowOf(c.lo) = window
                                 /\ InWindow(c.run, window) /\ \A p \in ToSet(c.run) : Newest(p)
    BY <1>3 DEF IInv, Compacted
  <1>5. /\ stack' \in Seq(Seq(Reading))
        /\ \A x \in ToSet(stack') : InWindow(x, window) /\ \A p \in ToSet(x) : Newest(p)
        /\ out' \in Seq(Chunk)
        /\ \A c \in ToSet(out') : /\ WindowOf(c.lo) = window
                                  /\ InWindow(c.run, window) /\ \A p \in ToSet(c.run) : Newest(p)
    <2>1. CASE \E l, r \in Seq(Reading) \ {<<>>} :
                  /\ stack' = <<l, r>> \o rest /\ out' = out
                  /\ l \o r = run
                  /\ ToSet(l) \subseteq ToSet(run) /\ ToSet(r) \subseteq ToSet(run)
      <3>1. PICK l, r \in Seq(Reading) \ {<<>>} :
                  /\ stack' = <<l, r>> \o rest /\ out' = out
                  /\ ToSet(l) \subseteq ToSet(run) /\ ToSet(r) \subseteq ToSet(run)
        BY <2>1
      <3>2. <<l, r>> \in Seq(Seq(Reading)) /\ ToSet(<<l, r>>) = {l, r}
        BY DEF ToSet
      <3>3. stack' \in Seq(Seq(Reading)) /\ ToSet(stack') \subseteq {l, r} \cup ToSet(rest)
        BY <3>1, <3>2, HoldsBoth
      <3>4. InWindow(l, window) /\ InWindow(r, window)
        BY <1>4, <3>1 DEF InWindow
      <3>5. \A p \in ToSet(l) \cup ToSet(r) : Newest(p)
        BY <1>4, <3>1
      <3>6. \A x \in ToSet(stack') : InWindow(x, window) /\ \A p \in ToSet(x) : Newest(p)
        BY <1>1, <1>4, <3>3, <3>4, <3>5
      <3>7. out' \in Seq(Chunk) /\ ToSet(out') = ToSet(out)
        BY <3>1 DEF IInv, Types
      <3> QED
        BY <1>4, <3>3, <3>6, <3>7
    <2>2. CASE stack' = rest /\ out' = Append(out, Blob(run))
      <3> DEFINE c == Blob(run)
      <3>1. Head(run) \in ToSet(run) /\ Last(run) \in ToSet(run) /\ ToSet(run) \in SUBSET Reading
        BY <1>1, Holds
      <3>2. Head(run).ts \in Second /\ Last(run).ts \in Second
        BY <3>1 DEF Reading
      <3>3. /\ c \in Chunk /\ c.run = run /\ WindowOf(c.lo) = window
        BY <1>1, <1>4, <3>1, <3>2 DEF Blob, Chunk, InWindow
      <3>4. out \in Seq(Chunk)
        BY DEF IInv, Types
      <3> HIDE DEF c
      <3>5. out' \in Seq(Chunk) /\ ToSet(out') \subseteq ToSet(out) \cup {c}
        BY <2>2, <3>3, <3>4, Holds DEF c
      <3> QED
        BY <1>1, <1>4, <2>2, <3>3, <3>5
    <2> QED
      BY <1>1, <2>1, <2>2
  <1>6. Types'
    BY <1>2, <1>5 DEF IInv, Types
  <1>7. RawNewest' /\ Filed'
    BY <1>2 DEF IInv, RawNewest, Filed, Newest, InWindow, WindowOf
  <1>8. Compacted'
    <2>1. \A p : Newest(p) => Newest(p)'
      BY <1>2 DEF Newest
    <2>2. window' = window
      BY <1>2
    <2> QED
      BY <1>3, <1>5, <2>1, <2>2 DEF Compacted
  <1> QED
    BY <1>6, <1>7, <1>8 DEF IInv

\* A commit puts the chunks in place of the window's rows, whose seconds no
\* other chunk has.
LEMMA InvCompactCommit ==
  ASSUME IInv, CompactCommit
  PROVE  IInv'
  <1>1. /\ window # None /\ stack = <<>>
        /\ chunks' = (chunks \ WindowChunks(window)) \cup ToSet(out)
        /\ raw' = [s \in Second |-> IF WindowOf(s) = window THEN None ELSE raw[s]]
        /\ window' = None /\ out' = <<>> /\ UNCHANGED <<stack, inserts, sent>>
    BY DEF CompactCommit, Rewrite
  <1>2. \A c \in ToSet(out) : /\ WindowOf(c.lo) = window
                              /\ InWindow(c.run, window) /\ \A p \in ToSet(c.run) : Newest(p)
    BY <1>1 DEF IInv, Compacted
  <1>3. ToSet(out) \in SUBSET Chunk
    BY Holds DEF IInv, Types
  <1>4. raw' \in [Second -> Bits \cup {None}]
    BY <1>1 DEF IInv, Types
  <1>5. Types'
    <2>1. out' \in Seq(Chunk)
      BY <1>1, EmptySeq
    <2> QED
      BY <1>1, <1>3, <1>4, <2>1 DEF IInv, Types
  <1>6. RawNewest'
    <2>1. ASSUME NEW s \in Second, raw'[s] # None
          PROVE  sent'[s] \in Bits /\ raw'[s] = Quantize(sent'[s])
      <3>1. raw'[s] = raw[s]
        BY <1>1, <2>1
      <3> QED
        BY <1>1, <2>1, <3>1 DEF IInv, RawNewest, Newest
    <2> QED
      BY <2>1 DEF RawNewest, Newest
  <1>7. Filed'
    <2>1. SUFFICES ASSUME NEW c \in chunks'
                   PROVE  /\ InWindow(c.run, WindowOf(c.lo))
                          /\ \A p \in ToSet(c.run) : raw'[p.ts] = None => Newest(p)'
      BY DEF Filed, InWindow, WindowOf
    <2>2. CASE c \in ToSet(out)
      BY <1>1, <1>2, <2>2 DEF Newest
    <2>3. CASE c \in chunks /\ WindowOf(c.lo) # window
      <3>1. InWindow(c.run, WindowOf(c.lo)) /\ c.run \in Seq(Reading)
        BY <2>3 DEF IInv, Filed, Types, Chunk
      <3>2. ASSUME NEW p \in ToSet(c.run), raw'[p.ts] = None PROVE Newest(p)'
        <4>1. p \in Reading
          BY <3>1, Holds
        <4>2. raw[p.ts] = None
          BY <1>1, <2>3, <3>1, <3>2, <4>1 DEF InWindow, Reading
        <4> QED
          BY <1>1, <2>3, <4>2 DEF IInv, Filed, Newest
      <3> QED
        BY <3>1, <3>2
    <2> QED
      BY <1>1, <2>1, <2>2, <2>3 DEF WindowChunks
  <1>8. Compacted'
    BY <1>1 DEF Compacted
  <1> QED
    BY <1>5, <1>6, <1>7, <1>8 DEF IInv

\* A compaction that fails leaves the tables as they were.
LEMMA InvCompactFail ==
  ASSUME IInv, CompactFail
  PROVE  IInv'
  <1>1. /\ window' = None /\ stack' = <<>> /\ out' = <<>>
        /\ UNCHANGED <<raw, chunks, inserts, sent>>
    BY DEF CompactFail
  <1>2. Types'
    <2>1. stack' \in Seq(Seq(Reading)) /\ out' \in Seq(Chunk)
      BY <1>1, EmptySeq
    <2> QED
      BY <1>1, <2>1 DEF IInv, Types
  <1>3. RawNewest' /\ Filed' /\ Compacted'
    BY <1>1 DEF IInv, RawNewest, Filed, Compacted, Newest, InWindow, WindowOf
  <1> QED
    BY <1>2, <1>3 DEF IInv

\* Neither an answer nor a step of nothing touches the store.
LEMMA InvUnchanged ==
  ASSUME IInv, UNCHANGED <<raw, chunks, window, stack, out, inserts, sent>>
  PROVE  IInv'
  BY DEF IInv, Types, RawNewest, Filed, Compacted, Newest, InWindow, WindowOf

\* Every step preserves the invariant.
LEMMA StepIInv == IInv /\ [Next]_vars => IInv'
  <1> SUFFICES ASSUME IInv, [Next]_vars PROVE IInv'
    OBVIOUS
  <1>1. CASE \E s \in Second : \E v \in Scraped[s] : Insert(s, v)
    BY <1>1, InvInsert
  <1>2. CASE \E w \in 0 .. WindowOf(MaxTime) : CompactBegin(w)
    BY <1>2, InvCompactBegin
  <1>3. CASE \E fits \in BOOLEAN : Encode(fits)
    BY <1>3, InvEncode
  <1>4. CASE CompactCommit
    BY <1>4, InvCompactCommit
  <1>5. CASE CompactFail
    BY <1>5, InvCompactFail
  <1>6. CASE \E rq \in Request : Ask(rq)
    BY <1>6, InvUnchanged DEF Ask
  <1>7. CASE UNCHANGED vars
    BY <1>7, InvUnchanged DEF vars
  <1> QED
    BY <1>1, <1>2, <1>3, <1>4, <1>5, <1>6, <1>7 DEF Next

\* The inductive invariant: a raw row is the newest reading of its second, a
\* chunk lies in its window and is the newest where no raw row overrides it,
\* and so is all an open compaction holds.
THEOREM Invariant == Spec => []IInv
  BY InvInit, StepIInv, PTL DEF Spec

\* Every variable keeps its type; in particular no chunk and no run still to
\* encode is ever empty, whatever fits a page.
THEOREM TypeCorrect == Spec => []TypeOK
  <1>1. IInv => TypeOK
    <2> SUFFICES ASSUME IInv PROVE TypeOK
      OBVIOUS
    <2>1. ASSUME NEW c \in chunks \cup ToSet(out)
          PROVE  c.run # <<>> /\ \A i \in DOMAIN c.run : c.run[i] \in Reading
      <3>1. c \in Chunk
        BY Holds DEF IInv, Types
      <3>2. c.run \in Seq(Reading)
        BY <3>1 DEF Chunk
      <3>3. \A i \in DOMAIN c.run : c.run[i] \in Reading
        BY <3>2, LenProperties
      <3>4. c.run # <<>>
        <4>1. CASE c \in chunks
          BY <4>1 DEF IInv, Filed, InWindow
        <4>2. CASE c \in ToSet(out)
          BY <4>2 DEF IInv, Compacted, InWindow, ToSet
        <4> QED
          BY <4>1, <4>2
      <3> QED
        BY <3>3, <3>4
    <2>2. ASSUME NEW i \in DOMAIN stack PROVE stack[i] # <<>>
      BY <2>2 DEF IInv, Compacted, InWindow, ToSet
    <2> QED
      BY <2>1, <2>2 DEF IInv, Types, TypeOK
  <1> QED
    BY <1>1, Invariant, PTL

\* What is stored of a second, in a raw row or in a chunk, compacted however
\* often, is its newest reading rounded as the comments promise
\* (storage.rs:51-61, 71-100).
THEOREM StoredIsRounded == Spec => []StoredRounded
  <1>1. IInv => StoredRounded
    <2> SUFFICES ASSUME IInv PROVE StoredRounded
      OBVIOUS
    <2>1. ASSUME NEW r \in RawRows PROVE Newest(r)
      BY DEF IInv, RawNewest, RawRows
    <2>2. ASSUME NEW c \in chunks, NEW p \in ToSet(c.run), raw[p.ts] = None
          PROVE  Newest(p)
      BY <2>2 DEF IInv, Filed
    <2>3. \A r : Newest(r) => Rounds(sent[r.ts], r.value)
      BY QuantizeRounds DEF Newest
    <2> QED
      BY <2>1, <2>2, <2>3 DEF StoredRounded
  <1> QED
    BY <1>1, Invariant, PTL

-----------------------------------------------------------------------------
(* Splitting.                                                              *)

\* What FlattenSeq joins up to each element.
Joins(fl, s) ==
    /\ fl \in [1 .. Len(s) -> Seq(Reading)]
    /\ \A i \in 1 .. Len(s) : fl[i] = IF i = 1 THEN s[i] ELSE fl[i - 1] \o s[i]

\* There are such joins, up to every length.
LEMMA JoinsExist ==
  ASSUME NEW s \in Seq(Seq(Reading))
  PROVE  \E fl : Joins(fl, s)
  <1> DEFINE P(k) == \E fl \in [1 .. k -> Seq(Reading)] :
                        \A i \in 1 .. k : fl[i] = IF i = 1 THEN s[i] ELSE fl[i - 1] \o s[i]
             T == {k \in 0 .. Len(s) : ~P(k)}
  <1>1. Len(s) \in Nat /\ \A i \in 1 .. Len(s) : s[i] \in Seq(Reading)
    BY LenProperties
  <1>2. T = {}
    <2>1. SUFFICES ASSUME T # {} PROVE FALSE
      OBVIOUS
    <2>2. T \in SUBSET Nat
      BY <1>1
    <2>3. PICK m \in T : \A t \in T : m <= t
      BY <2>1, <2>2, Least, Zenon
    <2>4. m # 0
      <3>1. P(0)
        <4> DEFINE fl == [i \in 1 .. 0 |-> <<>>]
        <4>1. fl \in [1 .. 0 -> Seq(Reading)] /\ \A i \in 1 .. 0 : FALSE
          OBVIOUS
        <4> HIDE DEF fl
        <4> QED
          BY <4>1
      <3> HIDE DEF P
      <3> QED
        BY <2>3, <3>1
    <2>5. m \in Nat /\ m - 1 \in Nat /\ m <= Len(s) /\ P(m - 1)
      <3> HIDE DEF P
      <3>1. m \in Nat /\ m - 1 \in 0 .. Len(s) /\ ~(m <= m - 1) /\ m <= Len(s)
        BY <1>1, <2>2, <2>3, <2>4
      <3>2. m - 1 \notin T
        BY <2>3, <3>1
      <3> QED
        BY <3>1, <3>2
    <2>6. PICK g \in [1 .. m - 1 -> Seq(Reading)] :
             \A i \in 1 .. m - 1 : g[i] = IF i = 1 THEN s[i] ELSE g[i - 1] \o s[i]
      BY <2>5
    <2> DEFINE last == IF m = 1 THEN s[m] ELSE g[m - 1] \o s[m]
               fl == [i \in 1 .. m |-> IF i < m THEN g[i] ELSE last]
    <2>7. last \in Seq(Reading)
      <3>1. s[m] \in Seq(Reading)
        BY <1>1, <2>4, <2>5
      <3>2. m # 1 => g[m - 1] \in Seq(Reading)
        BY <2>4, <2>5, <2>6
      <3> QED
        BY <3>1, <3>2, ConcatProperties
    <2> HIDE DEF last
    <2>8. fl \in [1 .. m -> Seq(Reading)]
      BY <2>5, <2>6, <2>7
    <2>9. ASSUME NEW i \in 1 .. m
          PROVE  fl[i] = IF i = 1 THEN s[i] ELSE fl[i - 1] \o s[i]
      <3>1. CASE i < m
        <4>1. i \in 1 .. m - 1 /\ fl[i] = g[i]
          BY <2>5, <3>1
        <4>2. i # 1 => fl[i - 1] = g[i - 1]
          BY <2>5, <3>1
        <4> QED
          BY <2>6, <4>1, <4>2
      <3>2. CASE i = m
        <4>1. fl[i] = last
          BY <2>5, <3>2
        <4>2. i # 1 => fl[i - 1] = g[m - 1]
          BY <2>5, <3>2
        <4> QED
          BY <3>2, <4>1, <4>2 DEF last
      <3> QED
        BY <2>5, <3>1, <3>2
    <2>10. P(m)
      <3> HIDE DEF fl
      <3> QED
        BY <2>8, <2>9
    <2> HIDE DEF P
    <2> QED
      BY <2>3, <2>10
  <1>3. P(Len(s))
    <2> HIDE DEF P
    <2> QED
      BY <1>1, <1>2
  <1> QED
    BY <1>3 DEF Joins

\* FlattenSeq returns the last of them.
LEMMA FlattenIsLast ==
  ASSUME NEW s \in Seq(Seq(Reading)), s # <<>>, NEW fl, Joins(fl, s)
  PROVE  FlattenSeq(s) = fl[Len(s)]
  <1> DEFINE R(g) == [i \in 1 .. Len(s) |-> IF i = 1 THEN s[i] ELSE g[i - 1] \o s[i]]
             f == CHOOSE g : g = R(g)
  <1>1. Len(s) \in Nat \ {0}
    BY LenProperties, EmptySeq
  <1>2. FlattenSeq(s) = f[Len(s)]
    BY <1>1 DEF FlattenSeq
  <1>3. fl = R(fl)
    BY DEF Joins
  <1>4. f = R(f)
    <2> HIDE DEF R
    <2> QED
      BY <1>3
  <1> HIDE DEF f
  <1> DEFINE T == {i \in 1 .. Len(s) : f[i] # fl[i]}
  <1>5. T = {}
    <2>1. SUFFICES ASSUME T # {} PROVE FALSE
      OBVIOUS
    <2>2. T \in SUBSET Nat
      BY <1>1
    <2>3. PICK m \in T : \A t \in T : m <= t
      BY <2>1, <2>2, Least, Zenon
    <2>4. m \in 1 .. Len(s) /\ f[m] # fl[m]
      BY <2>3
    <2>5. f[m] = IF m = 1 THEN s[m] ELSE f[m - 1] \o s[m]
      BY <1>4, <2>4
    <2>6. fl[m] = IF m = 1 THEN s[m] ELSE fl[m - 1] \o s[m]
      BY <2>4 DEF Joins
    <2>7. m # 1 => f[m - 1] = fl[m - 1]
      <3>1. SUFFICES ASSUME m # 1 PROVE m - 1 \notin T /\ m - 1 \in 1 .. Len(s)
        OBVIOUS
      <3>2. m \in Nat /\ ~(m <= m - 1) /\ m - 1 \in 1 .. Len(s)
        BY <1>1, <2>4, <3>1
      <3> QED
        BY <2>3, <3>2
    <2> QED
      BY <2>4, <2>5, <2>6, <2>7
  <1> QED
    BY <1>1, <1>2, <1>5

\* Joins of runs may be grouped either way.
LEMMA Regrouped ==
  \A x, y, z \in Seq(Reading) : (x \o y) \o z = x \o (y \o z)
  <1> TAKE x, y, z \in Seq(Reading)
  <1> QED
    BY ConcatAssociative

\* Joining is associative with adding at either end.
LEMMA FlattenEnds ==
  ASSUME NEW s \in Seq(Seq(Reading)), NEW x \in Seq(Reading)
  PROVE  /\ FlattenSeq(s) \in Seq(Reading)
         /\ FlattenSeq(Append(s, x)) = FlattenSeq(s) \o x
         /\ FlattenSeq(<<x>> \o s) = x \o FlattenSeq(s)
  <1> DEFINE n == Len(s)
             a == Append(s, x)
             b == <<x>> \o s
  <1>1. n \in Nat /\ DOMAIN s = 1 .. n /\ \A i \in 1 .. n : s[i] \in Seq(Reading)
    BY LenProperties
  <1>2. /\ a \in Seq(Seq(Reading)) /\ a # <<>> /\ Len(a) = n + 1
        /\ \A i \in 1 .. n : a[i] = s[i]
        /\ a[n + 1] = x
    BY AppendProperties
  <1>3. /\ b \in Seq(Seq(Reading)) /\ b # <<>> /\ Len(b) = n + 1 /\ b[1] = x
        /\ \A i \in 2 .. n + 1 : b[i] = s[i - 1]
    <2> DEFINE o == <<x>>
    <2>1. o \in Seq(Seq(Reading)) /\ Len(o) = 1 /\ o[1] = x
      OBVIOUS
    <2> HIDE DEF o
    <2>2. /\ o \o s \in Seq(Seq(Reading)) /\ Len(o \o s) = Len(o) + Len(s)
          /\ \A i \in 1 .. Len(o) + Len(s) :
                (o \o s)[i] = IF i <= Len(o) THEN o[i] ELSE s[i - Len(o)]
      BY <2>1, ConcatProperties
    <2>3. b = o \o s
      BY DEF o
    <2> HIDE DEF b
    <2>4. b # <<>>
      BY <1>1, <2>1, <2>2, <2>3, EmptySeq
    <2> QED
      BY <1>1, <2>1, <2>2, <2>3, <2>4
  <1> HIDE DEF n, a, b
  <1>4. CASE s = <<>>
    <2>1. n = 0 /\ FlattenSeq(s) = <<>>
      BY <1>4, EmptySeq DEF n, FlattenSeq
    <2> DEFINE fl == [i \in 1 .. 1 |-> x]
    <2>2. Joins(fl, a) /\ Joins(fl, b) /\ fl[Len(a)] = x /\ fl[Len(b)] = x
      BY <1>2, <1>3, <2>1 DEF Joins
    <2> HIDE DEF fl
    <2>3. FlattenSeq(a) = x /\ FlattenSeq(b) = x
      BY <1>2, <1>3, <2>2, FlattenIsLast
    <2>4. <<>> \o x = x /\ x \o <<>> = x
      BY ConcatEmptySeq
    <2>5. <<>> \in Seq(Reading)
      BY EmptySeq
    <2> QED
      BY <2>1, <2>3, <2>4, <2>5 DEF a, b
  <1>5. CASE s # <<>>
    <2>1. n \in Nat \ {0}
      BY <1>1, <1>5, EmptySeq DEF n
    <2>2. PICK fl : Joins(fl, s)
      BY JoinsExist
    <2>3. /\ fl \in [1 .. n -> Seq(Reading)]
          /\ \A i \in 1 .. n : fl[i] = IF i = 1 THEN s[i] ELSE fl[i - 1] \o s[i]
      BY <2>2 DEF Joins, n
    <2>4. FlattenSeq(s) = fl[n] /\ fl[n] \in Seq(Reading)
      <3>1. FlattenSeq(s) = fl[Len(s)]
        BY <1>5, <2>2, FlattenIsLast
      <3>2. fl[n] \in Seq(Reading)
        BY <2>1, <2>3
      <3> QED
        BY <3>1, <3>2 DEF n
    <2>5. FlattenSeq(a) = fl[n] \o x
      <3> DEFINE g == [i \in 1 .. n + 1 |-> IF i <= n THEN fl[i] ELSE fl[n] \o x]
      <3>1. fl[n] \o x \in Seq(Reading)
        BY <2>4, ConcatProperties
      <3>2. g \in [1 .. n + 1 -> Seq(Reading)]
        BY <2>1, <2>3, <3>1
      <3>3. ASSUME NEW i \in 1 .. n + 1
            PROVE  g[i] = IF i = 1 THEN a[i] ELSE g[i - 1] \o a[i]
        <4>1. CASE i <= n
          <5>1. i \in 1 .. n /\ g[i] = fl[i] /\ (i # 1 => g[i - 1] = fl[i - 1]) /\ a[i] = s[i]
            BY <1>2, <2>1, <4>1
          <5> QED
            BY <2>3, <5>1
        <4>2. CASE ~(i <= n)
          <5>1. i = n + 1 /\ i # 1 /\ g[i] = fl[n] \o x /\ g[i - 1] = fl[n] /\ a[i] = x
            BY <1>2, <2>1, <4>2
          <5> QED
            BY <5>1
        <4> QED
          BY <4>1, <4>2
      <3>4. g[n + 1] = fl[n] \o x
        BY <2>1
      <3> HIDE DEF g
      <3>5. Joins(g, a)
        BY <1>2, <3>2, <3>3 DEF Joins
      <3> QED
        BY <1>2, <3>4, <3>5, FlattenIsLast
    <2>6. FlattenSeq(b) = x \o fl[n]
      <3> DEFINE g == [i \in 1 .. n + 1 |-> IF i = 1 THEN x ELSE x \o fl[i - 1]]
      <3>1. \A i \in 1 .. n : x \o fl[i] \in Seq(Reading)
        BY <2>3, ConcatProperties
      <3>2. g \in [1 .. n + 1 -> Seq(Reading)]
        <4>1. ASSUME NEW i \in 1 .. n + 1
              PROVE  (IF i = 1 THEN x ELSE x \o fl[i - 1]) \in Seq(Reading)
          <5>1. i # 1 => i - 1 \in 1 .. n
            BY <2>1
          <5> QED
            BY <3>1, <5>1
        <4> QED
          BY <4>1
      <3>3. g[1] = x /\ \A j \in 1 .. n : g[j + 1] = x \o fl[j]
        <4>1. g[1] = x
          BY <2>1
        <4>2. ASSUME NEW j \in 1 .. n PROVE g[j + 1] = x \o fl[j]
          <5>1. j + 1 \in 1 .. n + 1 /\ j + 1 # 1 /\ (j + 1) - 1 = j
            BY <2>1
          <5>2. g[j + 1] = IF j + 1 = 1 THEN x ELSE x \o fl[(j + 1) - 1]
            BY <5>1, Zenon
          <5> QED
            BY <5>1, <5>2, Zenon
        <4> QED
          BY <4>1, <4>2
      <3> HIDE DEF g
      <3>4. ASSUME NEW i \in 1 .. n + 1
            PROVE  g[i] = IF i = 1 THEN b[i] ELSE g[i - 1] \o b[i]
        <4>1. CASE i = 1
          BY <1>3, <3>3, <4>1
        <4>2. CASE i # 1
          <5> DEFINE j == i - 1
          <5>1. j \in 1 .. n /\ i = j + 1 /\ i \in 2 .. n + 1
            BY <2>1, <4>2
          <5>2. g[i] = x \o fl[j] /\ b[i] = s[j]
            BY <1>3, <3>3, <5>1
          <5>3. fl[j] = IF j = 1 THEN s[j] ELSE fl[j - 1] \o s[j]
            BY <2>3, <5>1, Zenon
          <5>4. CASE j = 1
            BY <3>3, <4>2, <5>2, <5>3, <5>4
          <5>5. CASE j # 1
            <6>1. j - 1 \in 1 .. n /\ j = (j - 1) + 1
              BY <2>1, <5>1, <5>5
            <6>2. g[j] = x \o fl[j - 1]
              BY <3>3, <6>1
            <6>3. fl[j - 1] \in Seq(Reading) /\ s[j] \in Seq(Reading)
              BY <1>1, <2>3, <5>1, <6>1 DEF n
            <6> HIDE DEF j
            <6>4. (x \o fl[j - 1]) \o s[j] = x \o (fl[j - 1] \o s[j])
              <7>1. x \in Seq(Reading)
                OBVIOUS
              <7> QED
                BY <6>3, <7>1, Regrouped, Zenon
            <6>5. g[i - 1] = x \o fl[j - 1]
              BY <6>2 DEF j
            <6> QED
              BY <4>2, <5>2, <5>3, <5>5, <6>4, <6>5, Zenon
          <5> QED
            BY <5>4, <5>5
        <4> QED
          BY <4>1, <4>2
      <3>5. g[n + 1] = x \o fl[n]
        BY <2>1, <3>3
      <3>6. Joins(g, b)
        BY <1>3, <3>2, <3>4 DEF Joins
      <3> QED
        BY <1>3, <3>5, <3>6, FlattenIsLast
    <2> QED
      BY <2>4, <2>5, <2>6 DEF a, b
  <1> QED
    BY <1>4, <1>5

\* What the chunks pushed hold, in order.
Pushed(cs) == [i \in DOMAIN cs |-> cs[i].run]

\* Pushing a chunk adds its run at the end.
LEMMA PushedAppend ==
  ASSUME NEW cs \in Seq(Chunk), NEW c \in Chunk
  PROVE  /\ Pushed(cs) \in Seq(Seq(Reading))
         /\ Pushed(<<>>) = <<>>
         /\ Pushed(Append(cs, c)) = Append(Pushed(cs), c.run)
  <1> DEFINE n == Len(cs)
             a == Append(cs, c)
             p == Pushed(cs)
             q == Pushed(a)
  <1>1. n \in Nat /\ DOMAIN cs = 1 .. n /\ \A i \in 1 .. n : cs[i] \in Chunk
    BY LenProperties
  <1>2. /\ a \in Seq(Chunk) /\ Len(a) = n + 1
        /\ \A i \in 1 .. n : a[i] = cs[i]
        /\ a[n + 1] = c
    BY AppendProperties
  <1>3. DOMAIN a = 1 .. n + 1
    BY <1>2, LenProperties
  <1>4. \A d \in Chunk : d.run \in Seq(Reading)
    BY DEF Chunk
  <1> HIDE DEF n, a
  <1>5. p \in [1 .. n -> Seq(Reading)] /\ \A i \in 1 .. n : p[i] = cs[i].run
    BY <1>1, <1>4 DEF Pushed
  <1>6. q = [i \in 1 .. n + 1 |-> a[i].run]
    BY <1>3 DEF Pushed
  <1> HIDE DEF p, q
  <1>7. p \in Seq(Seq(Reading)) /\ Len(p) = n
    BY <1>1, <1>5
  <1>8. /\ Append(p, c.run) \in Seq(Seq(Reading)) /\ Len(Append(p, c.run)) = n + 1
        /\ \A i \in 1 .. n : Append(p, c.run)[i] = p[i]
        /\ Append(p, c.run)[n + 1] = c.run
    BY <1>4, <1>7, AppendProperties
  <1>9. ASSUME NEW i \in 1 .. n + 1 PROVE a[i].run \in Seq(Reading) /\ a[i].run = Append(p, c.run)[i]
    <2>1. CASE i \in 1 .. n
      BY <1>1, <1>2, <1>4, <1>5, <1>8, <2>1
    <2>2. CASE i = n + 1
      BY <1>2, <1>4, <1>8, <2>2
    <2>3. i \in 1 .. n \/ i = n + 1
      BY <1>1
    <2> QED
      BY <2>1, <2>2, <2>3, Zenon
  <1>10. q \in Seq(Seq(Reading)) /\ Len(q) = n + 1
    BY <1>1, <1>6, <1>9
  <1>11. q = Append(p, c.run)
    BY <1>6, <1>8, <1>9, <1>10, SeqEqual
  <1>12. Pushed(<<>>) = <<>>
    BY DEF Pushed
  <1> QED
    BY <1>7, <1>11, <1>12 DEF a, p, q

\* Whatever is pushed or halved, what is pushed followed by what is to come
\* stays the same.
LEMMA EncodeKeepsRun ==
  ASSUME IInv, NEW fits \in BOOLEAN, Encode(fits)
  PROVE  FlattenSeq(Pushed(out')) \o FlattenSeq(stack')
           = FlattenSeq(Pushed(out)) \o FlattenSeq(stack)
  <1>1. PICK run \in ToSet(stack), rest \in Seq(Seq(Reading)) :
           /\ run \in Seq(Reading) \ {<<>>} /\ stack = <<run>> \o rest
           /\ \/ \E l, r \in Seq(Reading) \ {<<>>} :
                    /\ stack' = <<l, r>> \o rest /\ out' = out
                    /\ l \o r = run
              \/ /\ stack' = rest
                 /\ out' = Append(out, Blob(run))
    BY EncodeShape
  <1> DEFINE f == FlattenSeq(rest)
             g == FlattenSeq(Pushed(out))
  <1>2. \A x, y, z \in Seq(Reading) : (x \o y) \o z = x \o (y \o z)
    BY ConcatAssociative
  <1>3. f \in Seq(Reading) /\ FlattenSeq(stack) = run \o f
    BY <1>1, FlattenEnds
  <1>4. out \in Seq(Chunk) /\ Blob(run) \in Chunk /\ Blob(run).run = run
    <2>1. Head(run) \in ToSet(run) /\ Last(run) \in ToSet(run) /\ ToSet(run) \in SUBSET Reading
      BY <1>1, Holds
    <2> QED
      BY <1>1, <2>1 DEF Blob, Chunk, Reading, IInv, Types
  <1>5. Pushed(out) \in Seq(Seq(Reading))
    BY <1>4, PushedAppend
  <1>6. g \in Seq(Reading) /\ FlattenSeq(Append(Pushed(out), run)) = g \o run
    BY <1>1, <1>5, FlattenEnds
  <1>7. CASE \E l, r \in Seq(Reading) \ {<<>>} :
                /\ stack' = <<l, r>> \o rest /\ out' = out
                /\ l \o r = run
    <2>1. PICK l \in Seq(Reading), r \in Seq(Reading) :
             stack' = <<l, r>> \o rest /\ out' = out /\ l \o r = run
      BY <1>7
    <2> DEFINE t == <<r>> \o rest
    <2>2. t \in Seq(Seq(Reading)) /\ FlattenSeq(t) = r \o f
      <3>1. <<r>> \in Seq(Seq(Reading))
        OBVIOUS
      <3> QED
        BY <3>1, HoldsBoth, FlattenEnds
    <2>3. <<l, r>> \o rest = <<l>> \o t
      <3>1. <<l>> \in Seq(Seq(Reading)) /\ <<r>> \in Seq(Seq(Reading))
        OBVIOUS
      <3>2. (<<l>> \o <<r>>) \o rest = <<l>> \o (<<r>> \o rest)
        BY <3>1, ConcatAssociative
      <3>3. <<l>> \o <<r>> = <<l, r>>
        <4> DEFINE c == <<l>> \o <<r>>
                   d == <<l, r>>
        <4>1. /\ c \in Seq(Seq(Reading)) /\ Len(c) = Len(<<l>>) + Len(<<r>>)
              /\ \A i \in 1 .. Len(<<l>>) + Len(<<r>>) :
                    c[i] = IF i <= Len(<<l>>) THEN <<l>>[i] ELSE <<r>>[i - Len(<<l>>)]
          BY <3>1, ConcatProperties
        <4>2. Len(<<l>>) = 1 /\ Len(<<r>>) = 1 /\ <<l>>[1] = l /\ <<r>>[1] = r
          OBVIOUS
        <4>3. d \in Seq(Seq(Reading)) /\ Len(d) = 2 /\ d[1] = l /\ d[2] = r
          OBVIOUS
        <4> HIDE DEF c, d
        <4>4. Len(c) = 2 /\ c[1] = l /\ c[2] = r
          BY <4>1, <4>2
        <4>5. \A i \in 1 .. Len(c) : c[i] = d[i]
          BY <4>3, <4>4
        <4>6. c = d
          <5>1. c \in Seq(Seq(Reading)) /\ d \in Seq(Seq(Reading)) /\ Len(c) = Len(d)
            BY <4>1, <4>3, <4>4, Zenon
          <5>2. \A S : \A x, y \in Seq(S) :
                   (Len(x) = Len(y) /\ \A i \in 1 .. Len(x) : x[i] = y[i]) => x = y
            BY SeqEqual, Zenon
          <5> QED
            BY <4>5, <5>1, <5>2, Zenon
        <4> QED
          BY <4>6 DEF c, d
      <3> QED
        BY <3>2, <3>3, Zenon
    <2> HIDE DEF f, t
    <2>4. FlattenSeq(<<l>> \o t) = l \o (r \o f)
      BY <2>2, FlattenEnds
    <2>5. (l \o r) \o f = l \o (r \o f)
      BY <1>2, <1>3, <2>1, Zenon
    <2> QED
      BY <1>3, <2>1, <2>3, <2>4, <2>5, Zenon
  <1>8. CASE stack' = rest /\ out' = Append(out, Blob(run))
    <2>1. Pushed(out') = Append(Pushed(out), run)
      BY <1>4, <1>8, PushedAppend
    <2>2. FlattenSeq(Pushed(out')) \o FlattenSeq(stack') = (g \o run) \o f
      BY <1>6, <1>8, <2>1, Zenon
    <2>3. run \in Seq(Reading)
      BY <1>1
    <2> HIDE DEF f, g
    <2>4. (g \o run) \o f = g \o (run \o f)
      BY <1>2, <1>3, <1>6, <2>3, Zenon
    <2> QED
      BY <1>3, <2>2, <2>4, Zenon DEF g
  <1> QED
    BY <1>1, <1>7, <1>8

\* Splitting a window loses no point, repeats none and reorders none, whatever
\* the sizes of the blobs (storage.rs:578-607).
THEOREM SplitLosesNothing == Spec => []SplitKeepsRun
  <1>1. SplitKeepsRun <=>
           (window # None =>
              FlattenSeq(Pushed(out)) \o FlattenSeq(stack) = Merged(window))
    BY DEF SplitKeepsRun, Pushed
  <1>2. SplitKeepsRun' <=>
           (window' # None =>
              FlattenSeq(Pushed(out')) \o FlattenSeq(stack') = Merged(window)')
    BY DEF SplitKeepsRun, Pushed
  <1>3. Init => SplitKeepsRun
    BY <1>1 DEF Init
  <1>4. IInv /\ SplitKeepsRun /\ [Next]_vars => SplitKeepsRun'
    <2> SUFFICES ASSUME IInv, SplitKeepsRun, [Next]_vars PROVE SplitKeepsRun'
      OBVIOUS
    <2>1. CASE UNCHANGED <<raw, chunks, window, stack, out>>
      <3>1. window' = window /\ out' = out /\ stack' = stack
        BY <2>1
      <3>2. Merged(window)' = Merged(window)
        BY <2>1 DEF Merged, Run, RawRows, WindowChunks, WindowOf
      <3> QED
        BY <1>1, <1>2, <3>1, <3>2, Zenon
    <2>2. CASE window' = None
      BY <1>2, <2>2
    <2>3. CASE \E w \in 0 .. WindowOf(MaxTime) : CompactBegin(w)
      <3>1. PICK w \in 0 .. WindowOf(MaxTime) : CompactBegin(w)
        BY <2>3
      <3> DEFINE m == Merged(w)
      <3>2. m \in Seq(Reading)
        BY <3>1, MergedNewest DEF CompactBegin
      <3>3. /\ window' = w /\ stack' = <<m>> /\ out' = <<>>
            /\ UNCHANGED <<raw, chunks>>
        BY <3>1 DEF CompactBegin
      <3>4. Merged(window)' = m
        BY <3>3 DEF Merged, Run, RawRows, WindowChunks, WindowOf
      <3> HIDE DEF m
      <3>5. FlattenSeq(stack') = m
        <4>1. <<>> \in Seq(Seq(Reading)) /\ FlattenSeq(<<>>) = <<>> /\ <<m>> = Append(<<>>, m)
          BY EmptySeq DEF FlattenSeq
        <4>2. FlattenSeq(Append(<<>>, m)) = <<>> \o m
          BY <3>2, <4>1, FlattenEnds
        <4>3. <<>> \o m = m
          BY <3>2, ConcatEmptySeq
        <4> QED
          BY <3>3, <4>1, <4>2, <4>3, Zenon
      <3>6. FlattenSeq(Pushed(out')) = <<>>
        BY <3>3, EmptySeq DEF Pushed, FlattenSeq
      <3>7. <<>> \o m = m
        BY <3>2, ConcatEmptySeq
      <3> QED
        BY <1>2, <3>4, <3>5, <3>6, <3>7
    <2>4. CASE \E fits \in BOOLEAN : Encode(fits)
      <3>1. PICK fits \in BOOLEAN : Encode(fits)
        BY <2>4
      <3>2. UNCHANGED <<raw, chunks, window>>
        BY <3>1 DEF Encode
      <3>3. Merged(window)' = Merged(window)
        BY <3>2 DEF Merged, Run, RawRows, WindowChunks, WindowOf
      <3>4. FlattenSeq(Pushed(out')) \o FlattenSeq(stack')
              = FlattenSeq(Pushed(out)) \o FlattenSeq(stack)
        BY <3>1, EncodeKeepsRun
      <3> QED
        BY <1>1, <1>2, <3>2, <3>3, <3>4, Zenon
    <2>5. CASE ~(\E w \in 0 .. WindowOf(MaxTime) : CompactBegin(w))
               /\ ~(\E fits \in BOOLEAN : Encode(fits))
      <3>1. window' = None \/ UNCHANGED <<raw, chunks, window, stack, out>>
        BY <2>5 DEF Next, vars, Insert, CompactCommit, CompactFail, Ask
      <3> QED
        BY <2>1, <2>2, <3>1
    <2> QED
      BY <2>3, <2>4, <2>5
  <1> QED
    BY <1>3, <1>4, Invariant, PTL DEF Spec

-----------------------------------------------------------------------------
(* The axis of an answer.                                                  *)

\* The axis starts at the last multiple of the step that the request's start
\* is not before.
LEMMA AxisAligned ==
  ASSUME NEW rq \in Request, Valid(rq)
  PROVE  /\ rq.start \in Int /\ rq.end \in Int /\ rq.step \in Nat \ {0}
         /\ \E q \in Int : AxisStart(rq) = rq.step * q
         /\ AxisStart(rq) \in Int
         /\ AxisStart(rq) <= rq.start /\ rq.start < AxisStart(rq) + rq.step
  <1>1. rq.start \in Int /\ rq.end \in Int /\ rq.step \in Nat \ {0}
    BY PipelineAssumption DEF Valid
  <1>2. AxisStart(rq) = rq.step * (rq.start \div rq.step)
    BY <1>1, DivBounds DEF AxisStart
  <1> QED
    BY <1>1, <1>2, DivBounds

\* How many steps the axis has: enough to reach the end, none to spare, and
\* at most two more than the steps between start and end.
LEMMA AxisLength ==
  ASSUME NEW rq \in Request, Valid(rq)
  PROVE  \E n \in 1 .. MAX_BUCKETS + 2 :
            /\ n = (rq.end - AxisStart(rq) + rq.step - 1) \div rq.step
            /\ rq.end <= AxisStart(rq) + rq.step * n
            /\ Axis(rq) = [i \in 1 .. n |-> AxisStart(rq) + (i - 1) * rq.step]
  <1> DEFINE A == AxisStart(rq)
             d == rq.step
             n == (rq.end - A + d - 1) \div d
             k == (rq.end - rq.start) \div d
  <1>1. rq.start \in Int /\ rq.end \in Int /\ d \in Nat \ {0}
        /\ A \in Int /\ A <= rq.start /\ rq.start < A + d
    BY AxisAligned
  <1>2. rq.end > rq.start /\ k <= MAX_BUCKETS /\ MAX_BUCKETS \in Nat
    BY PipelineAssumption DEF Valid
  <1> HIDE DEF A, d
  <1>3. /\ n \in Int
        /\ rq.end - A + d - 1 < d * n + d /\ d * n <= rq.end - A + d - 1
    <2> DEFINE a == rq.end - A + d - 1
    <2>1. a \in Int
      BY <1>1
    <2> QED
      BY <1>1, <2>1, DivBounds
  <1>4. /\ k \in Int
        /\ rq.end - rq.start < d * k + d
    <2> DEFINE a == rq.end - rq.start
    <2>1. a \in Int
      BY <1>1
    <2> QED
      BY <1>1, <2>1, DivBounds
  <1> HIDE DEF n, k
  <1>5. rq.end <= A + d * n
    BY <1>1, <1>3
  <1>6. n >= 1
    <2>1. SUFFICES ASSUME n < 1 PROVE FALSE
      BY <1>3
    <2>2. d * n + d <= d * 1
      BY <1>1, <1>3, <2>1, Multiples
    <2> QED
      BY <1>1, <1>2, <1>3, <2>2
  <1>7. n <= k + 2
    <2>1. SUFFICES ASSUME k + 2 < n PROVE FALSE
      BY <1>3, <1>4
    <2>2. d * (k + 2) + d <= d * n
      BY <1>1, <1>3, <1>4, <2>1, Multiples
    <2>3. d * (k + 2) = d * k + d + d
      BY <1>1, <1>4, SMT
    <2>4. d * k + d + d + d <= rq.end - A + d - 1
      BY <1>1, <1>3, <1>4, <2>2, <2>3
    <2>5. rq.end - A < d * k + d + d
      BY <1>1, <1>4
    <2> QED
      BY <1>1, <1>4, <2>4, <2>5
  <1>8. n \in 1 .. MAX_BUCKETS + 2
    BY <1>2, <1>3, <1>4, <1>6, <1>7
  <1> QED
    BY <1>5, <1>8 DEF Axis, A, d, n

\* The index of a time of the axis is determined by any millisecond of its
\* bucket.
LEMMA OneBucket ==
  ASSUME NEW d \in Nat \ {0}, NEW A \in Int, NEW ms \in Int,
         NEW i \in Nat, NEW j \in Nat, i # j,
         A + (i - 1) * d <= ms, ms < A + (i - 1) * d + d
  PROVE  ms < A + (j - 1) * d \/ ms >= A + (j - 1) * d + d
  <1>1. (i - 1) * d = d * (i - 1) /\ (j - 1) * d = d * (j - 1)
        /\ d * (i - 1) \in Int /\ d * (j - 1) \in Int
    BY SMT
  <1>2. CASE i < j
    <2>1. d * (i - 1) + d <= d * (j - 1)
      BY <1>2, Multiples
    <2> QED
      BY <1>1, <2>1
  <1>3. CASE j < i
    <2>1. d * (j - 1) + d <= d * (i - 1)
      BY <1>3, Multiples
    <2> QED
      BY <1>1, <2>1
  <1> QED
    BY <1>2, <1>3

\* What AxisCovers says of an answer holds of the axis of every valid request.
LEMMA AxisOfRequest ==
  ASSUME NEW rq \in Request, Valid(rq)
  PROVE  LET t == Axis(rq)
             n == Len(t)
         IN  /\ n \in 1 .. MAX_BUCKETS + 2
             /\ \A i \in 1 .. n : t[i] % rq.step = 0
             /\ \A ms \in rq.start .. rq.end - 1 :
                  \E i \in 1 .. n :
                     /\ t[i] <= ms /\ ms < t[i] + rq.step
                     /\ \A j \in 1 .. n \ {i} : ms < t[j] \/ ms >= t[j] + rq.step
  <1> DEFINE A == AxisStart(rq)
             d == rq.step
             t == Axis(rq)
  <1>1. rq.start \in Int /\ rq.end \in Int /\ d \in Nat \ {0}
        /\ A \in Int /\ A <= rq.start
    BY AxisAligned
  <1>2. PICK q \in Int : A = d * q
    BY AxisAligned
  <1>3. PICK n \in 1 .. MAX_BUCKETS + 2 :
           /\ rq.end <= A + d * n
           /\ t = [i \in 1 .. n |-> A + (i - 1) * d]
    BY AxisLength
  <1>4. n \in Nat /\ MAX_BUCKETS \in Nat
    BY <1>3, PipelineAssumption
  <1> HIDE DEF A, d, t
  <1>5. Len(t) = n
    <2>1. DOMAIN t = 1 .. n
      BY <1>3
    <2>2. t \in Seq(Int)
      BY <1>1, <1>3, <1>4
    <2> QED
      BY <1>4, <2>1, <2>2
  <1>6. ASSUME NEW i \in 1 .. n
        PROVE  t[i] % d = 0
    <2>1. t[i] = d * (q + (i - 1)) + 0
      BY <1>1, <1>2, <1>3, <1>4, SMT
    <2>2. q + (i - 1) \in Int /\ 0 \in 0 .. d - 1
      BY <1>1, <1>4
    <2>3. (d * (q + (i - 1)) + 0) % d = 0
      BY <1>1, <2>2, DivUnique, Zenon
    <2> QED
      BY <2>1, <2>3, Zenon
  <1>7. ASSUME NEW ms \in rq.start .. rq.end - 1
        PROVE  \E i \in 1 .. n :
                  /\ t[i] <= ms /\ ms < t[i] + d
                  /\ \A j \in 1 .. n \ {i} : ms < t[j] \/ ms >= t[j] + d
    <2> DEFINE p == (ms - A) \div d
               i == p + 1
    <2>1. ms \in Int /\ ms - A \in Int /\ 0 <= ms - A /\ ms < rq.end
      BY <1>1
    <2>2. p \in Int /\ d * p \in Int /\ d * p <= ms - A /\ ms - A < d * p + d
      BY <1>1, <2>1, DivBounds
    <2> HIDE DEF p
    <2>3. p >= 0
      <3>1. SUFFICES ASSUME p < 0 PROVE FALSE
        BY <2>2
      <3>2. d * p + d <= d * 0
        BY <1>1, <2>2, <3>1, Multiples
      <3> QED
        BY <1>1, <2>1, <2>2, <3>2
    <2>4. p < n
      <3>1. SUFFICES ASSUME n <= p PROVE FALSE
        BY <1>4, <2>2
      <3>2. d * n <= d * p
        <4>1. CASE n = p
          BY <4>1, <2>2
        <4>2. CASE n < p
          <5>1. d * n + d <= d * p
            BY <1>1, <1>4, <2>2, <4>2, Multiples
          <5>2. d * n \in Int
            BY <1>1, <1>4, SMT
          <5> QED
            BY <1>1, <2>2, <5>1, <5>2
        <4> QED
          BY <1>4, <2>2, <3>1, <4>1, <4>2
      <3>3. PICK x \in Int, y \in Int : x = d * n /\ y = d * p
        BY <1>1, <1>4, <2>2, SMT
      <3>4. x <= y /\ y <= ms - A /\ rq.end <= A + x
        BY <1>3, <2>2, <3>2, <3>3
      <3> QED
        BY <1>1, <2>1, <3>4
    <2>5. i \in 1 .. n /\ i \in Nat
      BY <1>4, <2>2, <2>3, <2>4
    <2>6. A + (i - 1) * d <= ms /\ ms < A + (i - 1) * d + d
      <3>1. (i - 1) * d = d * p
        BY <1>1, <2>2, SMT
      <3> QED
        BY <1>1, <2>1, <2>2, <3>1
    <2>7. t[i] <= ms /\ ms < t[i] + d
      BY <1>3, <2>5, <2>6
    <2>8. ASSUME NEW j \in 1 .. n \ {i}
          PROVE  ms < t[j] \/ ms >= t[j] + d
      <3>1. j \in Nat /\ i # j
        BY <1>4
      <3>2. ms < A + (j - 1) * d \/ ms >= A + (j - 1) * d + d
        BY <1>1, <2>1, <2>5, <2>6, <3>1, OneBucket
      <3> QED
        BY <1>3, <3>2
    <2> QED
      BY <2>5, <2>7, <2>8
  <1> QED
    BY <1>3, <1>5, <1>6, <1>7 DEF d, t

\* The axis of every answer is regular and aligned, its length is bounded,
\* and its buckets hold every millisecond of the request but perhaps the last
\* in exactly one (api.rs:172-174, 205-211).
THEOREM AxisIsRegular == Spec => []AxisCovers
  <1>1. Init => AxisCovers
    BY DEF Init, Nothing, AxisCovers
  <1>2. AxisCovers /\ [Next]_vars => AxisCovers'
    <2> SUFFICES ASSUME AxisCovers, [Next]_vars
                 PROVE  AxisCovers'
      OBVIOUS
    <2>1. CASE reply' = Nothing
      BY <2>1 DEF Nothing, AxisCovers
    <2>2. CASE reply' = reply
      BY <2>2 DEF AxisCovers
    <2>3. CASE \E rq \in Request : Ask(rq)
      <3> PICK rq \in Request : Ask(rq)
        BY <2>3
      <3>1. CASE ~Valid(rq)
        BY <3>1 DEF Ask, Refused, AxisCovers
      <3>2. CASE Valid(rq)
        <4>1. reply'.request = rq /\ reply'.t = Axis(rq)
          BY <3>2 DEF Ask, Answer
        <4> QED
          BY <3>2, <4>1, AxisOfRequest DEF AxisCovers
      <3> QED
        BY <3>1, <3>2
    <2>4. ~(\E rq \in Request : Ask(rq)) => reply' \in {reply, Nothing}
      BY DEF Next, vars, Insert, CompactBegin, Encode, CompactCommit, CompactFail
    <2> QED
      BY <2>1, <2>2, <2>3, <2>4
  <1> QED
    BY <1>1, <1>2, PTL DEF Spec

-----------------------------------------------------------------------------
(* Ordered runs.                                                           *)

\* A run in the order of its seconds, none of which it has twice.
Increasing(s) == \A i, j \in DOMAIN s : i < j => s[i].ts < s[j].ts

\* At most one reading of each second.
OnePerSecond(S) == \A p, q \in S : p.ts = q.ts => p = q

\* A run of readings, one of each second, is all of them in order.
LEMMA RunOrdered ==
  ASSUME NEW S \in SUBSET Reading, OnePerSecond(S)
  PROVE  Run(S) \in Seq(Reading) /\ ToSet(Run(S)) = S /\ Increasing(Run(S))
  <1> DEFINE T == {r.ts : r \in S}
             n == Cardinality(T)
             Below(t) == {s \in T : s < t}
             e(k) == CHOOSE r \in S : Cardinality({t \in T : t < r.ts}) = k - 1
  <1>1. T \in SUBSET Second /\ Second \in SUBSET Int /\ IsFiniteSet(Second)
    BY PipelineAssumption, FS_Interval DEF Reading, Second
  <1>2. T \in SUBSET Int /\ IsFiniteSet(T) /\ n \in Nat
    BY <1>1, FS_Subset, FS_CardinalityType
  <1>3. \A r \in S : r.ts \in T
    OBVIOUS
  <1>4. \A t \in T : \E r \in S : r.ts = t
    OBVIOUS
  <1>5. Run(S) = [k \in 1 .. n |-> e(k)]
    BY DEF Run
  <1>6. ASSUME NEW t \in T
        PROVE  /\ IsFiniteSet(Below(t)) /\ Cardinality(Below(t)) \in Nat
               /\ Cardinality(Below(t)) + 1 \in 1 .. n
    <2> HIDE DEF T
    <2>1. Below(t) \in SUBSET T /\ T # Below(t)
      BY <1>2
    <2>2. IsFiniteSet(Below(t)) /\ Cardinality(Below(t)) <= n /\ n # Cardinality(Below(t))
      BY <1>2, <2>1, FS_Subset
    <2>3. Cardinality(Below(t)) \in Nat
      BY <2>2, FS_CardinalityType
    <2> QED
      BY <1>2, <2>2, <2>3
  <1>7. ASSUME NEW s \in T, NEW t \in T, s < t
        PROVE  Cardinality(Below(s)) < Cardinality(Below(t))
    <2> HIDE DEF T
    <2>1. s \in Int /\ t \in Int /\ \A x \in T : x \in Int
      BY <1>2
    <2>2. \A x \in Below(s) : x \in Below(t)
      BY <1>7, <2>1
    <2>3. s \in Below(t) /\ s \notin Below(s)
      BY <1>7, <2>1
    <2> HIDE DEF Below
    <2>4. Below(s) \in SUBSET Below(t) /\ Below(t) # Below(s)
      BY <2>2, <2>3
    <2>5. /\ Cardinality(Below(s)) <= Cardinality(Below(t))
          /\ Cardinality(Below(t)) # Cardinality(Below(s))
      BY <1>6, <2>4, FS_Subset
    <2> QED
      BY <1>6, <2>5
  <1> HIDE DEF T, n
  <1>8. ASSUME NEW k \in 1 .. n
        PROVE  e(k) \in S /\ Cardinality(Below(e(k).ts)) = k - 1
    <2>1. PICK t \in T : Cardinality(Below(t)) = k - 1
      BY <1>2, RankOnto DEF n
    <2>2. PICK r \in S : r.ts = t
      BY <1>4
    <2> DEFINE Q(q) == Cardinality({s \in T : s < q.ts}) = k - 1
    <2>3. Q(r)
      BY <2>1, <2>2
    <2>4. e(k) = CHOOSE q \in S : Q(q)
      BY Zenon
    <2> HIDE DEF Q, e
    <2>5. (CHOOSE q \in S : Q(q)) \in S /\ Q(CHOOSE q \in S : Q(q))
      BY <2>3
    <2>6. Q(e(k))
      BY <2>4, <2>5
    <2> QED
      BY <2>4, <2>5, <2>6 DEF Q
  <1> HIDE DEF e, Below
  <1> DEFINE u == Run(S)
  <1>9. u \in Seq(S) /\ u \in Seq(Reading) /\ DOMAIN u = 1 .. n /\ \A k \in 1 .. n : u[k] = e(k)
    <2>1. u \in [1 .. n -> S]
      BY <1>5, <1>8
    <2>2. u \in Seq(S)
      BY <1>2, <2>1
    <2> QED
      BY <1>5, <2>1, <2>2, SeqMonotonic
  <1> HIDE DEF u
  <1>10. Increasing(u)
    <2> SUFFICES ASSUME NEW i \in 1 .. n, NEW j \in 1 .. n, i < j
                 PROVE  e(i).ts < e(j).ts
      BY <1>9 DEF Increasing
    <2> DEFINE x == e(i).ts
               y == e(j).ts
    <2>1. /\ x \in T /\ Cardinality(Below(x)) = i - 1
          /\ y \in T /\ Cardinality(Below(y)) = j - 1
      BY <1>3, <1>8
    <2> HIDE DEF x, y
    <2>2. x \in Int /\ y \in Int /\ x # y /\ ~(y < x)
      BY <1>2, <1>7, <2>1
    <2>3. x < y
      BY <2>2
    <2> QED
      BY <2>3 DEF x, y
  <1>11. ToSet(u) = S
    <2>1. ASSUME NEW r \in S PROVE r \in ToSet(u)
      <3> DEFINE k == Cardinality(Below(r.ts)) + 1
      <3>1. r.ts \in T /\ k \in 1 .. n
        BY <1>3, <1>6
      <3>2. e(k) \in S /\ Cardinality(Below(e(k).ts)) = Cardinality(Below(r.ts)) /\ e(k).ts \in T
        <4>1. Cardinality(Below(r.ts)) \in Nat
          BY <1>6, <3>1
        <4>2. e(k) \in S /\ Cardinality(Below(e(k).ts)) = k - 1
          BY <1>8, <3>1
        <4> QED
          BY <1>3, <4>1, <4>2
      <3> HIDE DEF k
      <3>3. e(k).ts = r.ts
        <4> DEFINE x == e(k).ts
                   y == r.ts
        <4>1. x \in T /\ y \in T /\ Cardinality(Below(x)) = Cardinality(Below(y))
          BY <3>1, <3>2
        <4> HIDE DEF x, y
        <4>2. x \in Int /\ y \in Int /\ ~(x < y) /\ ~(y < x)
          BY <1>2, <1>6, <1>7, <4>1
        <4>3. x = y
          BY <4>2
        <4> QED
          BY <4>3 DEF x, y
      <3>4. e(k) = r
        BY <3>2, <3>3 DEF OnePerSecond
      <3> QED
        BY <1>9, <3>1, <3>4 DEF ToSet
    <2>2. ToSet(u) \in SUBSET S
      BY <1>9, Holds
    <2> QED
      BY <2>1, <2>2
  <1> QED
    BY <1>9, <1>10, <1>11 DEF u

\* A run in order is determined by what it holds.
LEMMA SameIncreasing ==
  ASSUME NEW a \in Seq(Reading), NEW b \in Seq(Reading), Increasing(a), Increasing(b),
         ToSet(a) = ToSet(b)
  PROVE  a = b
  <1> DEFINE Agrees(x, y, k) == k \in DOMAIN y /\ x[k] = y[k]
  <1>1. ASSUME NEW x \in Seq(Reading), NEW y \in Seq(Reading), Increasing(x), Increasing(y),
               ToSet(x) = ToSet(y), NEW m \in DOMAIN x,
               \A k \in DOMAIN x : k < m => Agrees(x, y, k),
               \A k \in DOMAIN y : k < m => Agrees(y, x, k)
        PROVE  /\ m \in DOMAIN y /\ x[m].ts >= y[m].ts
    <2>1. /\ DOMAIN x = 1 .. Len(x) /\ Len(x) \in Nat /\ \A k \in 1 .. Len(x) : x[k].ts \in Int
          /\ DOMAIN y = 1 .. Len(y) /\ Len(y) \in Nat /\ \A k \in 1 .. Len(y) : y[k].ts \in Int
      <3>1. \A r \in Reading : r.ts \in Int
        BY PipelineAssumption DEF Reading, Second
      <3> QED
        BY <3>1, LenProperties
    <2>2. PICK l \in DOMAIN y : y[l] = x[m]
      BY <1>1 DEF ToSet
    <2>3. ~(l < m)
      <3>1. SUFFICES ASSUME l < m PROVE FALSE
        OBVIOUS
      <3>2. l \in DOMAIN x /\ x[l] = x[m]
        BY <1>1, <2>2, <3>1
      <3> QED
        BY <1>1, <2>1, <3>1, <3>2 DEF Increasing
    <2>4. m \in DOMAIN y /\ (m = l \/ m < l)
      BY <1>1, <2>1, <2>2, <2>3
    <2> QED
      BY <1>1, <2>1, <2>2, <2>4 DEF Increasing
  <1> DEFINE n == Len(a)
             o == Len(b)
             T == {k \in Nat : k \in DOMAIN a \cup DOMAIN b /\ ~(Agrees(a, b, k) /\ Agrees(b, a, k))}
  <1>2. /\ DOMAIN a = 1 .. n /\ n \in Nat /\ \A k \in 1 .. n : a[k] \in Reading
        /\ DOMAIN b = 1 .. o /\ o \in Nat /\ \A k \in 1 .. o : b[k] \in Reading
    BY LenProperties
  <1> HIDE DEF n, o
  <1>3. T = {}
    <2>1. SUFFICES ASSUME T # {} PROVE FALSE
      OBVIOUS
    <2>2. PICK m \in T : \A t \in T : m <= t
      <3>1. T \in SUBSET Nat
        OBVIOUS
      <3> HIDE DEF T
      <3> QED
        BY <2>1, <3>1, Least
    <2>3. /\ \A k \in DOMAIN a : k < m => Agrees(a, b, k)
          /\ \A k \in DOMAIN b : k < m => Agrees(b, a, k)
      <3>1. ASSUME NEW k \in DOMAIN a \cup DOMAIN b, k < m PROVE Agrees(a, b, k) /\ Agrees(b, a, k)
        <4>1. k \in Nat /\ ~(m <= k)
          BY <1>2, <3>1
        <4> HIDE DEF Agrees
        <4> QED
          BY <2>2, <4>1
      <3> HIDE DEF Agrees
      <3> QED
        BY <3>1
    <2>4. m \in DOMAIN a => m \in DOMAIN b /\ a[m].ts >= b[m].ts
      <3> HIDE DEF Agrees, T
      <3> QED
        BY <1>1, <2>3
    <2>5. m \in DOMAIN b => m \in DOMAIN a /\ b[m].ts >= a[m].ts
      <3> HIDE DEF Agrees, T
      <3> QED
        BY <1>1, <2>3
    <2>6. m \in DOMAIN a /\ m \in DOMAIN b
      BY <2>2, <2>4, <2>5
    <2>7. a[m].ts = b[m].ts
      <3>1. a[m].ts \in Int /\ b[m].ts \in Int
        BY <1>2, <2>6 DEF Reading, Second
      <3> QED
        BY <2>4, <2>5, <2>6, <3>1
    <2>8. PICK l \in DOMAIN b : b[l] = a[m]
      BY <2>6 DEF ToSet
    <2>9. l = m
      <3>1. b[l].ts = b[m].ts /\ b[m].ts \in Int
        BY <1>2, <2>6, <2>7, <2>8 DEF Reading, Second
      <3> QED
        BY <1>2, <2>6, <2>8, <3>1 DEF Increasing
    <2> QED
      BY <2>2, <2>6, <2>8, <2>9
  <1>4. \A k \in Nat : k \in 1 .. n \cup 1 .. o => k \in 1 .. n /\ k \in 1 .. o /\ a[k] = b[k]
    BY <1>2, <1>3
  <1>5. n = o
    <2>1. n # 0 => n \in 1 .. n
      BY <1>2
    <2>2. o # 0 => o \in 1 .. o
      BY <1>2
    <2>3. n # 0 => n <= o
      BY <1>2, <1>4, <2>1
    <2>4. o # 0 => o <= n
      BY <1>2, <1>4, <2>2
    <2> QED
      BY <1>2, <2>3, <2>4
  <1>6. Len(a) = Len(b) /\ \A k \in 1 .. Len(a) : a[k] = b[k]
    BY <1>2, <1>4, <1>5 DEF n, o
  <1> QED
    BY <1>6, SeqEqual

-----------------------------------------------------------------------------
(* No second is stored twice, and none is lost.                            *)

\* The seconds a chunk is found by are those of its points.
Bounded == \A c \in chunks : \A p \in ToSet(c.run) : c.lo <= p.ts /\ p.ts <= c.hi

\* No two points of the chunks are of one second.
Apart ==
    \A c, d \in chunks : \A i \in DOMAIN c.run, j \in DOMAIN d.run :
       c.run[i].ts = d.run[j].ts => c = d /\ i = j

\* A chunk to be written bears the seconds its run starts and ends at.
Blobs == \A c \in ToSet(out) : c = Blob(c.run)

\* Each second of which a reading was handed over is stored.
Kept ==
    \A s \in Second : sent[s] # None =>
       raw[s] # None \/ \E c \in chunks : \E p \in ToSet(c.run) : p.ts = s

Once == Bounded /\ Apart /\ Blobs /\ Kept

\* The readings a compaction merges: one of each second it finds.
Merges(w) == {r \in RawRows : WindowOf(r.ts) = w}
               \cup {r \in UNION {ToSet(c.run) : c \in WindowChunks(w)} : raw[r.ts] = None}

\* Raw rows and what they do not override, from any chunks, are readings.
LEMMA MergesShape ==
  ASSUME IInv, Apart, NEW w
  PROVE  /\ Merges(w) \in SUBSET Reading /\ OnePerSecond(Merges(w))
         /\ \A r \in RawRows : r \in Reading /\ raw[r.ts] = r.value /\ raw[r.ts] # None
         /\ \A c \in chunks : c.run \in Seq(Reading) /\ \A p \in ToSet(c.run) : p \in Reading
  <1>1. ASSUME NEW r \in RawRows
        PROVE  r \in Reading /\ raw[r.ts] = r.value /\ raw[r.ts] # None
    <2>1. PICK s \in Second : raw[s] # None /\ r = [ts |-> s, value |-> raw[s]]
      BY DEF RawRows
    <2> QED
      BY <2>1 DEF IInv, Types, Reading
  <1>2. ASSUME NEW c \in chunks
        PROVE  c.run \in Seq(Reading) /\ \A p \in ToSet(c.run) : p \in Reading
    <2>1. c.run \in Seq(Reading)
      BY DEF IInv, Types, Chunk
    <2> QED
      BY <2>1, Holds
  <1>3. ASSUME NEW p \in Merges(w), NEW q \in Merges(w), p.ts = q.ts
        PROVE  p = q
    <2>1. CASE p \in RawRows /\ q \in RawRows
      BY <1>1, <1>3, <2>1 DEF Reading
    <2>2. CASE p \notin RawRows /\ q \notin RawRows
      <3>1. PICK c \in chunks, d \in chunks : p \in ToSet(c.run) /\ q \in ToSet(d.run)
        BY <2>2 DEF Merges, WindowChunks
      <3>2. PICK i \in DOMAIN c.run, j \in DOMAIN d.run : p = c.run[i] /\ q = d.run[j]
        BY <3>1 DEF ToSet
      <3> QED
        BY <1>3, <3>2 DEF Apart
    <2>3. p \in RawRows <=> q \in RawRows
      BY <1>1, <1>3 DEF Merges
    <2> QED
      BY <2>1, <2>2, <2>3
  <1>4. Merges(w) \in SUBSET Reading
    BY <1>1, <1>2 DEF Merges, WindowChunks
  <1> QED
    BY <1>1, <1>2, <1>3, <1>4 DEF OnePerSecond

\* What stands in a later run stands behind.
LEMMA Behind ==
  ASSUME NEW x \in Nat, NEW l \in Nat, NEW p \in 1 .. l,
         NEW y \in Nat, NEW m \in Nat, NEW q \in 1 .. m,
         NEW z, z = x + l, z <= y
  PROVE  x + p # y + q
  OBVIOUS

\* What an encoded window's chunks hold when all of it is encoded: every
\* reading merged, at one place each, in order.
LEMMA AllEncoded ==
  ASSUME IInv, Once, SplitKeepsRun, window # None, stack = <<>>
  PROVE  /\ \A c \in ToSet(out) : /\ c.run \in Seq(Reading) /\ Increasing(c.run)
                                  /\ ToSet(c.run) \subseteq Merges(window)
         /\ \A r \in Merges(window) : \E c \in ToSet(out) : r \in ToSet(c.run)
         /\ \A c, d \in ToSet(out) : \A i \in DOMAIN c.run, j \in DOMAIN d.run :
               c.run[i].ts = d.run[j].ts => c = d /\ i = j
  <1> DEFINE s == Pushed(out)
             n == Len(out)
             all == FlattenSeq(s)
  <1>1. /\ out \in Seq(Chunk) /\ n \in Nat /\ DOMAIN out = 1 .. n
        /\ \A a \in 1 .. n : out[a] \in Chunk
    BY LenProperties DEF IInv, Types
  <1>2. \A c \in Chunk : c.run \in Seq(Reading)
    BY DEF Chunk
  <1>3. s \in Seq(Seq(Reading)) /\ Len(s) = n /\ \A a \in 1 .. n : s[a] = out[a].run
    <2>1. s \in [1 .. n -> Seq(Reading)] /\ \A a \in 1 .. n : s[a] = out[a].run
      BY <1>1, <1>2 DEF Pushed
    <2> HIDE DEF s
    <2> QED
      BY <1>1, <2>1
  <1> HIDE DEF s, n
  <1>4. /\ all \in Seq(Reading) /\ DOMAIN all = 1 .. Len(all) /\ Len(all) \in Nat
        /\ \E off : Laid(off, s)
    BY <1>3, Flat, LenProperties
  <1>5. all \o <<>> = all
    BY <1>4, ConcatEmptySeq
  <1>6. all = Merged(window)
    <2>1. FlattenSeq(stack) = <<>>
      BY EmptySeq DEF FlattenSeq
    <2>2. all \o FlattenSeq(stack) = Merged(window)
      BY DEF SplitKeepsRun, s, Pushed
    <2> QED
      BY <1>5, <2>1, <2>2
  <1>7. Increasing(all) /\ ToSet(all) = Merges(window)
    <2>1. Merged(window) = Run(Merges(window))
      BY DEF Merged, Merges
    <2> HIDE DEF all
    <2> QED
      BY <1>6, <2>1, MergesShape, RunOrdered DEF Once
  <1>8. PICK off : Laid(off, s)
    BY <1>4
  <1> HIDE DEF all
  <1>9. /\ \A a \in 0 .. n : off[a] \in Nat
        /\ \A m \in 0 .. n : \A k \in 0 .. m : off[k] <= off[m]
        /\ \A a \in 1 .. n :
              /\ s[a] \in Seq(Reading) /\ DOMAIN s[a] = 1 .. Len(s[a]) /\ Len(s[a]) \in Nat
              /\ off[a] = off[a - 1] + Len(s[a])
              /\ \A i \in DOMAIN s[a] : /\ off[a - 1] + i \in DOMAIN all
                                        /\ all[off[a - 1] + i] = s[a][i]
        /\ \A j \in DOMAIN all : \E a \in 1 .. n : \E i \in DOMAIN s[a] : j = off[a - 1] + i
    <2>1. \A a \in 1 .. n : /\ s[a] \in Seq(Reading)
                            /\ DOMAIN s[a] = 1 .. Len(s[a]) /\ Len(s[a]) \in Nat
      BY <1>3, LenProperties
    <2>2. /\ all = FlattenSeq(s) /\ Len(s) = n /\ DOMAIN all = 1 .. Len(all)
      BY <1>3, <1>4 DEF all
    <2> HIDE DEF all
    <2>3. \A a \in 0 .. n : off[a] \in Nat
      BY <1>8, <2>2 DEF Laid
    <2>4. \A m \in 0 .. n : \A k \in 0 .. m : off[k] <= off[m]
      BY <1>8, <2>2 DEF Laid
    <2>5. \A a \in 1 .. n : off[a] = off[a - 1] + Len(s[a])
      BY <1>8, <2>2 DEF Laid
    <2>6. \A a \in 1 .. n : \A i \in DOMAIN s[a] : /\ off[a - 1] + i \in DOMAIN all
                                                    /\ all[off[a - 1] + i] = s[a][i]
      BY <1>8, <2>1, <2>2, Zenon DEF Laid
    <2>7. \A j \in DOMAIN all : \E a \in 1 .. n : \E i \in DOMAIN s[a] : j = off[a - 1] + i
      <3> SUFFICES ASSUME NEW j \in DOMAIN all
                   PROVE  \E a \in 1 .. n : \E i \in DOMAIN s[a] : j = off[a - 1] + i
        OBVIOUS
      <3>1. \E a \in 1 .. n : \E i \in 1 .. Len(s[a]) : j = off[a - 1] + i
        BY <1>8, <2>2, Zenon DEF Laid
      <3>2. PICK a \in 1 .. n : \E i \in 1 .. Len(s[a]) : j = off[a - 1] + i
        BY <3>1
      <3> QED
        BY <2>1, <3>2
    <2> QED
      BY <2>1, <2>3, <2>4, <2>5, <2>6, <2>7
  <1>10. \A p \in DOMAIN all, q \in DOMAIN all : all[p].ts = all[q].ts => p = q
    <2> SUFFICES ASSUME NEW p \in DOMAIN all, NEW q \in DOMAIN all, all[p].ts = all[q].ts, p # q
                 PROVE  FALSE
      OBVIOUS
    <2>1. p \in Int /\ q \in Int /\ all[p].ts \in Int
      <3>1. all[p] \in Reading
        BY <1>4, LenProperties
      <3> QED
        BY <1>4, <3>1, PipelineAssumption DEF Reading, Second
    <2>2. p < q \/ q < p
      BY <2>1
    <2> QED
      BY <1>7, <2>1, <2>2 DEF Increasing
  <1>11. ASSUME NEW a \in 1 .. n, NEW b \in 1 .. n, NEW i \in DOMAIN s[a], NEW j \in DOMAIN s[b],
                s[a][i].ts = s[b][j].ts
         PROVE  a = b /\ i = j
    <2>1. /\ a - 1 \in 0 .. n /\ b - 1 \in 0 .. n /\ a \in 0 .. n /\ b \in 0 .. n
          /\ (a < b => a \in 0 .. b - 1) /\ (b < a => b \in 0 .. a - 1)
      BY <1>1
    <2>2. off[a - 1] + i = off[b - 1] + j
      <3> DEFINE x == off[a - 1] + i
                 y == off[b - 1] + j
      <3>1. x \in DOMAIN all /\ all[x] = s[a][i] /\ y \in DOMAIN all /\ all[y] = s[b][j]
        BY <1>9
      <3> HIDE DEF x, y
      <3>2. x = y
        BY <1>10, <1>11, <3>1
      <3> QED
        BY <3>2 DEF x, y
    <2>3. /\ off[a - 1] \in Nat /\ off[a] = off[a - 1] + Len(s[a]) /\ i \in 1 .. Len(s[a])
          /\ off[b - 1] \in Nat /\ off[b] = off[b - 1] + Len(s[b]) /\ j \in 1 .. Len(s[b])
          /\ Len(s[a]) \in Nat /\ Len(s[b]) \in Nat
      BY <1>9, <2>1
    <2>4. ~(a < b)
      <3>1. SUFFICES ASSUME a < b PROVE FALSE
        OBVIOUS
      <3>2. off[a] <= off[b - 1]
        BY <1>9, <2>1, <3>1
      <3> QED
        BY <2>2, <2>3, <3>2, Behind
    <2>5. ~(b < a)
      <3>1. SUFFICES ASSUME b < a PROVE FALSE
        OBVIOUS
      <3>2. off[b] <= off[a - 1]
        BY <1>9, <2>1, <3>1
      <3> QED
        BY <2>2, <2>3, <3>2, Behind
    <2>6. a = b
      BY <1>1, <2>4, <2>5
    <2> QED
      BY <2>2, <2>3, <2>6
  <1>12. ASSUME NEW a \in 1 .. n
         PROVE  Increasing(s[a]) /\ ToSet(s[a]) \subseteq Merges(window)
    <2>1. a - 1 \in 0 .. n
      BY <1>1
    <2>2. Increasing(s[a])
      <3> SUFFICES ASSUME NEW i \in DOMAIN s[a], NEW j \in DOMAIN s[a], i < j
                   PROVE  s[a][i].ts < s[a][j].ts
        BY DEF Increasing
      <3>1. /\ off[a - 1] + i \in DOMAIN all /\ off[a - 1] + j \in DOMAIN all
            /\ all[off[a - 1] + i] = s[a][i] /\ all[off[a - 1] + j] = s[a][j]
            /\ off[a - 1] + i < off[a - 1] + j
        BY <1>9, <2>1
      <3> QED
        BY <1>7, <3>1 DEF Increasing
    <2>3. \A i \in DOMAIN s[a] : s[a][i] \in ToSet(all)
      BY <1>9 DEF ToSet
    <2> QED
      BY <1>7, <2>2, <2>3 DEF ToSet
  <1>13. ASSUME NEW r \in Merges(window)
         PROVE  \E a \in 1 .. n : r \in ToSet(s[a])
    <2>1. PICK p \in DOMAIN all : all[p] = r
      BY <1>7 DEF ToSet
    <2>2. PICK a \in 1 .. n : \E i \in DOMAIN s[a] : p = off[a - 1] + i
      BY <1>9
    <2>3. PICK i \in DOMAIN s[a] : p = off[a - 1] + i
      BY <2>2
    <2> QED
      BY <1>9, <2>1, <2>3 DEF ToSet
  <1>14. \A c \in ToSet(out) : \E a \in 1 .. n : c = out[a] /\ c.run = s[a]
    BY <1>1, <1>3 DEF ToSet
  <1>15. \A a \in 1 .. n : out[a] \in ToSet(out) /\ out[a].run = s[a]
    BY <1>1, <1>3 DEF ToSet
  <1>16. ASSUME NEW c \in ToSet(out), NEW d \in ToSet(out),
                NEW i \in DOMAIN c.run, NEW j \in DOMAIN d.run, c.run[i].ts = d.run[j].ts
         PROVE  c = d /\ i = j
    <2>1. PICK a \in 1 .. n, b \in 1 .. n : c = out[a] /\ c.run = s[a] /\ d = out[b] /\ d.run = s[b]
      BY <1>14
    <2> QED
      BY <1>11, <1>16, <2>1
  <1>17. ASSUME NEW c \in ToSet(out)
         PROVE  c.run \in Seq(Reading) /\ Increasing(c.run) /\ ToSet(c.run) \subseteq Merges(window)
    BY <1>9, <1>12, <1>14
  <1> QED
    BY <1>13, <1>15, <1>16, <1>17

\* A commit keeps each second once.
LEMMA OnceCommit ==
  ASSUME IInv, Once, SplitKeepsRun, CompactCommit
  PROVE  Once'
  <1>1. /\ window # None /\ stack = <<>>
        /\ chunks' = (chunks \ WindowChunks(window)) \cup ToSet(out)
        /\ raw' = [s \in Second |-> IF WindowOf(s) = window THEN None ELSE raw[s]]
        /\ out' = <<>> /\ sent' = sent
    BY DEF CompactCommit, Rewrite
  <1>2. /\ \A c \in ToSet(out) : /\ c.run \in Seq(Reading) /\ Increasing(c.run)
                                 /\ ToSet(c.run) \subseteq Merges(window)
        /\ \A r \in Merges(window) : \E c \in ToSet(out) : r \in ToSet(c.run)
        /\ \A c, d \in ToSet(out) : \A i \in DOMAIN c.run, j \in DOMAIN d.run :
              c.run[i].ts = d.run[j].ts => c = d /\ i = j
    BY <1>1, AllEncoded
  <1>3. \A c \in ToSet(out) : \A p \in ToSet(c.run) : WindowOf(p.ts) = window
    BY <1>1 DEF IInv, Compacted, InWindow
  <1>4. \A c \in chunks \ WindowChunks(window) :
           /\ WindowOf(c.lo) # window
           /\ \A p \in ToSet(c.run) : WindowOf(p.ts) = WindowOf(c.lo)
    BY DEF IInv, Filed, InWindow, WindowChunks
  <1>5. \A c : \A i \in DOMAIN c.run : c.run[i] \in ToSet(c.run)
    BY DEF ToSet
  <1>6. Apart'
    <2>1. ASSUME NEW c \in chunks', NEW d \in chunks', NEW i \in DOMAIN c.run, NEW j \in DOMAIN d.run,
                 c.run[i].ts = d.run[j].ts
          PROVE  c = d /\ i = j
      <3>1. CASE c \in ToSet(out) /\ d \in ToSet(out)
        BY <1>2, <2>1, <3>1
      <3>2. CASE c \notin ToSet(out) /\ d \notin ToSet(out)
        BY <1>1, <2>1, <3>2 DEF Once, Apart
      <3>3. CASE c \in ToSet(out) /\ d \notin ToSet(out)
        BY <1>1, <1>3, <1>4, <1>5, <2>1, <3>3
      <3>4. CASE c \notin ToSet(out) /\ d \in ToSet(out)
        BY <1>1, <1>3, <1>4, <1>5, <2>1, <3>4
      <3> QED
        BY <3>1, <3>2, <3>3, <3>4
    <2> QED
      BY <2>1 DEF Apart
  <1>7. Bounded'
    <2>1. ASSUME NEW c \in chunks', NEW p \in ToSet(c.run)
          PROVE  c.lo <= p.ts /\ p.ts <= c.hi
      <3>1. CASE c \in ToSet(out)
        <4> DEFINE run == c.run
                   n == Len(run)
        <4>1. c.lo = Head(run).ts /\ c.hi = Last(run).ts
          <5>1. c = Blob(run)
            BY <3>1 DEF Once, Blobs
          <5>2. Blob(run).lo = Head(run).ts /\ Blob(run).hi = Last(run).ts
            BY DEF Blob
          <5> QED
            BY <5>1, <5>2
        <4>2. run \in Seq(Reading) /\ Increasing(run)
          BY <1>2, <3>1
        <4> HIDE DEF run
        <4>3. DOMAIN run = 1 .. n /\ n \in Nat /\ \A k \in 1 .. n : run[k].ts \in Int
          <5>1. \A k \in 1 .. n : run[k] \in Reading
            BY <4>2, LenProperties
          <5> QED
            BY <4>2, <5>1, LenProperties, PipelineAssumption DEF Reading, Second
        <4>4. PICK k \in DOMAIN run : p = run[k]
          BY DEF ToSet, run
        <4>5. Head(run) = run[1] /\ Last(run) = run[n] /\ 1 \in DOMAIN run /\ n \in DOMAIN run
          BY <4>2, <4>3, <4>4 DEF Last
        <4> HIDE DEF n
        <4>6. run[1].ts <= run[k].ts
          <5>1. k = 1 \/ 1 < k
            BY <4>3, <4>4
          <5> QED
            BY <4>2, <4>3, <4>4, <4>5, <5>1 DEF Increasing
        <4>7. run[k].ts <= run[n].ts
          <5>1. k = n \/ k < n
            BY <4>3, <4>4
          <5> QED
            BY <4>2, <4>3, <4>4, <4>5, <5>1 DEF Increasing
        <4> QED
          BY <4>1, <4>4, <4>5, <4>6, <4>7
      <3>2. CASE c \in chunks
        BY <3>2 DEF Once, Bounded
      <3> QED
        BY <1>1, <3>1, <3>2
    <2> QED
      BY <2>1 DEF Bounded
  <1>8. Blobs'
    BY <1>1, EmptySeq DEF Blobs, ToSet
  <1>9. Kept'
    <2>1. ASSUME NEW s \in Second, sent[s] # None
          PROVE  raw'[s] # None \/ \E c \in chunks' : \E p \in ToSet(c.run) : p.ts = s
      <3>1. CASE WindowOf(s) # window
        <4>1. raw'[s] = raw[s]
          BY <1>1, <3>1
        <4>2. ASSUME NEW c \in chunks, NEW p \in ToSet(c.run), p.ts = s PROVE c \in chunks'
          <5>1. WindowOf(p.ts) = WindowOf(c.lo)
            BY DEF IInv, Filed, InWindow
          <5> QED
            BY <1>1, <3>1, <4>2, <5>1 DEF WindowChunks
        <4> QED
          BY <2>1, <4>1, <4>2 DEF Once, Kept
      <3>2. CASE WindowOf(s) = window
        <4>1. \E r \in Merges(window) : r.ts = s
          <5>1. CASE raw[s] # None
            <6> DEFINE r == [ts |-> s, value |-> raw[s]]
            <6>1. r \in RawRows /\ r.ts = s
              BY <5>1 DEF RawRows
            <6> HIDE DEF r
            <6> QED
              BY <3>2, <6>1 DEF Merges
          <5>2. CASE raw[s] = None
            <6>1. PICK c \in chunks : \E p \in ToSet(c.run) : p.ts = s
              BY <2>1, <5>2 DEF Once, Kept
            <6>2. PICK p \in ToSet(c.run) : p.ts = s
              BY <6>1
            <6>3. WindowOf(c.lo) = window
              BY <3>2, <6>2 DEF IInv, Filed, InWindow
            <6> QED
              BY <5>2, <6>2, <6>3 DEF Merges, WindowChunks
          <5> QED
            BY <5>1, <5>2
        <4> QED
          BY <1>1, <1>2, <4>1
      <3> QED
        BY <3>1, <3>2
    <2> QED
      BY <1>1, <2>1 DEF Kept
  <1> QED
    BY <1>6, <1>7, <1>8, <1>9 DEF Once
\* So does every other step.
LEMMA OnceStep ==
  ASSUME IInv, Once, SplitKeepsRun, [Next]_vars
  PROVE  Once'
  <1>1. CASE \E s \in Second : \E v \in Scraped[s] : Insert(s, v)
    <2> PICK s \in Second : \E v \in Scraped[s] : Insert(s, v)
      BY <1>1
    <2>1. PICK v \in Scraped[s] : Insert(s, v)
      OBVIOUS
    <2>2. /\ raw' = [raw EXCEPT ![s] = Quantize(v)] /\ Quantize(v) # None
          /\ sent' = [sent EXCEPT ![s] = v]
          /\ chunks' = chunks /\ out' = out
      <3>1. v \in Bits
        BY PipelineAssumption DEF Second
      <3> QED
        BY <2>1, <3>1, QuantizeBits DEF Insert
    <2>3. \A t \in Second : t # s => raw'[t] = raw[t] /\ sent'[t] = sent[t]
      BY <2>2 DEF IInv, Types
    <2>4. raw'[s] # None
      BY <2>2 DEF IInv, Types
    <2>5. Kept'
      <3> SUFFICES ASSUME NEW t \in Second, sent'[t] # None
                   PROVE  raw'[t] # None \/ \E c \in chunks' : \E p \in ToSet(c.run) : p.ts = t
        BY DEF Kept
      <3> QED
        BY <2>2, <2>3, <2>4 DEF Once, Kept
    <2> QED
      BY <2>2, <2>5 DEF Once, Bounded, Apart, Blobs
  <1>2. CASE \E w \in 0 .. WindowOf(MaxTime) : CompactBegin(w)
    BY <1>2, EmptySeq DEF CompactBegin, Once, Bounded, Apart, Blobs, Kept, ToSet
  <1>3. CASE \E fits \in BOOLEAN : Encode(fits)
    <2>1. PICK fits \in BOOLEAN : Encode(fits)
      BY <1>3
    <2>2. PICK run \in ToSet(stack), rest \in Seq(Seq(Reading)) :
             /\ run \in Seq(Reading) \ {<<>>}
             /\ out' = out \/ out' = Append(out, Blob(run))
      BY <2>1, EncodeShape
    <2>3. Blobs'
      <3>1. CASE out' = out
        BY <3>1 DEF Once, Blobs
      <3>2. CASE out' = Append(out, Blob(run))
        <4>1. Blob(run) \in Chunk /\ out \in Seq(Chunk)
          <5>1. Head(run) \in ToSet(run) /\ Last(run) \in ToSet(run) /\ ToSet(run) \in SUBSET Reading
            BY <2>2, Holds
          <5> QED
            BY <2>2, <5>1 DEF Blob, Chunk, Reading, IInv, Types
        <4>2. \A c \in ToSet(out') : c \in ToSet(out) \/ c = Blob(run)
          <5>1. ToSet(Append(out, Blob(run))) \subseteq ToSet(out) \cup {Blob(run)}
            BY <4>1, Holds
          <5> QED
            BY <3>2, <5>1
        <4>3. Blob(run).run = run
          BY DEF Blob
        <4>4. \A c \in ToSet(out) : c = Blob(c.run)
          BY DEF Once, Blobs
        <4>5. ASSUME NEW c \in ToSet(out') PROVE c = Blob(c.run)
          <5>1. CASE c \in ToSet(out)
            BY <4>4, <5>1
          <5>2. CASE c = Blob(run)
            BY <4>3, <5>2
          <5> QED
            BY <4>2, <5>1, <5>2
        <4> QED
          BY <4>5 DEF Blobs, Blob
      <3> QED
        BY <2>2, <3>1, <3>2
    <2>4. UNCHANGED <<raw, chunks, sent>>
      BY <2>1 DEF Encode
    <2> QED
      BY <2>3, <2>4 DEF Once, Bounded, Apart, Kept
  <1>4. CASE CompactCommit
    BY <1>4, OnceCommit
  <1>5. CASE CompactFail
    BY <1>5, EmptySeq DEF CompactFail, Once, Bounded, Apart, Blobs, Kept, ToSet
  <1>6. CASE \E rq \in Request : Ask(rq)
    BY <1>6 DEF Ask, Once, Bounded, Apart, Blobs, Kept
  <1>7. CASE UNCHANGED vars
    BY <1>7 DEF vars, Once, Bounded, Apart, Blobs, Kept
  <1> QED
    BY <1>1, <1>2, <1>3, <1>4, <1>5, <1>6, <1>7 DEF Next

\* Every reading handed over stays in the store, and no second twice among
\* the chunks, whatever is compacted, split or rolled back.
THEOREM StoredOnce == Spec => []Once
  <1>1. Init => Once
    BY EmptySeq DEF Init, Once, Bounded, Apart, Blobs, Kept, ToSet
  <1> QED
    BY <1>1, OnceStep, Invariant, SplitLosesNothing, PTL DEF Spec

-----------------------------------------------------------------------------
(* What a query reads from the chunks.                                     *)

\* A set and its image under a function that tells its elements apart are of
\* one size.
LEMMA SameSize ==
  ASSUME NEW I, NEW T, IsFiniteSet(T), NEW f \in [I -> T],
         \A p, q \in I : f[p] = f[q] => p = q, \A t \in T : \E p \in I : f[p] = t
  PROVE  IsFiniteSet(I) /\ Cardinality(I) = Cardinality(T)
  <1>1. f \in Injection(I, T)
    BY DEF Injection, IsInjective
  <1>2. f \in Surjection(I, T)
    BY DEF Surjection
  <1> QED
    BY <1>1, <1>2, FS_Injection

\* So it is with those below an element of either.
LEMMA SameRank ==
  ASSUME NEW I, NEW T \in SUBSET Int, IsFiniteSet(T), NEW f \in [I -> T],
         \A p, q \in I : f[p] = f[q] => p = q, \A t \in T : \E p \in I : f[p] = t,
         NEW p \in I
  PROVE  Cardinality({q \in I : f[q] < f[p]}) = Cardinality({t \in T : t < f[p]})
  <1> DEFINE J == {q \in I : f[q] < f[p]}
             U == {t \in T : t < f[p]}
             g == [q \in J |-> f[q]]
  <1>1. IsFiniteSet(U)
    BY FS_Subset
  <1>2. g \in [J -> U]
    OBVIOUS
  <1>3. \A a, b \in J : g[a] = g[b] => a = b
    OBVIOUS
  <1>4. \A t \in U : \E q \in J : g[q] = t
    OBVIOUS
  <1> HIDE DEF J, U, g
  <1>5. Cardinality(J) = Cardinality(U)
    BY <1>1, <1>2, <1>3, <1>4, SameSize
  <1> QED
    BY <1>5 DEF J, U

\* An element of a finite set of numbers is known by its rank.
LEMMA RankUnique ==
  ASSUME NEW T \in SUBSET Int, IsFiniteSet(T), NEW x \in T, NEW y \in T,
         Cardinality({s \in T : s < x}) = Cardinality({s \in T : s < y})
  PROVE  x = y
  <1> DEFINE Below(t) == {s \in T : s < t}
  <1>1. ASSUME NEW s \in T, NEW t \in T, s < t
        PROVE  Cardinality(Below(s)) # Cardinality(Below(t))
    <2>1. s \in Int /\ t \in Int /\ \A z \in T : z \in Int
      OBVIOUS
    <2>2. \A z \in Below(s) : z \in Below(t)
      BY <1>1, <2>1
    <2>3. s \in Below(t) /\ s \notin Below(s)
      BY <1>1, <2>1
    <2>4. IsFiniteSet(Below(t))
      BY FS_Subset
    <2> HIDE DEF Below
    <2>5. Below(s) \in SUBSET Below(t) /\ Below(t) # Below(s)
      BY <2>2, <2>3
    <2> QED
      BY <2>4, <2>5, FS_Subset
  <1>2. Cardinality(Below(x)) = Cardinality(Below(y))
    OBVIOUS
  <1> HIDE DEF Below
  <1>3. ~(x < y) /\ ~(y < x)
    BY <1>1, <1>2
  <1> QED
    BY <1>3

\* The points of the chunks a request is about.
PointsAsked(rq) == {p \in UNION {ToSet(c.run) : c \in chunks} : Asked(rq, p.ts)}

LEMMA PointsAskedShape ==
  ASSUME IInv, Once, NEW rq
  PROVE  PointsAsked(rq) \in SUBSET Reading /\ OnePerSecond(PointsAsked(rq))
  <1>1. \A c \in chunks : \A p \in ToSet(c.run) : p \in Reading
    <2> SUFFICES ASSUME NEW c \in chunks PROVE ToSet(c.run) \in SUBSET Reading
      OBVIOUS
    <2>1. c.run \in Seq(Reading)
      BY DEF IInv, Types, Chunk
    <2> QED
      BY <2>1, Holds
  <1>2. ASSUME NEW p \in PointsAsked(rq), NEW q \in PointsAsked(rq), p.ts = q.ts
        PROVE  p = q
    <2>1. PICK c \in chunks, d \in chunks : p \in ToSet(c.run) /\ q \in ToSet(d.run)
      BY DEF PointsAsked
    <2>2. PICK i \in DOMAIN c.run, j \in DOMAIN d.run : p = c.run[i] /\ q = d.run[j]
      BY <2>1 DEF ToSet
    <2> QED
      BY <1>2, <2>2 DEF Once, Apart
  <1> QED
    BY <1>1, <1>2 DEF PointsAsked, OnePerSecond

\* A query reads from the chunks that overlap a request all it asks for, in
\* the order of the seconds.
LEMMA ChunkPointsRun ==
  ASSUME IInv, Once, NEW rq \in Request
  PROVE  ChunkPoints(rq) = Run(PointsAsked(rq))
  <1> DEFINE S == PointsAsked(rq)
             T == {r.ts : r \in S}
             read == {c \in chunks : c.hi >= FirstSecond(rq) /\ c.lo <= LastSecond(rq)}
             At(p) == p[1].run[p[2]]
             I == {p \in UNION {{c} \X DOMAIN c.run : c \in read} : Asked(rq, At(p).ts)}
             Before(p, q) ==
               \/ At(p).ts < At(q).ts
               \/ At(p).ts = At(q).ts /\ \/ p[1].lo < q[1].lo
                                         \/ p[1].lo = q[1].lo /\ p[2] < q[2]
             x(k) == CHOOSE p \in I : Cardinality({q \in I : Before(q, p)}) = k - 1
             e(k) == CHOOSE r \in S : Cardinality({t \in T : t < r.ts}) = k - 1
  <1>1. ChunkPoints(rq) = [k \in 1 .. Cardinality(I) |-> At(x(k))]
    BY Zenon DEF ChunkPoints
  <1>2. Run(S) = [k \in 1 .. Cardinality(T) |-> e(k)]
    BY Zenon DEF Run
  <1>3. S \in SUBSET Reading /\ OnePerSecond(S)
    BY PointsAskedShape
  <1>4. T \in SUBSET Int /\ IsFiniteSet(T)
    <2>1. T \in SUBSET Second /\ Second \in SUBSET Int /\ IsFiniteSet(Second)
      BY <1>3, PipelineAssumption, FS_Interval DEF Reading, Second
    <2> QED
      BY <2>1, FS_Subset
  <1>5. FirstSecond(rq) \in Int /\ LastSecond(rq) \in Int
    <2>1. rq.start + Ms - 1 \in Int /\ rq.end \in Int /\ Ms \in Nat \ {0}
      BY PipelineAssumption
    <2> QED
      BY <2>1, DivMod DEF FirstSecond, LastSecond
  <1>6. \A c \in chunks : \A i \in DOMAIN c.run :
           c.run[i] \in ToSet(c.run) /\ i \in Nat /\ c.lo \in Int /\ c.hi \in Int
    <2> SUFFICES ASSUME NEW c \in chunks, NEW i \in DOMAIN c.run
                 PROVE  c.run[i] \in ToSet(c.run) /\ i \in Nat /\ c.lo \in Int /\ c.hi \in Int
      OBVIOUS
    <2>1. c.run \in Seq(Reading) /\ c.lo \in Second /\ c.hi \in Second
      BY DEF IInv, Types, Chunk
    <2>2. DOMAIN c.run = 1 .. Len(c.run) /\ Len(c.run) \in Nat
      BY <2>1, LenProperties
    <2>3. c.run[i] \in ToSet(c.run) /\ i \in Nat
      BY <2>2 DEF ToSet
    <2>4. \A s \in Second : s \in Int
      BY WindowNat
    <2> QED
      BY <2>1, <2>3, <2>4
  <1>7. ASSUME NEW p \in I
        PROVE  p[1] \in chunks /\ p[2] \in DOMAIN p[1].run /\ p = <<p[1], p[2]>> /\ At(p) \in S
    <2>1. PICK c \in read : p \in {c} \X DOMAIN c.run
      OBVIOUS
    <2>2. p[1] = c /\ p[2] \in DOMAIN c.run /\ p = <<p[1], p[2]>> /\ c \in chunks
      BY <2>1
    <2>3. At(p) \in ToSet(c.run) /\ Asked(rq, At(p).ts)
      BY <2>2 DEF ToSet
    <2> QED
      BY <2>2, <2>3 DEF PointsAsked
  <1>8. ASSUME NEW r \in S
        PROVE  \E p \in I : At(p) = r
    <2>1. PICK c \in chunks : r \in ToSet(c.run)
      BY DEF PointsAsked
    <2>2. PICK i \in DOMAIN c.run : r = c.run[i]
      BY <2>1 DEF ToSet
    <2>3. c.lo <= r.ts /\ r.ts <= c.hi /\ r.ts \in Int
      <3>1. c.lo <= r.ts /\ r.ts <= c.hi
        BY <2>1 DEF Once, Bounded
      <3>2. r \in Reading
        BY <1>3
      <3>3. r.ts \in Int
        <4>1. r.ts \in Second
          BY <3>2, Zenon DEF Reading
        <4>2. \A s \in Second : s \in Int
          BY WindowNat
        <4> QED
          BY <4>1, <4>2, Zenon
      <3> QED
        BY <3>1, <3>3, Zenon
    <2>4. Asked(rq, r.ts)
      BY DEF PointsAsked
    <2>5. c \in read
      BY <1>5, <1>6, <2>2, <2>3, <2>4 DEF Asked
    <2> DEFINE p == <<c, i>>
    <2>6. p \in {c} \X DOMAIN c.run /\ At(p) = r
      BY <2>2
    <2>7. p \in I
      BY <2>4, <2>5, <2>6
    <2> QED
      BY <2>6, <2>7
  <1>9. ASSUME NEW p \in I, NEW q \in I, At(p).ts = At(q).ts
        PROVE  p = q
    <2>1. p[1] = q[1] /\ p[2] = q[2]
      BY <1>7, <1>9 DEF Once, Apart
    <2> QED
      BY <1>7, <2>1
  <1>10. ASSUME NEW p \in I, NEW q \in I
         PROVE  Before(q, p) <=> At(q).ts < At(p).ts
    <2>1. CASE At(q).ts # At(p).ts
      BY <2>1
    <2>2. CASE At(q).ts = At(p).ts
      <3>1. q = p
        BY <1>9, <2>2
      <3>2. p[1].lo \in Int /\ p[2] \in Int /\ At(p).ts \in Int
        BY <1>3, <1>6, <1>7, WindowNat DEF Reading
      <3>3. ~(At(p).ts < At(p).ts) /\ ~(p[1].lo < p[1].lo) /\ ~(p[2] < p[2])
        BY <3>2
      <3> QED
        BY <3>1, <3>3
    <2> QED
      BY <2>1, <2>2
  <1> DEFINE f == [p \in I |-> At(p).ts]
  <1>11. f \in [I -> T] /\ \A p \in I : f[p] = At(p).ts /\ At(p) \in S
    BY <1>7
  <1>12. /\ \A p, q \in I : f[p] = f[q] => p = q
         /\ \A t \in T : \E p \in I : f[p] = t
    <2>1. \A t \in T : \E r \in S : r.ts = t
      OBVIOUS
    <2> HIDE DEF f, S, T, I, At
    <2>2. ASSUME NEW p \in I, NEW q \in I, f[p] = f[q]
          PROVE  p = q
      BY <1>9, <1>11, <2>2, Zenon
    <2>3. ASSUME NEW t \in T
          PROVE  \E p \in I : f[p] = t
      <3>1. PICK r \in S : r.ts = t
        BY <2>1
      <3>2. PICK p \in I : At(p) = r
        BY <1>8, Zenon
      <3> QED
        BY <1>11, <3>1, <3>2, Zenon
    <2> QED
      BY <2>2, <2>3, Zenon
  <1>13. ASSUME NEW p \in I
         PROVE  {q \in I : Before(q, p)} = {q \in I : f[q] < f[p]}
    BY <1>10
  <1> HIDE DEF S, T, I, Before, At, f
  <1>14. Cardinality(I) = Cardinality(T) /\ Cardinality(T) \in Nat
    BY <1>4, <1>11, <1>12, SameSize, FS_CardinalityType
  <1>15. ASSUME NEW p \in I
         PROVE  Cardinality({q \in I : Before(q, p)}) = Cardinality({t \in T : t < At(p).ts})
    <2>1. Cardinality({q \in I : f[q] < f[p]}) = Cardinality({t \in T : t < f[p]})
      BY <1>4, <1>11, <1>12, SameRank
    <2> QED
      BY <1>11, <1>13, <2>1
  <1>16. ASSUME NEW k \in 1 .. Cardinality(T)
         PROVE  At(x(k)) = e(k)
    <2>1. PICK t \in T : Cardinality({s \in T : s < t}) = k - 1
      BY <1>4, RankOnto
    <2>2. PICK p \in I : f[p] = t
      BY <1>12
    <2> DEFINE P(q) == Cardinality({s \in I : Before(s, q)}) = k - 1
               Q(r) == Cardinality({s \in T : s < r.ts}) = k - 1
    <2>3. P(p)
      BY <1>11, <1>15, <2>1, <2>2
    <2>4. Q(At(p)) /\ At(p) \in S
      BY <1>11, <2>1, <2>2
    <2>5. x(k) = CHOOSE q \in I : P(q)
      BY Zenon
    <2>6. e(k) = CHOOSE r \in S : Q(r)
      BY Zenon
    <2> HIDE DEF x, e
    <2>7. x(k) \in I /\ P(x(k))
      <3> HIDE DEF P
      <3>1. (CHOOSE q \in I : P(q)) \in I /\ P(CHOOSE q \in I : P(q))
        BY <2>3
      <3> QED
        BY <2>5, <3>1
    <2>8. e(k) \in S /\ Q(e(k))
      <3> HIDE DEF Q
      <3>1. (CHOOSE r \in S : Q(r)) \in S /\ Q(CHOOSE r \in S : Q(r))
        BY <2>4
      <3> QED
        BY <2>6, <3>1
    <2> DEFINE y == At(x(k)).ts
               z == e(k).ts
    <2>9. At(x(k)) \in S /\ y \in T /\ z \in T
      <3>1. At(x(k)) \in S
        BY <1>11, <2>7
      <3> QED
        BY <2>8, <3>1 DEF T
    <2>10. Cardinality({s \in T : s < y}) = k - 1 /\ Cardinality({s \in T : s < z}) = k - 1
      BY <1>15, <2>7, <2>8
    <2>11. y = z
      <3> HIDE DEF y, z
      <3> QED
        BY <1>4, <2>9, <2>10, RankUnique
    <2> QED
      BY <1>3, <2>8, <2>9, <2>11 DEF OnePerSecond
  <1> HIDE DEF x, e
  <1> QED
    BY <1>1, <1>2, <1>14, <1>16 DEF S

-----------------------------------------------------------------------------
(* The merge of two runs.                                                  *)

\* There is no reading in the run of none.
LEMMA RunEmpty == Run({}) = <<>>
  <1>1. Run({}) \in Seq({}) /\ Run({}) \in Seq(Reading)
    BY RunShape, SeqMonotonic
  <1>2. Len(Run({})) \in Nat /\ \A i \in 1 .. Len(Run({})) : Run({})[i] \in {}
    BY <1>1, LenProperties
  <1>3. Len(Run({})) = 0
    BY <1>2
  <1> QED
    BY <1>1, <1>3, EmptySeq

\* Whatever is in order is the run of what it holds.
LEMMA RunOf ==
  ASSUME NEW S \in SUBSET Reading, OnePerSecond(S),
         NEW a \in Seq(Reading), Increasing(a), ToSet(a) = S
  PROVE  a = Run(S)
  BY RunOrdered, SameIncreasing

\* A sequence in order has one reading of each second.
LEMMA IncreasingOnce ==
  ASSUME NEW a \in Seq(Reading), Increasing(a)
  PROVE  /\ ToSet(a) \in SUBSET Reading /\ OnePerSecond(ToSet(a))
         /\ DOMAIN a = 1 .. Len(a) /\ Len(a) \in Nat
         /\ \A i \in DOMAIN a : a[i] \in Reading /\ a[i] \in ToSet(a) /\ a[i].ts \in Int
  <1>1. DOMAIN a = 1 .. Len(a) /\ Len(a) \in Nat /\ \A i \in DOMAIN a : a[i] \in Reading
    BY LenProperties
  <1>2. \A i \in DOMAIN a : a[i] \in Reading /\ a[i] \in ToSet(a) /\ a[i].ts \in Int
    <2>1. \A r \in Reading : r.ts \in Int
      BY PipelineAssumption DEF Reading, Second
    <2> QED
      BY <1>1, <2>1 DEF ToSet
  <1>3. ToSet(a) \in SUBSET Reading
    BY Holds
  <1>4. ASSUME NEW p \in ToSet(a), NEW q \in ToSet(a), p.ts = q.ts
        PROVE  p = q
    <2>1. PICK i \in DOMAIN a, j \in DOMAIN a : p = a[i] /\ q = a[j]
      BY DEF ToSet
    <2>2. ~(a[i].ts < a[j].ts) /\ ~(a[j].ts < a[i].ts)
      BY <1>2, <1>4, <2>1
    <2>3. ~(i < j) /\ ~(j < i)
      BY <2>2 DEF Increasing
    <2>4. i = j
      BY <1>1, <2>3
    <2> QED
      BY <2>1, <2>4
  <1> QED
    BY <1>1, <1>2, <1>3, <1>4 DEF OnePerSecond

\* A reading before all others is the first of the run.
LEMMA RunFirst ==
  ASSUME NEW S \in SUBSET Reading, OnePerSecond(S), NEW r \in Reading,
         \A s \in S : r.ts < s.ts
  PROVE  Run({r} \cup S) = <<r>> \o Run(S)
  <1> DEFINE u == Run(S)
             a == <<r>> \o u
  <1>1. u \in Seq(Reading) /\ ToSet(u) = S /\ Increasing(u)
    BY RunOrdered
  <1>2. DOMAIN u = 1 .. Len(u) /\ Len(u) \in Nat /\ \A i \in DOMAIN u : u[i] \in S
    BY <1>1, IncreasingOnce
  <1>3. \A s \in Reading : s.ts \in Int
    BY PipelineAssumption DEF Reading, Second
  <1> HIDE DEF u
  <1>4. /\ a \in Seq(Reading) /\ Len(a) = 1 + Len(u)
        /\ \A i \in 1 .. 1 + Len(u) : a[i] = IF i <= 1 THEN r ELSE u[i - 1]
    <2>1. <<r>> \in Seq(Reading) /\ Len(<<r>>) = 1 /\ <<r>>[1] = r
      OBVIOUS
    <2>2. /\ a \in Seq(Reading) /\ Len(a) = Len(<<r>>) + Len(u)
          /\ \A i \in 1 .. Len(<<r>>) + Len(u) :
                a[i] = IF i <= Len(<<r>>) THEN <<r>>[i] ELSE u[i - Len(<<r>>)]
      BY <1>1, <2>1, ConcatProperties
    <2> HIDE DEF a
    <2>3. \A i \in 1 .. 1 + Len(u) : a[i] = IF i <= 1 THEN <<r>>[i] ELSE u[i - 1]
      BY <2>1, <2>2
    <2>4. \A i \in 1 .. 1 + Len(u) : i <= 1 => i = 1
      BY <1>2
    <2> QED
      BY <2>1, <2>2, <2>3, <2>4
  <1>5. DOMAIN a = 1 .. 1 + Len(u)
    BY <1>4, LenProperties
  <1> HIDE DEF a
  <1>6. a[1] = r /\ \A i \in DOMAIN u : i + 1 \in DOMAIN a /\ a[i + 1] = u[i]
    BY <1>2, <1>4, <1>5
  <1>7. \A i \in DOMAIN a : i = 1 \/ (i - 1 \in DOMAIN u /\ a[i] = u[i - 1])
    BY <1>2, <1>4, <1>5
  <1>8. Increasing(a)
    <2>1. ASSUME NEW i \in DOMAIN a, NEW j \in DOMAIN a, i < j
          PROVE  a[i].ts < a[j].ts
      <3>1. i \in Int /\ j \in Int /\ j # 1 /\ 1 <= i
        BY <1>2, <1>5, <2>1
      <3>2. j - 1 \in DOMAIN u /\ a[j] = u[j - 1]
        BY <1>7, <3>1
      <3>3. CASE i = 1
        BY <1>2, <1>6, <3>2, <3>3
      <3>4. CASE i # 1
        <4>1. i - 1 \in DOMAIN u /\ a[i] = u[i - 1] /\ i - 1 < j - 1
          BY <1>7, <2>1, <3>1, <3>4
        <4> QED
          BY <1>1, <3>2, <4>1 DEF Increasing
      <3> QED
        BY <3>3, <3>4
    <2> QED
      BY <2>1 DEF Increasing
  <1>9. ToSet(a) = {r} \cup S
    <2>1. \A s \in S : \E i \in DOMAIN u : s = u[i]
      BY <1>1 DEF ToSet
    <2>2. 1 \in DOMAIN a
      BY <1>2, <1>5
    <2>3. \A s \in {r} \cup S : \E i \in DOMAIN a : s = a[i]
      BY <1>6, <2>1, <2>2
    <2>4. \A i \in DOMAIN a : a[i] \in {r} \cup S
      BY <1>2, <1>6, <1>7
    <2> QED
      BY <2>3, <2>4 DEF ToSet
  <1>10. {r} \cup S \in SUBSET Reading /\ OnePerSecond({r} \cup S)
    <2>1. \A s \in S : s.ts # r.ts
      BY <1>3
    <2> QED
      BY <2>1 DEF OnePerSecond
  <1> QED
    BY <1>4, <1>8, <1>9, <1>10, RunOf DEF a, u

\* A reading after all others is the last.
LEMMA RunLast ==
  ASSUME NEW S \in SUBSET Reading, OnePerSecond(S), NEW r \in Reading,
         \A s \in S : s.ts < r.ts
  PROVE  Run(S \cup {r}) = Append(Run(S), r)
  <1> DEFINE u == Run(S)
             a == Append(u, r)
  <1>1. u \in Seq(Reading) /\ ToSet(u) = S /\ Increasing(u)
    BY RunOrdered
  <1>2. DOMAIN u = 1 .. Len(u) /\ Len(u) \in Nat /\ \A i \in DOMAIN u : u[i] \in S
    BY <1>1, IncreasingOnce
  <1>3. \A s \in Reading : s.ts \in Int
    BY PipelineAssumption DEF Reading, Second
  <1> HIDE DEF u
  <1>4. /\ a \in Seq(Reading) /\ DOMAIN a = 1 .. Len(u) + 1
        /\ \A i \in DOMAIN u : i \in DOMAIN a /\ a[i] = u[i]
        /\ a[Len(u) + 1] = r
    <2>1. /\ a \in Seq(Reading) /\ Len(a) = Len(u) + 1
          /\ \A i \in 1 .. Len(u) : a[i] = u[i]
          /\ a[Len(u) + 1] = r
      BY <1>1, AppendProperties
    <2>2. DOMAIN a = 1 .. Len(u) + 1
      BY <2>1, LenProperties
    <2> HIDE DEF a
    <2> QED
      BY <1>2, <2>1, <2>2
  <1> HIDE DEF a
  <1>5. \A i \in DOMAIN a : i \in DOMAIN u \/ i = Len(u) + 1
    BY <1>2, <1>4
  <1>6. Increasing(a)
    <2>1. ASSUME NEW i \in DOMAIN a, NEW j \in DOMAIN a, i < j
          PROVE  a[i].ts < a[j].ts
      <3>1. i \in DOMAIN u
        BY <1>2, <1>4, <2>1
      <3>2. CASE j \in DOMAIN u
        BY <1>1, <1>4, <2>1, <3>1, <3>2 DEF Increasing
      <3>3. CASE j = Len(u) + 1
        BY <1>2, <1>4, <3>1, <3>3
      <3> QED
        BY <1>5, <3>2, <3>3
    <2> QED
      BY <2>1 DEF Increasing
  <1>7. ToSet(a) = S \cup {r}
    <2>1. \A s \in S : \E i \in DOMAIN u : s = u[i]
      BY <1>1 DEF ToSet
    <2>2. Len(u) + 1 \in DOMAIN a
      BY <1>2, <1>4
    <2>3. \A s \in S \cup {r} : \E i \in DOMAIN a : s = a[i]
      BY <1>4, <2>1, <2>2
    <2>4. \A i \in DOMAIN a : a[i] \in S \cup {r}
      BY <1>2, <1>4, <1>5
    <2> QED
      BY <2>3, <2>4 DEF ToSet
  <1>8. S \cup {r} \in SUBSET Reading /\ OnePerSecond(S \cup {r})
    <2>1. \A s \in S : s.ts # r.ts
      BY <1>3
    <2> QED
      BY <2>1 DEF OnePerSecond
  <1> QED
    BY <1>4, <1>6, <1>7, <1>8, RunOf DEF a, u

\* What is left of a sequence from a position on.
From(a, i) == {a[k] : k \in i .. Len(a)}

\* What is left to merge: the rest of the raw rows, and of the rest of the
\* points those that no such row overrides.
Rest(points, samples, i, j) ==
    From(samples, j) \cup {p \in From(points, i) : \A s \in From(samples, j) : s.ts # p.ts}

\* The end of a run in order is the run of what is left.
LEMMA RunEnd ==
  ASSUME NEW a \in Seq(Reading), Increasing(a), NEW i \in 1 .. Len(a) + 1
  PROVE  /\ From(a, i) \in SUBSET ToSet(a) /\ OnePerSecond(From(a, i))
         /\ SubSeq(a, i, Len(a)) = Run(From(a, i))
         /\ i \in DOMAIN a =>
              /\ From(a, i) = {a[i]} \cup From(a, i + 1)
              /\ \A r \in From(a, i + 1) : a[i].ts < r.ts
  <1> DEFINE n == Len(a)
             e == SubSeq(a, i, n)
  <1>1. /\ DOMAIN a = 1 .. n /\ n \in Nat
        /\ ToSet(a) \in SUBSET Reading /\ OnePerSecond(ToSet(a))
        /\ \A k \in DOMAIN a : a[k] \in ToSet(a)
    BY IncreasingOnce
  <1>2. i \in Nat /\ i # 0 /\ i <= n + 1
    BY <1>1
  <1>3. \A k \in i .. n : k \in DOMAIN a
    BY <1>1, <1>2
  <1>4. From(a, i) \in SUBSET ToSet(a) /\ OnePerSecond(From(a, i))
    <2>1. \A r \in From(a, i) : r \in ToSet(a)
      BY <1>1, <1>3 DEF From
    <2> QED
      BY <1>1, <2>1 DEF OnePerSecond
  <1>5. /\ e \in Seq(Reading) /\ DOMAIN e = 1 .. n - i + 1
        /\ \A k \in 1 .. n - i + 1 : e[k] = a[i + k - 1]
    <2>1. \A k \in i .. n : a[k] \in Reading
      BY <1>1, <1>3
    <2>2. /\ e \in Seq(Reading) /\ Len(e) = IF i <= n THEN n - i + 1 ELSE 0
          /\ \A k \in 1 .. n - i + 1 : e[k] = a[i + k - 1]
      BY <1>1, <1>2, SubSeqProperties
    <2> HIDE DEF e
    <2>3. Len(e) = n - i + 1
      BY <1>1, <1>2, <2>2
    <2> QED
      BY <2>2, <2>3, LenProperties
  <1> HIDE DEF e, n
  <1>6. \A k \in DOMAIN e : i + k - 1 \in i .. n /\ i + k - 1 \in DOMAIN a /\ k \in Int
    BY <1>1, <1>2, <1>5
  <1>7. \A k \in i .. n : k - i + 1 \in DOMAIN e /\ i + (k - i + 1) - 1 = k
    BY <1>1, <1>2, <1>5
  <1>8. Increasing(e)
    <2>1. ASSUME NEW k \in DOMAIN e, NEW l \in DOMAIN e, k < l
          PROVE  e[k].ts < e[l].ts
      <3>1. i + k - 1 < i + l - 1
        BY <1>2, <1>6, <2>1
      <3> QED
        BY <1>5, <1>6, <3>1 DEF Increasing
    <2> QED
      BY <2>1 DEF Increasing
  <1>9. ToSet(e) = From(a, i)
    <2>1. ASSUME NEW k \in DOMAIN e PROVE \E l \in i .. n : e[k] = a[l]
      BY <1>5, <1>6
    <2>2. ASSUME NEW l \in i .. n PROVE \E k \in DOMAIN e : e[k] = a[l]
      BY <1>5, <1>7
    <2> QED
      BY <2>1, <2>2 DEF ToSet, From, n
  <1>10. e = Run(From(a, i))
    <2>1. From(a, i) \in SUBSET Reading
      BY <1>1, <1>4
    <2> QED
      BY <1>4, <1>5, <1>8, <1>9, <2>1, RunOf
  <1>11. ASSUME i \in DOMAIN a
         PROVE  /\ From(a, i) = {a[i]} \cup From(a, i + 1)
                /\ \A r \in From(a, i + 1) : a[i].ts < r.ts
    <2>1. i .. n = {i} \cup (i + 1 .. n) /\ \A k \in i + 1 .. n : k \in DOMAIN a /\ i < k
      BY <1>1, <1>2, <1>11
    <2>2. \A k \in i + 1 .. n : a[i].ts < a[k].ts
      BY <1>11, <2>1 DEF Increasing
    <2>3. From(a, i) = {a[i]} \cup From(a, i + 1)
      BY <2>1 DEF From, n
    <2> QED
      BY <2>2, <2>3 DEF From, n
  <1> QED
    BY <1>4, <1>10, <1>11 DEF e, n

\* One turn of the merge: what it puts first is the first of what is left.
LEMMA RestStep ==
  ASSUME NEW points \in Seq(Reading), Increasing(points),
         NEW samples \in Seq(Reading), Increasing(samples),
         NEW i \in 1 .. Len(points) + 1, NEW j \in 1 .. Len(samples) + 1
  PROVE  /\ Rest(points, samples, i, j) \in SUBSET Reading
         /\ OnePerSecond(Rest(points, samples, i, j))
         /\ i > Len(points) =>
              Run(Rest(points, samples, i, j)) = SubSeq(samples, j, Len(samples))
         /\ j > Len(samples) =>
              Run(Rest(points, samples, i, j)) = SubSeq(points, i, Len(points))
         /\ i \in DOMAIN points /\ j \in DOMAIN samples =>
              /\ points[i].ts < samples[j].ts =>
                   Run(Rest(points, samples, i, j))
                     = <<points[i]>> \o Run(Rest(points, samples, i + 1, j))
              /\ points[i].ts = samples[j].ts =>
                   Run(Rest(points, samples, i, j))
                     = <<samples[j]>> \o Run(Rest(points, samples, i + 1, j + 1))
              /\ points[i].ts > samples[j].ts =>
                   Run(Rest(points, samples, i, j))
                     = <<samples[j]>> \o Run(Rest(points, samples, i, j + 1))
  <1> DEFINE P(k) == From(points, k)
             S(k) == From(samples, k)
             R(k, l) == Rest(points, samples, k, l)
  <1>1. /\ DOMAIN points = 1 .. Len(points) /\ Len(points) \in Nat
        /\ ToSet(points) \in SUBSET Reading
        /\ \A k \in DOMAIN points : points[k] \in ToSet(points)
    BY IncreasingOnce
  <1>2. /\ DOMAIN samples = 1 .. Len(samples) /\ Len(samples) \in Nat
        /\ ToSet(samples) \in SUBSET Reading
        /\ \A k \in DOMAIN samples : samples[k] \in ToSet(samples)
    BY IncreasingOnce
  <1>3. \A k \in 1 .. Len(points) + 1 : P(k) \in SUBSET Reading /\ OnePerSecond(P(k))
    BY <1>1, RunEnd
  <1>4. \A k \in 1 .. Len(samples) + 1 : S(k) \in SUBSET Reading /\ OnePerSecond(S(k))
    BY <1>2, RunEnd
  <1>5. \A r \in Reading : r.ts \in Int
    BY PipelineAssumption DEF Reading, Second
  <1>6. \A k, l : R(k, l) = S(l) \cup {p \in P(k) : \A s \in S(l) : s.ts # p.ts}
    BY DEF Rest
  <1>7. ASSUME NEW k \in DOMAIN points
        PROVE  P(k) = {points[k]} \cup P(k + 1) /\ \A p \in P(k + 1) : points[k].ts < p.ts
    <2>1. k \in 1 .. Len(points) + 1
      BY <1>1
    <2> QED
      BY <2>1, RunEnd
  <1>8. ASSUME NEW l \in DOMAIN samples
        PROVE  S(l) = {samples[l]} \cup S(l + 1) /\ \A s \in S(l + 1) : samples[l].ts < s.ts
    <2>1. l \in 1 .. Len(samples) + 1
      BY <1>2
    <2> QED
      BY <2>1, RunEnd
  <1>9. SubSeq(points, i, Len(points)) = Run(P(i)) /\ SubSeq(samples, j, Len(samples)) = Run(S(j))
    BY RunEnd
  <1>10. i > Len(points) => P(i) = {}
    <2>1. i > Len(points) => i .. Len(points) = {}
      BY <1>1
    <2> QED
      BY <2>1 DEF From
  <1>11. j > Len(samples) => S(j) = {}
    <2>1. j > Len(samples) => j .. Len(samples) = {}
      BY <1>2
    <2> QED
      BY <2>1 DEF From
  <1>12. \A k \in 1 .. Len(points) + 1, l \in 1 .. Len(samples) + 1 :
            R(k, l) \in SUBSET Reading /\ OnePerSecond(R(k, l))
    <2> SUFFICES ASSUME NEW k \in 1 .. Len(points) + 1, NEW l \in 1 .. Len(samples) + 1
                 PROVE  R(k, l) \in SUBSET Reading /\ OnePerSecond(R(k, l))
      OBVIOUS
    <2> HIDE DEF P, S, R
    <2>1. P(k) \in SUBSET Reading /\ OnePerSecond(P(k)) /\ S(l) \in SUBSET Reading /\ OnePerSecond(S(l))
      BY <1>3, <1>4
    <2>2. R(k, l) = S(l) \cup {p \in P(k) : \A s \in S(l) : s.ts # p.ts}
      BY <1>6
    <2> QED
      BY <2>1, <2>2 DEF OnePerSecond
  <1> HIDE DEF P, S, R
  <1>13. i > Len(points) => R(i, j) = S(j)
    BY <1>6, <1>10
  <1>14. j > Len(samples) => R(i, j) = P(i)
    BY <1>6, <1>11
  <1>15. ASSUME i \in DOMAIN points, j \in DOMAIN samples
         PROVE  /\ points[i].ts < samples[j].ts =>
                     Run(R(i, j)) = <<points[i]>> \o Run(R(i + 1, j))
                /\ points[i].ts = samples[j].ts =>
                     Run(R(i, j)) = <<samples[j]>> \o Run(R(i + 1, j + 1))
                /\ points[i].ts > samples[j].ts =>
                     Run(R(i, j)) = <<samples[j]>> \o Run(R(i, j + 1))
    <2> DEFINE p == points[i]
               s == samples[j]
    <2>1. /\ i + 1 \in 1 .. Len(points) + 1 /\ j + 1 \in 1 .. Len(samples) + 1
          /\ p \in Reading /\ s \in Reading /\ p.ts \in Int /\ s.ts \in Int
      BY <1>1, <1>2, <1>5, <1>15
    <2>2. /\ P(i) = {p} \cup P(i + 1) /\ \A q \in P(i + 1) : p.ts < q.ts
          /\ S(j) = {s} \cup S(j + 1) /\ \A r \in S(j + 1) : s.ts < r.ts
      BY <1>7, <1>8, <1>15
    <2>3. /\ \A q \in P(i) : q.ts \in Int
          /\ \A r \in S(j) : r.ts \in Int
      BY <1>3, <1>4, <1>5
    <2> HIDE DEF p, s
    <2>4. \A k \in {i, i + 1}, l \in {j, j + 1} :
             /\ R(k, l) = S(l) \cup {q \in P(k) : \A r \in S(l) : r.ts # q.ts}
             /\ R(k, l) \in SUBSET Reading /\ OnePerSecond(R(k, l))
      BY <1>6, <1>12, <2>1
    <2>5. ASSUME p.ts < s.ts PROVE Run(R(i, j)) = <<p>> \o Run(R(i + 1, j))
      <3>1. \A r \in S(j) : p.ts < r.ts
        BY <2>1, <2>2, <2>3, <2>5
      <3>2. \A r \in S(j) : r.ts # p.ts
        BY <2>1, <3>1
      <3>3. R(i, j) = {p} \cup R(i + 1, j)
        BY <2>2, <2>4, <3>2
      <3>4. \A r \in R(i + 1, j) : p.ts < r.ts
        BY <2>2, <2>4, <3>1
      <3>5. Run({p} \cup R(i + 1, j)) = <<p>> \o Run(R(i + 1, j))
        BY <2>1, <2>4, <3>4, RunFirst
      <3> QED
        BY <3>3, <3>5
    <2>6. ASSUME p.ts = s.ts PROVE Run(R(i, j)) = <<s>> \o Run(R(i + 1, j + 1))
      <3>1. \A q \in P(i + 1) : s.ts < q.ts /\ q.ts # s.ts
        BY <2>1, <2>2, <2>3, <2>6
      <3>2. R(i, j) = {s} \cup R(i + 1, j + 1)
        BY <2>2, <2>4, <2>6, <3>1
      <3>3. \A r \in R(i + 1, j + 1) : s.ts < r.ts
        BY <2>2, <2>4, <3>1
      <3>4. Run({s} \cup R(i + 1, j + 1)) = <<s>> \o Run(R(i + 1, j + 1))
        BY <2>1, <2>4, <3>3, RunFirst
      <3> QED
        BY <3>2, <3>4
    <2>7. ASSUME p.ts > s.ts PROVE Run(R(i, j)) = <<s>> \o Run(R(i, j + 1))
      <3>1. \A q \in P(i) : s.ts < q.ts /\ q.ts # s.ts
        BY <2>1, <2>2, <2>3, <2>7
      <3>2. R(i, j) = {s} \cup R(i, j + 1)
        BY <2>2, <2>4, <3>1
      <3>3. \A r \in R(i, j + 1) : s.ts < r.ts
        BY <2>2, <2>4, <3>1
      <3>4. Run({s} \cup R(i, j + 1)) = <<s>> \o Run(R(i, j + 1))
        BY <2>1, <2>4, <3>3, RunFirst
      <3> QED
        BY <3>2, <3>4
    <2> QED
      BY <2>5, <2>6, <2>7 DEF p, s
  <1> QED
    BY <1>9, <1>12, <1>13, <1>14, <1>15, Zenon DEF R

\* What is put before what is left once a turn of the merge is done.
Turn(points, samples, f, i, j) ==
    IF i > Len(points) THEN SubSeq(samples, j, Len(samples))
    ELSE IF j > Len(samples) THEN SubSeq(points, i, Len(points))
    ELSE IF points[i].ts < samples[j].ts
         THEN <<points[i]>> \o f[<<i + 1, j>>]
    ELSE <<samples[j]>> \o f[<<IF points[i].ts = samples[j].ts THEN i + 1 ELSE i, j + 1>>]

\* The runs of what is left follow one from the other as the merge goes on.
LEMMA RestTurn ==
  ASSUME NEW points \in Seq(Reading), Increasing(points),
         NEW samples \in Seq(Reading), Increasing(samples), NEW g,
         \A i \in 1 .. Len(points) + 1, j \in 1 .. Len(samples) + 1 :
            g[<<i, j>>] = Run(Rest(points, samples, i, j)),
         NEW i \in 1 .. Len(points) + 1, NEW j \in 1 .. Len(samples) + 1
  PROVE  g[<<i, j>>] = Turn(points, samples, g, i, j)
  <1>1. /\ DOMAIN points = 1 .. Len(points) /\ Len(points) \in Nat
        /\ DOMAIN samples = 1 .. Len(samples) /\ Len(samples) \in Nat
        /\ \A k \in DOMAIN points : points[k].ts \in Int
        /\ \A k \in DOMAIN samples : samples[k].ts \in Int
    BY IncreasingOnce
  <1>2. g[<<i, j>>] = Run(Rest(points, samples, i, j))
    OBVIOUS
  <1>3. CASE i > Len(points)
    BY <1>2, <1>3, RestStep DEF Turn
  <1>4. CASE ~(i > Len(points)) /\ j > Len(samples)
    BY <1>2, <1>4, RestStep DEF Turn
  <1>5. CASE ~(i > Len(points)) /\ ~(j > Len(samples))
    <2>1. /\ i \in DOMAIN points /\ i + 1 \in 1 .. Len(points) + 1
          /\ j \in DOMAIN samples /\ j + 1 \in 1 .. Len(samples) + 1
      BY <1>1, <1>5
    <2>2. /\ g[<<i + 1, j>>] = Run(Rest(points, samples, i + 1, j))
          /\ g[<<i + 1, j + 1>>] = Run(Rest(points, samples, i + 1, j + 1))
          /\ g[<<i, j + 1>>] = Run(Rest(points, samples, i, j + 1))
      BY <2>1
    <2>3. points[i].ts \in Int /\ samples[j].ts \in Int
      BY <1>1, <2>1
    <2>4. CASE points[i].ts < samples[j].ts
      <3>1. Run(Rest(points, samples, i, j)) = <<points[i]>> \o Run(Rest(points, samples, i + 1, j))
        BY <2>1, <2>4, RestStep
      <3>2. Turn(points, samples, g, i, j) = <<points[i]>> \o g[<<i + 1, j>>]
        BY <1>5, <2>4, Zenon DEF Turn
      <3> QED
        BY <1>2, <2>2, <3>1, <3>2, Zenon
    <2>5. CASE points[i].ts = samples[j].ts
      <3>1. Run(Rest(points, samples, i, j))
              = <<samples[j]>> \o Run(Rest(points, samples, i + 1, j + 1))
        BY <2>1, <2>5, RestStep
      <3>2. ~(points[i].ts < samples[j].ts)
        BY <2>3, <2>5
      <3>3. Turn(points, samples, g, i, j) = <<samples[j]>> \o g[<<i + 1, j + 1>>]
        BY <1>5, <2>5, <3>2, Zenon DEF Turn
      <3> QED
        BY <1>2, <2>2, <3>1, <3>3, Zenon
    <2>6. CASE points[i].ts > samples[j].ts
      <3>1. Run(Rest(points, samples, i, j))
              = <<samples[j]>> \o Run(Rest(points, samples, i, j + 1))
        BY <2>1, <2>6, RestStep
      <3>2. ~(points[i].ts < samples[j].ts) /\ points[i].ts # samples[j].ts
        BY <2>3, <2>6
      <3>3. Turn(points, samples, g, i, j) = <<samples[j]>> \o g[<<i, j + 1>>]
        BY <1>5, <3>2, Zenon DEF Turn
      <3> QED
        BY <1>2, <2>2, <3>1, <3>3, Zenon
    <2> QED
      BY <2>3, <2>4, <2>5, <2>6
  <1> QED
    BY <1>3, <1>4, <1>5

\* Two runs in order are merged into the run of both, less the points that a
\* raw row overrides.
LEMMA Merging ==
  ASSUME NEW points \in Seq(Reading), Increasing(points),
         NEW samples \in Seq(Reading), Increasing(samples)
  PROVE  MergeRuns(points, samples)
           = Run(ToSet(samples) \cup {p \in ToSet(points) : \A s \in ToSet(samples) : s.ts # p.ts})
  <1> DEFINE n == Len(points)
             m == Len(samples)
             D == (1 .. n + 1) \X (1 .. m + 1)
             R(f) == [at \in D |-> Turn(points, samples, f, at[1], at[2])]
             it == CHOOSE f : f = R(f)
             g == [at \in D |-> Run(Rest(points, samples, at[1], at[2]))]
  <1>1. MergeRuns(points, samples) = it[<<1, 1>>]
    BY Zenon DEF MergeRuns, Turn
  <1>2. /\ DOMAIN points = 1 .. n /\ n \in Nat /\ DOMAIN samples = 1 .. m /\ m \in Nat
    BY IncreasingOnce
  <1>3. \A i \in 1 .. n + 1, j \in 1 .. m + 1 : g[<<i, j>>] = Run(Rest(points, samples, i, j))
    OBVIOUS
  <1>4. ASSUME NEW at \in D
        PROVE  /\ at[1] \in 1 .. n + 1 /\ at[2] \in 1 .. m + 1 /\ at = <<at[1], at[2]>>
               /\ g[at] = Turn(points, samples, g, at[1], at[2])
    <2>1. at[1] \in 1 .. n + 1 /\ at[2] \in 1 .. m + 1 /\ at = <<at[1], at[2]>>
      OBVIOUS
    <2> HIDE DEF g
    <2>2. g[<<at[1], at[2]>>] = Turn(points, samples, g, at[1], at[2])
      BY <1>3, <2>1, RestTurn
    <2> QED
      BY <2>1, <2>2, Zenon
  <1>5. g = R(g)
    <2> DEFINE h == R(g)
    <2>1. DOMAIN g = D /\ DOMAIN h = D /\ \A at \in D : h[at] = Turn(points, samples, g, at[1], at[2])
      BY Zenon
    <2>2. g = [at \in D |-> g[at]] /\ h = [at \in D |-> h[at]]
      BY Zenon
    <2> HIDE DEF g, h, D
    <2> QED
      BY <1>4, <2>1, <2>2
  <1>6. it = R(it)
    <2> HIDE DEF R
    <2> QED
      BY <1>5
  <1>7. ASSUME NEW i \in 1 .. n + 1, NEW j \in 1 .. m + 1
        PROVE  it[<<i, j>>] = Turn(points, samples, it, i, j)
    <2>1. <<i, j>> \in D /\ <<i, j>>[1] = i /\ <<i, j>>[2] = j
      OBVIOUS
    <2>2. R(it)[<<i, j>>] = Turn(points, samples, it, i, j)
      <3> HIDE DEF it, D
      <3> QED
        BY <2>1
    <2> HIDE DEF it, R
    <2> QED
      BY <1>6, <2>2, Zenon
  <1> HIDE DEF it, g, R, D
  <1>8. ASSUME NEW i \in 1 .. n + 1, NEW j \in 1 .. m + 1
        PROVE  g[<<i, j>>] = Turn(points, samples, g, i, j)
    BY <1>3, RestTurn, Zenon
  <1> HIDE DEF n, m
  <1> DEFINE Left(i, j) == (n + 1 - i) + (m + 1 - j)
             T == {k \in Nat : \E i \in 1 .. n + 1 : \E j \in 1 .. m + 1 :
                                  k = Left(i, j) /\ it[<<i, j>>] # g[<<i, j>>]}
  <1>9. T = {}
    <2>1. SUFFICES ASSUME T # {} PROVE FALSE
      OBVIOUS
    <2>2. PICK k \in T : \A t \in T : k <= t
      <3>1. T \in SUBSET Nat
        OBVIOUS
      <3> HIDE DEF T
      <3> QED
        BY <2>1, <3>1, Least
    <2>3. PICK i \in 1 .. n + 1, j \in 1 .. m + 1 : k = Left(i, j) /\ it[<<i, j>>] # g[<<i, j>>]
      OBVIOUS
    <2>4. ASSUME NEW a \in 1 .. n + 1, NEW b \in 1 .. m + 1, Left(a, b) < k
          PROVE  it[<<a, b>>] = g[<<a, b>>]
      <3>1. Left(a, b) \in Nat
        BY <1>2
      <3>2. ~(k <= Left(a, b))
        BY <2>3, <2>4, <3>1
      <3>3. Left(a, b) \notin T
        BY <2>2, <3>2
      <3> QED
        BY <3>1, <3>3
    <2>b1. i \in Int /\ j \in Int /\ n \in Int /\ m \in Int /\ 1 <= i /\ 1 <= j
      BY <1>2
    <2>b2. k = (n + 1 - i) + (m + 1 - j)
      BY <2>3
    <2> HIDE DEF T
    <2>5. ASSUME i <= n PROVE i + 1 \in 1 .. n + 1 /\ Left(i + 1, j) < k
      BY <2>b1, <2>b2, <2>5
    <2>6. ASSUME j <= m PROVE j + 1 \in 1 .. m + 1 /\ Left(i, j + 1) < k
      BY <2>b1, <2>b2, <2>6
    <2>7. ASSUME i <= n, j <= m PROVE Left(i + 1, j + 1) < k
      BY <2>b1, <2>b2, <2>7
    <2> HIDE DEF Left, T
    <2>8. Turn(points, samples, it, i, j) = Turn(points, samples, g, i, j)
      <3>1. i \in Int /\ j \in Int /\ n \in Int /\ m \in Int
        BY <1>2
      <3>2. CASE i > n \/ j > m
        BY <3>2, Zenon DEF Turn, n, m
      <3>3. CASE i <= n /\ j <= m
        <4>1. /\ it[<<i + 1, j>>] = g[<<i + 1, j>>]
              /\ it[<<i, j + 1>>] = g[<<i, j + 1>>]
              /\ it[<<i + 1, j + 1>>] = g[<<i + 1, j + 1>>]
          BY <2>4, <2>5, <2>6, <2>7, <3>3
        <4> DEFINE x == IF points[i].ts = samples[j].ts THEN i + 1 ELSE i
        <4>2. x = i + 1 \/ x = i
          OBVIOUS
        <4> HIDE DEF x
        <4>3. it[<<x, j + 1>>] = g[<<x, j + 1>>]
          BY <4>1, <4>2
        <4> QED
          BY <4>1, <4>3, Zenon DEF Turn, x
      <3> QED
        BY <3>1, <3>2, <3>3
    <2> QED
      BY <1>7, <1>8, <2>3, <2>8, Zenon
  <1>10. it[<<1, 1>>] = g[<<1, 1>>]
    <2>1. 1 \in 1 .. n + 1 /\ 1 \in 1 .. m + 1 /\ Left(1, 1) \in Nat
      BY <1>2
    <2> HIDE DEF Left
    <2> QED
      BY <1>9, <2>1
  <1>11. g[<<1, 1>>] = Run(Rest(points, samples, 1, 1))
    <2>1. 1 \in 1 .. n + 1 /\ 1 \in 1 .. m + 1
      BY <1>2
    <2> QED
      BY <1>3, <2>1
  <1>12. From(points, 1) = ToSet(points) /\ From(samples, 1) = ToSet(samples)
    BY <1>2 DEF From, ToSet, n, m
  <1> QED
    BY <1>1, <1>10, <1>11, <1>12 DEF Rest

-----------------------------------------------------------------------------
(* What is merged for a request.                                           *)

\* A quotient is not below a number exactly if the number's multiple is not
\* above what is divided.
LEMMA DivAtLeast ==
  ASSUME NEW a \in Int, NEW d \in Nat \ {0}, NEW k \in Int
  PROVE  k <= a \div d <=> d * k <= a
  <1> DEFINE q == a \div d
             x == d * q
             y == d * k
  <1>1. q \in Int /\ x \in Int /\ x <= a /\ a < x + d /\ d \in Int
    BY DivBounds
  <1>2. y \in Int
    BY SMT
  <1>3. k < q => y + d <= x
    BY <1>1, Multiples
  <1>4. q < k => x + d <= y
    BY <1>1, Multiples
  <1>5. k = q => y = x
    OBVIOUS
  <1> HIDE DEF q, x, y
  <1>6. k <= q <=> y <= a
    BY <1>1, <1>2, <1>3, <1>4, <1>5
  <1> QED
    BY <1>6 DEF q, y

\* The seconds admitted are those whose milliseconds lie in the request.
LEMMA AskedMs ==
  ASSUME NEW rq \in Request, NEW s \in Second
  PROVE  /\ Asked(rq, s) <=> rq.start <= s * Ms /\ s * Ms <= rq.end
         /\ s * Ms \in Int /\ s \in Int
  <1> DEFINE y == Ms * s
             a == rq.start + Ms - 1
  <1>1. rq.start \in Int /\ rq.end \in Int /\ Ms \in Nat \ {0} /\ s \in Int
    BY PipelineAssumption DEF Second
  <1>2. y \in Int /\ s * Ms = y /\ Ms * (s + 1) = y + Ms /\ a \in Int /\ a \div Ms \in Int
    <2>1. y \in Int /\ s * Ms = y /\ Ms * (s + 1) = y + Ms /\ a \in Int
      BY <1>1, SMT
    <2> QED
      BY <1>1, <2>1, DivMod
  <1>3. s <= rq.end \div Ms <=> y <= rq.end
    BY <1>1, DivAtLeast
  <1>4. s + 1 <= a \div Ms <=> Ms * (s + 1) <= a
    <2>1. s + 1 \in Int
      BY <1>1
    <2> HIDE DEF a
    <2> QED
      BY <1>1, <1>2, <2>1, DivAtLeast
  <1>5. FirstSecond(rq) = a \div Ms /\ LastSecond(rq) = rq.end \div Ms
    BY DEF FirstSecond, LastSecond
  <1>6. Asked(rq, s) <=> rq.start <= y /\ y <= rq.end
    <2>1. a \div Ms <= s <=> ~(s + 1 <= a \div Ms)
      BY <1>1, <1>2
    <2>2. y + Ms <= a <=> ~(rq.start <= y)
      BY <1>1, <1>2
    <2> HIDE DEF a, y
    <2> QED
      BY <1>2, <1>3, <1>4, <1>5, <2>1, <2>2 DEF Asked
  <1> QED
    BY <1>1, <1>2, <1>6

\* The seconds of a request of which a reading was handed over, and the
\* newest reading of each, rounded.
Due(rq)  == {s \in Second : sent[s] # None /\ rq.start <= s * Ms /\ s * Ms <= rq.end}
Exact(s) == [ts |-> s, value |-> Quantize(sent[s])]

LEMMA ExactShape ==
  ASSUME IInv
  PROVE  \A s \in Second : sent[s] # None => /\ Exact(s) \in Reading /\ Exact(s).ts = s
                                             /\ Exact(s).value = Quantize(sent[s])
  <1> SUFFICES ASSUME NEW s \in Second, sent[s] # None
               PROVE  Exact(s) \in Reading /\ Exact(s).ts = s /\ Exact(s).value = Quantize(sent[s])
    OBVIOUS
  <1>1. sent[s] \in Bits
    BY DEF IInv, Types
  <1>2. Quantize(sent[s]) \in Bits
    BY <1>1, QuantizeBits
  <1> QED
    BY <1>2 DEF Exact, Reading

\* A reading that is the newest of its second is exact.
LEMMA NewestExact ==
  ASSUME IInv, NEW p \in Reading, Newest(p)
  PROVE  p = Exact(p.ts) /\ p.ts \in Second /\ sent[p.ts] # None
  <1>1. sent[p.ts] \in Bits /\ p.value = Quantize(sent[p.ts]) /\ p.ts \in Second
    BY DEF Newest, Reading
  <1>2. sent[p.ts] # None
    BY <1>1, QuantizeBits
  <1>3. p = [ts |-> p.ts, value |-> p.value]
    BY DEF Reading
  <1> QED
    BY <1>1, <1>2, <1>3, Zenon DEF Exact

\* What is merged for a request is the newest reading of each of its seconds,
\* rounded, in order.
LEMMA MergedDue ==
  ASSUME IInv, Once, NEW rq \in Request
  PROVE  /\ MergeRuns(ChunkPoints(rq), Samples(rq)) = Run({Exact(s) : s \in Due(rq)})
         /\ {Exact(s) : s \in Due(rq)} \in SUBSET Reading
         /\ OnePerSecond({Exact(s) : s \in Due(rq)})
  <1> DEFINE W == {r \in RawRows : Asked(rq, r.ts)}
             P == PointsAsked(rq)
             Q == {Exact(s) : s \in Due(rq)}
             M == W \cup {p \in P : \A r \in W : r.ts # p.ts}
  <1>1. \A s \in Due(rq) : s \in Second /\ sent[s] # None /\ Asked(rq, s)
    BY AskedMs DEF Due
  <1>2. \A s \in Second : sent[s] # None /\ Asked(rq, s) => s \in Due(rq)
    BY AskedMs DEF Due
  <1>3. \A s \in Due(rq) : Exact(s) \in Reading /\ Exact(s).ts = s
    BY <1>1, ExactShape
  <1>4. Q \in SUBSET Reading /\ OnePerSecond(Q)
    BY <1>3 DEF OnePerSecond
  <1>5. \A r \in RawRows : /\ r \in Reading /\ raw[r.ts] = r.value /\ raw[r.ts] # None
                           /\ r = [ts |-> r.ts, value |-> raw[r.ts]]
    <2> SUFFICES ASSUME NEW r \in RawRows
                 PROVE  /\ r \in Reading /\ raw[r.ts] = r.value /\ raw[r.ts] # None
                        /\ r = [ts |-> r.ts, value |-> raw[r.ts]]
      OBVIOUS
    <2>1. r \in Reading /\ raw[r.ts] = r.value /\ raw[r.ts] # None
      BY MergesShape DEF Once
    <2> QED
      BY <2>1 DEF Reading
  <1>6. W \in SUBSET Reading /\ OnePerSecond(W)
    BY <1>5 DEF OnePerSecond
  <1>7. P \in SUBSET Reading /\ OnePerSecond(P)
    BY PointsAskedShape
  <1>8. /\ Samples(rq) \in Seq(Reading) /\ Increasing(Samples(rq)) /\ ToSet(Samples(rq)) = W
    BY <1>6, RunOrdered DEF Samples
  <1>9. /\ ChunkPoints(rq) \in Seq(Reading) /\ Increasing(ChunkPoints(rq)) /\ ToSet(ChunkPoints(rq)) = P
    BY <1>7, ChunkPointsRun, RunOrdered
  <1>10. MergeRuns(ChunkPoints(rq), Samples(rq)) = Run(M)
    <2> DEFINE x == ChunkPoints(rq)
               y == Samples(rq)
    <2>1. /\ x \in Seq(Reading) /\ Increasing(x) /\ ToSet(x) = P
          /\ y \in Seq(Reading) /\ Increasing(y) /\ ToSet(y) = W
      BY <1>8, <1>9
    <2> HIDE DEF x, y, P, W
    <2> QED
      BY <2>1, Merging DEF x, y
  <1>11. \A s \in Second : raw[s] # None =>
            /\ [ts |-> s, value |-> raw[s]] \in RawRows
            /\ Asked(rq, s) => [ts |-> s, value |-> raw[s]] \in W
    BY DEF RawRows
  <1>12. ASSUME NEW p \in M
         PROVE  p \in Q
    <2>1. p \in Reading /\ Asked(rq, p.ts) /\ Newest(p)
      <3>1. CASE p \in W
        <4>1. raw[p.ts] # None /\ p = [ts |-> p.ts, value |-> raw[p.ts]] /\ p.ts \in Second
          BY <1>5, <1>6, <3>1 DEF Reading
        <4>2. Newest([ts |-> p.ts, value |-> raw[p.ts]])
          BY <4>1 DEF IInv, RawNewest
        <4>3. Newest(p)
          BY <4>1, <4>2, Zenon
        <4> QED
          BY <1>6, <3>1, <4>3
      <3>2. CASE p \in P /\ \A r \in W : r.ts # p.ts
        <4>1. p.ts \in Second /\ Asked(rq, p.ts)
          BY <1>7, <3>2 DEF Reading, PointsAsked
        <4>2. raw[p.ts] = None
          <5> DEFINE r == [ts |-> p.ts, value |-> raw[p.ts]]
          <5>1. raw[p.ts] # None => r \in W
            BY <1>11, <4>1
          <5>2. r.ts = p.ts
            OBVIOUS
          <5> HIDE DEF r
          <5> QED
            BY <3>2, <5>1, <5>2
        <4>3. Newest(p)
          BY <3>2, <4>2 DEF IInv, Filed, PointsAsked
        <4> QED
          BY <1>7, <3>2, <4>1, <4>3
      <3> QED
        BY <3>1, <3>2
    <2>2. p = Exact(p.ts) /\ p.ts \in Second /\ sent[p.ts] # None
      BY <2>1, NewestExact
    <2>3. p.ts \in Due(rq)
      BY <1>2, <2>1, <2>2
    <2> QED
      BY <2>2, <2>3
  <1>13. ASSUME NEW s \in Due(rq)
         PROVE  Exact(s) \in M
    <2>1. s \in Second /\ sent[s] # None /\ Asked(rq, s)
      BY <1>1
    <2>2. CASE raw[s] # None
      <3> DEFINE r == [ts |-> s, value |-> raw[s]]
      <3>1. r \in W /\ r.ts = s
        BY <1>11, <2>1, <2>2
      <3>2. r \in Reading /\ Newest(r)
        BY <1>6, <2>1, <2>2, <3>1 DEF IInv, RawNewest
      <3> HIDE DEF r
      <3>3. r = Exact(s)
        BY <3>1, <3>2, NewestExact
      <3> QED
        BY <3>1, <3>3
    <2>3. CASE raw[s] = None
      <3>1. PICK c \in chunks : \E p \in ToSet(c.run) : p.ts = s
        BY <2>1, <2>3 DEF Once, Kept
      <3>2. PICK p \in ToSet(c.run) : p.ts = s
        BY <3>1
      <3>3. p \in P
        BY <2>1, <3>2 DEF PointsAsked
      <3>4. Newest(p) /\ p \in Reading
        BY <1>7, <2>3, <3>2, <3>3 DEF IInv, Filed
      <3>5. p = Exact(s)
        BY <3>2, <3>4, NewestExact
      <3>6. \A r \in W : r.ts # p.ts
        BY <1>5, <2>3, <3>2
      <3> QED
        BY <3>3, <3>5, <3>6
    <2> QED
      BY <2>2, <2>3
  <1> HIDE DEF M
  <1>14. M = Q
    BY <1>12, <1>13
  <1> QED
    BY <1>4, <1>10, <1>14

-----------------------------------------------------------------------------
(* The buckets.                                                            *)

\* A bucket starts at a multiple of the step, and holds the milliseconds from
\* there to the next.
LEMMA BucketHolds ==
  ASSUME NEW rq \in Request, Valid(rq), NEW s \in Second
  PROVE  /\ BucketOf(rq, s) \in Int /\ s * Ms \in Int /\ rq.step \in Nat \ {0}
         /\ \E k \in Int : BucketOf(rq, s) = rq.step * k
         /\ \A k \in Int : BucketOf(rq, s) = rq.step * k
                             <=> rq.step * k <= s * Ms /\ s * Ms < rq.step * k + rq.step
  <1> DEFINE d == rq.step
             a == s * Ms
             q == a \div d
  <1>1. d \in Nat \ {0} /\ a \in Int
    BY AskedMs, PipelineAssumption DEF Valid
  <1> HIDE DEF d, a
  <1>2. q \in Int /\ d * q \in Int /\ d * q <= a /\ a < d * q + d
    BY <1>1, DivBounds
  <1> HIDE DEF q
  <1>3. q * d = d * q
    BY <1>1, <1>2, SMT
  <1>4. BucketOf(rq, s) = d * q
    BY <1>3, Zenon DEF BucketOf, d, a, q
  <1>5. ASSUME NEW k \in Int
        PROVE  d * q = d * k <=> d * k <= a /\ a < d * k + d
    <2> DEFINE x == d * q
               y == d * k
    <2>1. x \in Int /\ y \in Int /\ x <= a /\ a < x + d /\ d \in Int /\ d > 0
      BY <1>1, <1>2, SMT
    <2>2. k < q => y + d <= x
      BY <1>1, <1>2, Multiples
    <2>3. q < k => x + d <= y
      BY <1>1, <1>2, Multiples
    <2>4. k = q => y = x
      OBVIOUS
    <2> HIDE DEF x, y
    <2>5. x = y <=> y <= a /\ a < y + d
      BY <1>1, <1>2, <2>1, <2>2, <2>3, <2>4
    <2> QED
      BY <2>5 DEF x, y
  <1> QED
    BY <1>1, <1>2, <1>4, <1>5, Zenon DEF d, a

\* A later second is in no earlier bucket.
LEMMA BucketGrows ==
  ASSUME NEW rq \in Request, Valid(rq), NEW s \in Second, NEW t \in Second, s < t
  PROVE  BucketOf(rq, s) <= BucketOf(rq, t)
  <1> DEFINE d == rq.step
             x == s * Ms
             y == t * Ms
  <1>1. PICK k \in Int : BucketOf(rq, s) = d * k
    BY BucketHolds
  <1>2. PICK l \in Int : BucketOf(rq, t) = d * l
    BY BucketHolds
  <1>3. d \in Nat \ {0} /\ x \in Int /\ y \in Int /\ d * k \in Int /\ d * l \in Int
    BY <1>1, <1>2, BucketHolds
  <1>4. d * k <= x /\ y < d * l + d
    BY <1>1, <1>2, BucketHolds
  <1>5. x <= y
    <2>1. s \in Int /\ t \in Int /\ Ms \in Nat \ {0}
      BY AskedMs, PipelineAssumption DEF Second
    <2>2. Ms * s + Ms <= Ms * t /\ Ms * s \in Int /\ Ms * t \in Int /\ s * Ms = Ms * s /\ t * Ms = Ms * t
      BY <2>1, Multiples, SMT
    <2> QED
      BY <2>1, <2>2
  <1>6. ~(l < k)
    <2>1. SUFFICES ASSUME l < k PROVE FALSE
      OBVIOUS
    <2>2. d * l + d <= d * k
      BY <1>3, <2>1, Multiples
    <2> HIDE DEF d, x, y
    <2> QED
      BY <1>3, <1>4, <1>5, <2>2
  <1>7. CASE k = l
    BY <1>1, <1>2, <1>3, <1>7
  <1>8. CASE k < l
    <2>1. d * k + d <= d * l
      BY <1>3, <1>8, Multiples
    <2> HIDE DEF d
    <2> QED
      BY <1>1, <1>2, <1>3, <2>1
  <1> QED
    BY <1>6, <1>7, <1>8

Bucket == [ts : Int, run : Seq(Reading)]

\* Buckets that hold some readings: in order, each the run of the readings
\* that fall in it, of which there is one, and for each reading one.
Bucketed(rq, b, S) ==
    /\ b \in Seq(Bucket) /\ Increasing(b)
    /\ \A x \in DOMAIN b : b[x].run = Run({q \in S : BucketOf(rq, q.ts) = b[x].ts})
    /\ \A x \in DOMAIN b : \E q \in S : BucketOf(rq, q.ts) = b[x].ts
    /\ \A q \in S : \E x \in DOMAIN b : BucketOf(rq, q.ts) = b[x].ts

\* The last bucket has one more reading.
Grown(b, c, r) ==
    /\ DOMAIN c = DOMAIN b /\ Len(b) \in DOMAIN b
    /\ \A x \in DOMAIN b : x # Len(b) => c[x] = b[x]
    /\ c[Len(b)].ts = b[Len(b)].ts /\ c[Len(b)].run = Append(b[Len(b)].run, r)

\* What adding a reading makes of the buckets.
LEMMA AddShape ==
  ASSUME NEW rq \in Request, Valid(rq), NEW b \in Seq(Bucket), NEW r \in Reading
  PROVE  /\ AddTo(rq, b, r) \in Seq(Bucket)
         /\ b # <<>> /\ Last(b).ts = BucketOf(rq, r.ts) => Grown(b, AddTo(rq, b, r), r)
         /\ ~(b # <<>> /\ Last(b).ts = BucketOf(rq, r.ts)) =>
              AddTo(rq, b, r) = Append(b, [ts |-> BucketOf(rq, r.ts), run |-> <<r>>])
  <1> DEFINE t == BucketOf(rq, r.ts)
             n == Len(b)
             new == [ts |-> t, run |-> <<r>>]
             c == [b EXCEPT ![n].run = Append(@, r)]
  <1>1. t \in Int
    BY BucketHolds DEF Reading
  <1>2. n \in Nat /\ DOMAIN b = 1 .. n /\ b \in [1 .. n -> Bucket]
    BY LenProperties
  <1>3. new \in Bucket
    <2> HIDE DEF t
    <2>1. <<r>> \in Seq(Reading)
      OBVIOUS
    <2> QED
      BY <1>1, <2>1 DEF Bucket
  <1>4. Append(b, new) \in Seq(Bucket)
    <2> HIDE DEF new
    <2> QED
      BY <1>3, AppendProperties
  <1>5. ASSUME b # <<>>
        PROVE  /\ c \in Seq(Bucket) /\ DOMAIN c = DOMAIN b /\ n \in DOMAIN b
               /\ \A x \in DOMAIN b : x # n => c[x] = b[x]
               /\ c[n].ts = b[n].ts /\ c[n].run = Append(b[n].run, r)
    <2>1. n \in 1 .. n
      BY <1>2, <1>5, EmptySeq
    <2>2. b[n] \in Bucket /\ b[n].run \in Seq(Reading) /\ b[n].ts \in Int
      BY <1>2, <2>1 DEF Bucket
    <2> DEFINE z == [b[n] EXCEPT !.run = Append(b[n].run, r)]
    <2>3. Append(b[n].run, r) \in Seq(Reading)
      BY <2>2, AppendProperties
    <2>4. z \in Bucket /\ z.ts = b[n].ts /\ z.run = Append(b[n].run, r)
      BY <2>2, <2>3 DEF Bucket
    <2>5. c = [b EXCEPT ![n] = z]
      OBVIOUS
    <2> HIDE DEF z, c, n
    <2>6. /\ c \in [1 .. n -> Bucket] /\ c[n] = z /\ \A x \in 1 .. n : x # n => c[x] = b[x]
      BY <1>2, <2>1, <2>4, <2>5
    <2>7. c \in Seq(Bucket) /\ DOMAIN c = 1 .. n
      BY <1>2, <2>6
    <2> QED
      BY <1>2, <2>1, <2>4, <2>6, <2>7
  <1>6. AddTo(rq, b, r) = IF b # <<>> /\ Last(b).ts = t THEN c ELSE Append(b, new)
    BY DEF AddTo
  <1> HIDE DEF t, c, n, new
  <1>7. CASE b # <<>> /\ Last(b).ts = t
    <2>1. AddTo(rq, b, r) = c
      BY <1>6, <1>7
    <2>2. Grown(b, c, r) /\ c \in Seq(Bucket)
      BY <1>5, <1>7, Zenon DEF Grown, n
    <2> QED
      BY <1>7, <2>1, <2>2, Zenon DEF t
  <1>8. CASE ~(b # <<>> /\ Last(b).ts = t)
    <2>1. AddTo(rq, b, r) = Append(b, new)
      BY <1>6, <1>8, Zenon
    <2> QED
      BY <1>4, <1>8, <2>1, Zenon DEF t, new
  <1> QED
    BY <1>7, <1>8

\* Adding a reading later than all others keeps the buckets.
LEMMA BucketedMore ==
  ASSUME NEW rq \in Request, Valid(rq), NEW b, NEW S \in SUBSET Reading, OnePerSecond(S),
         Bucketed(rq, b, S), NEW r \in Reading, \A s \in S : s.ts < r.ts
  PROVE  Bucketed(rq, AddTo(rq, b, r), S \cup {r})
  <1> DEFINE B(q) == BucketOf(rq, q.ts)
             In(t) == {q \in S : B(q) = t}
             More(t) == {q \in S \cup {r} : B(q) = t}
             c == AddTo(rq, b, r)
             n == Len(b)
  <1>1. /\ b \in Seq(Bucket) /\ Increasing(b)
        /\ \A x \in DOMAIN b : b[x].run = Run(In(b[x].ts))
        /\ \A x \in DOMAIN b : \E q \in S : B(q) = b[x].ts
        /\ \A q \in S : \E x \in DOMAIN b : B(q) = b[x].ts
    BY Zenon DEF Bucketed
  <1>2. n \in Nat /\ DOMAIN b = 1 .. n /\ \A x \in DOMAIN b : b[x].ts \in Int
    <2>1. n \in Nat /\ DOMAIN b = 1 .. n /\ \A x \in DOMAIN b : b[x] \in Bucket
      BY <1>1, LenProperties
    <2> QED
      BY <2>1 DEF Bucket
  <1>3. B(r) \in Int /\ \A q \in S : B(q) <= B(r)
    <2>1. \A q \in Reading : q.ts \in Second
      BY DEF Reading
    <2>2. \A q \in S : q.ts \in Second /\ q.ts < r.ts /\ r.ts \in Second
      BY <2>1
    <2> QED
      BY <2>1, <2>2, BucketGrows, BucketHolds
  <1>4. \A x \in DOMAIN b : b[x].ts <= B(r)
    BY <1>1, <1>3
  <1>5. \A t : t # B(r) => More(t) = In(t)
    OBVIOUS
  <1>6. More(B(r)) = In(B(r)) \cup {r}
    OBVIOUS
  <1>7. \A t : In(t) \in SUBSET S
    OBVIOUS
  <1> HIDE DEF In, More, B
  <1>8. Run(More(B(r))) = Append(Run(In(B(r))), r)
    <2>1. In(B(r)) \in SUBSET Reading /\ OnePerSecond(In(B(r))) /\ \A s \in In(B(r)) : s.ts < r.ts
      BY <1>7 DEF OnePerSecond
    <2> QED
      BY <1>6, <2>1, RunLast
  <1>9. CASE b # <<>> /\ Last(b).ts = B(r)
    <2>1. /\ c \in Seq(Bucket) /\ DOMAIN c = DOMAIN b /\ n \in DOMAIN b
          /\ \A x \in DOMAIN b : x # n => c[x] = b[x]
          /\ c[n].ts = b[n].ts /\ c[n].run = Append(b[n].run, r)
      <3>1. Last(b).ts = BucketOf(rq, r.ts)
        BY <1>9 DEF B
      <3>2. b \in Seq(Bucket) /\ b # <<>>
        BY <1>1, <1>9
      <3>3. c \in Seq(Bucket) /\ Grown(b, c, r)
        BY <3>1, <3>2, AddShape
      <3> HIDE DEF c
      <3> QED
        BY <3>3, Zenon DEF Grown, n
    <2>2. b[n].ts = B(r)
      BY <1>9 DEF Last
    <2> HIDE DEF c, n
    <2>3. \A x \in DOMAIN b : c[x].ts = b[x].ts
      BY <2>1
    <2>4. Increasing(c)
      BY <1>1, <2>1, <2>3 DEF Increasing
    <2>5. ASSUME NEW x \in DOMAIN b PROVE c[x].run = Run(More(c[x].ts))
      <3>1. CASE x = n
        <4>1. c[x].run = Append(Run(In(B(r))), r)
          BY <1>1, <2>1, <2>2, <3>1
        <4> QED
          BY <1>8, <2>2, <2>3, <3>1, <4>1
      <3>2. CASE x # n
        <4>1. b[x].ts < b[n].ts
          <5>1. x < n
            BY <1>2, <2>1, <3>2
          <5> QED
            BY <1>1, <2>1, <5>1 DEF Increasing
        <4>2. b[x].ts # B(r)
          BY <1>2, <2>1, <2>2, <4>1
        <4> QED
          BY <1>1, <1>5, <2>1, <3>2, <4>2
      <3> QED
        BY <3>1, <3>2
    <2>6. ASSUME NEW x \in DOMAIN c PROVE \E q \in S \cup {r} : B(q) = c[x].ts
      BY <1>1, <2>1, <2>3
    <2>7. ASSUME NEW q \in S \cup {r} PROVE \E x \in DOMAIN c : B(q) = c[x].ts
      BY <1>1, <2>1, <2>2, <2>3
    <2> QED
      BY <2>1, <2>4, <2>5, <2>6, <2>7, Zenon DEF Bucketed, B, More, c
  <1>10. CASE ~(b # <<>> /\ Last(b).ts = B(r))
    <2> DEFINE new == [ts |-> B(r), run |-> <<r>>]
    <2>1. c \in Seq(Bucket) /\ c = Append(b, new)
      BY <1>1, <1>10, AddShape, Zenon DEF B
    <2>2. new.ts = B(r) /\ new.run = <<r>>
      OBVIOUS
    <2> HIDE DEF new
    <2>3. /\ DOMAIN c = 1 .. n + 1 /\ c[n + 1] = new
          /\ \A x \in DOMAIN b : x \in DOMAIN c /\ c[x] = b[x]
      <3>1. new \in Bucket
        BY <1>3, <2>2 DEF new, Bucket
      <3>2. Len(c) = n + 1 /\ c[n + 1] = new /\ \A x \in 1 .. n : c[x] = b[x]
        BY <1>1, <2>1, <3>1, AppendProperties
      <3> HIDE DEF c, n
      <3>3. DOMAIN c = 1 .. n + 1
        BY <2>1, <3>2, LenProperties
      <3> QED
        BY <1>2, <3>2, <3>3
    <2>4. \A x \in DOMAIN b : b[x].ts < B(r)
      <3> SUFFICES ASSUME NEW x \in DOMAIN b PROVE b[x].ts < B(r)
        OBVIOUS
      <3>1. n \in DOMAIN b /\ x <= n
        BY <1>2
      <3>2. b # <<>>
        BY <1>2
      <3>3. b[n].ts # B(r)
        BY <1>10, <3>2 DEF Last
      <3>4. b[x].ts <= b[n].ts
        <4>1. x = n \/ x < n
          BY <1>2, <3>1
        <4> QED
          BY <1>1, <1>2, <3>1, <4>1 DEF Increasing
      <3> QED
        BY <1>2, <1>3, <1>4, <3>1, <3>3, <3>4
    <2> HIDE DEF c, n
    <2>5. \A x \in DOMAIN c : x \in DOMAIN b \/ x = n + 1
      BY <1>2, <2>3
    <2>6. Increasing(c)
      <3>1. ASSUME NEW x \in DOMAIN c, NEW y \in DOMAIN c, x < y
            PROVE  c[x].ts < c[y].ts
        <4>1. x \in DOMAIN b
          BY <1>2, <2>3, <3>1
        <4>2. CASE y \in DOMAIN b
          BY <1>1, <2>3, <3>1, <4>1, <4>2 DEF Increasing
        <4>3. CASE y = n + 1
          BY <2>2, <2>3, <2>4, <4>1, <4>3
        <4> QED
          BY <2>5, <4>2, <4>3
      <3> QED
        BY <3>1 DEF Increasing
    <2>7. In(B(r)) = {}
      <3>1. \A q \in S : B(q) # B(r)
        BY <1>1, <1>2, <1>3, <2>4
      <3> QED
        BY <3>1 DEF In
    <2>8. Run(More(B(r))) = <<r>>
      <3>1. Run(In(B(r))) = <<>>
        BY <2>7, RunEmpty, Zenon
      <3>2. Append(<<>>, r) = <<r>>
        OBVIOUS
      <3> QED
        BY <1>8, <3>1, <3>2, Zenon
    <2>9. ASSUME NEW x \in DOMAIN c PROVE c[x].run = Run(More(c[x].ts))
      <3>1. CASE x \in DOMAIN b
        <4>1. b[x].ts # B(r)
          BY <1>2, <1>3, <2>4, <3>1
        <4> QED
          BY <1>1, <1>5, <2>3, <3>1, <4>1
      <3>2. CASE x = n + 1
        BY <2>2, <2>3, <2>8, <3>2
      <3> QED
        BY <2>5, <3>1, <3>2
    <2>10. ASSUME NEW x \in DOMAIN c PROVE \E q \in S \cup {r} : B(q) = c[x].ts
      BY <1>1, <2>2, <2>3, <2>5
    <2>11. ASSUME NEW q \in S \cup {r} PROVE \E x \in DOMAIN c : B(q) = c[x].ts
      <3>1. n + 1 \in DOMAIN c
        BY <1>2, <2>3
      <3> QED
        BY <1>1, <2>2, <2>3, <3>1
    <2> QED
      BY <2>1, <2>6, <2>9, <2>10, <2>11, Zenon DEF Bucketed, B, More, c
  <1> QED
    BY <1>9, <1>10

AddF(rq) == [p \in Seq(Bucket) \X Reading |-> AddTo(rq, p[1], p[2])]

LEMMA AddType ==
  ASSUME NEW rq \in Request, Valid(rq)
  PROVE  /\ <<>> \in Seq(Bucket) /\ AddF(rq) \in [Seq(Bucket) \X Reading -> Seq(Bucket)]
         /\ \A b \in Seq(Bucket), r \in Reading : AddF(rq)[<<b, r>>] = AddTo(rq, b, r)
  <1>1. \A p \in Seq(Bucket) \X Reading : AddTo(rq, p[1], p[2]) \in Seq(Bucket)
    BY AddShape
  <1>2. AddF(rq) \in [Seq(Bucket) \X Reading -> Seq(Bucket)]
    BY <1>1 DEF AddF
  <1>3. \A b \in Seq(Bucket), r \in Reading : AddF(rq)[<<b, r>>] = AddTo(rq, b, r)
    BY DEF AddF
  <1> QED
    BY <1>2, <1>3, EmptySeq

\* The buckets are what the loop over the merged readings returns.
LEMMA BucketsResult ==
  ASSUME NEW rq \in Request, Valid(rq), NEW s, s = MergeRuns(ChunkPoints(rq), Samples(rq)),
         s \in Seq(Reading)
  PROVE  Buckets(rq) = Result(AddF(rq), <<>>, s)
  <1> DEFINE n == Len(s)
             R(g) == [t \in SUBSET DOMAIN s |->
                        IF t = {} THEN <<>>
                        ELSE AddTo(rq, g[t \ {Max(t)}], s[Max(t)])]
             it == CHOOSE g : g = R(g)
  <1>1. n \in Nat /\ DOMAIN s = 1 .. n /\ \A i \in 1 .. n : s[i] \in Reading
    BY LenProperties
  <1>2. Buckets(rq) = it[DOMAIN s]
    BY Zenon DEF Buckets, FoldLeft, MapThenFoldSet
  <1>3. PICK g \in [SUBSET (1 .. n) -> Seq(Bucket)] : IsFold(g, AddF(rq), <<>>, s)
    <2>1. <<>> \in Seq(Bucket) /\ AddF(rq) \in [Seq(Bucket) \X Reading -> Seq(Bucket)]
      BY AddType
    <2> HIDE DEF it, R
    <2> QED BY <2>1, FoldExists
  <1>4. ASSUME NEW t \in SUBSET (1 .. n), t # {}
        PROVE  g[t] = AddTo(rq, g[t \ {Max(t)}], s[Max(t)])
    <2>1. Max(t) \in 1 .. n /\ t \ {Max(t)} \in SUBSET (1 .. n)
      BY <1>1, <1>4, Greatest
    <2>2. g[t \ {Max(t)}] \in Seq(Bucket) /\ s[Max(t)] \in Reading
      BY <1>1, <1>3, <2>1
    <2>3. g[t] = AddF(rq)[<<g[t \ {Max(t)}], s[Max(t)]>>]
      BY <1>3, <1>4 DEF IsFold
    <2> QED
      BY <2>2, <2>3, AddType
  <1> HIDE DEF n
  <1>5. g = R(g)
    <2>1. g[{}] = <<>> /\ {} \in SUBSET (1 .. n)
      BY <1>3 DEF IsFold, n
    <2> QED
      BY <1>1, <1>3, <1>4, <2>1
  <1>6. it = R(it)
    <2> HIDE DEF R
    <2> QED
      BY <1>5
  <1>7. \A t \in SUBSET (1 .. n) :
           t # {} => it[t] = AddTo(rq, it[t \ {Max(t)}], s[Max(t)])
    <2> HIDE DEF it
    <2> QED
      BY <1>1, <1>6
  <1>8. it[{}] = g[{}]
    <2> HIDE DEF it
    <2>1. g[{}] = <<>> /\ {} \in SUBSET (1 .. n)
      BY <1>3 DEF IsFold, n
    <2> QED
      BY <1>1, <1>6, <2>1
  <1> HIDE DEF it, R
  <1>9. it[1 .. n] = g[1 .. n]
    <2>1. \A t \in SUBSET (1 .. n) :
             t # {} /\ it[t \ {Max(t)}] = g[t \ {Max(t)}] => it[t] = g[t]
      BY <1>4, <1>7
    <2> QED
      BY <1>1, <1>8, <2>1, FoldSame
  <1>10. g[1 .. n] = Result(AddF(rq), <<>>, s)
    BY <1>1, <1>3, FoldResult DEF n
  <1> QED
    BY <1>1, <1>2, <1>9, <1>10

\* The buckets of a request hold what is merged for it.
LEMMA BucketsHold ==
  ASSUME NEW rq \in Request, Valid(rq), NEW s, s = MergeRuns(ChunkPoints(rq), Samples(rq)),
         s \in Seq(Reading), Increasing(s)
  PROVE  Bucketed(rq, Buckets(rq), ToSet(s))
  <1> DEFINE n == Len(s)
             Upto(i) == {s[k] : k \in 1 .. i}
  <1>1. /\ n \in Nat /\ DOMAIN s = 1 .. n /\ OnePerSecond(ToSet(s))
        /\ \A i \in 1 .. n : s[i] \in Reading /\ s[i] \in ToSet(s) /\ s[i].ts \in Int
    BY IncreasingOnce
  <1>2. PICK f \in [0 .. n -> Seq(Bucket)] : IsRun(f, AddF(rq), <<>>, s)
    BY AddType, RunExists
  <1>3. Buckets(rq) = f[n]
    BY <1>1, <1>2, BucketsResult, ResultIs
  <1>4. /\ f[0] = <<>>
        /\ \A i \in 1 .. n : f[i] = AddTo(rq, f[i - 1], s[i])
    <2>1. f[0] = <<>> /\ \A i \in 1 .. n : f[i] = AddF(rq)[<<f[i - 1], s[i]>>]
      BY <1>2 DEF IsRun
    <2>2. \A i \in 1 .. n : f[i - 1] \in Seq(Bucket) /\ s[i] \in Reading
      BY <1>1, <1>2
    <2> QED
      BY <2>1, <2>2, AddType
  <1>5. Bucketed(rq, f[0], Upto(0))
    <2>1. Upto(0) = {} /\ DOMAIN <<>> = {}
      OBVIOUS
    <2>2. <<>> \in Seq(Bucket)
      BY EmptySeq
    <2> QED
      BY <1>4, <2>1, <2>2 DEF Bucketed, Increasing
  <1>6. ASSUME NEW i \in 1 .. n, Bucketed(rq, f[i - 1], Upto(i - 1))
        PROVE  Bucketed(rq, f[i], Upto(i))
    <2> DEFINE S == Upto(i - 1)
    <2>1. \A k \in 1 .. i - 1 : k \in 1 .. n /\ k < i
      BY <1>1
    <2>2. S \in SUBSET Reading /\ OnePerSecond(S) /\ \A r \in S : r.ts < s[i].ts
      <3>1. \A r \in S : r \in Reading /\ r \in ToSet(s) /\ r.ts < s[i].ts
        BY <1>1, <2>1 DEF Increasing
      <3> HIDE DEF S
      <3> QED
        BY <1>1, <3>1 DEF OnePerSecond
    <2>3. Upto(i) = S \cup {s[i]}
      <3>1. 1 .. i = (1 .. i - 1) \cup {i}
        BY <1>1
      <3> QED
        BY <3>1
    <2> HIDE DEF S, Upto
    <2>4. Bucketed(rq, AddTo(rq, f[i - 1], s[i]), S \cup {s[i]})
      <3>1. s[i] \in Reading /\ Bucketed(rq, f[i - 1], S)
        BY <1>1, <1>6 DEF S
      <3> QED
        BY <2>2, <3>1, BucketedMore
    <2> QED
      BY <1>4, <2>3, <2>4
  <1> DEFINE T == {i \in 0 .. n : ~Bucketed(rq, f[i], Upto(i))}
  <1> HIDE DEF Upto, n
  <1>7. T = {}
    <2>1. SUFFICES ASSUME T # {} PROVE FALSE
      OBVIOUS
    <2>2. PICK m \in T : \A t \in T : m <= t
      <3>1. T \in SUBSET Nat
        OBVIOUS
      <3> HIDE DEF T
      <3> QED
        BY <2>1, <3>1, Least
    <2>3. m \in 1 .. n /\ m - 1 \in 0 .. n /\ ~(m <= m - 1)
      BY <1>1, <1>5, <2>2
    <2>4. Bucketed(rq, f[m - 1], Upto(m - 1))
      BY <2>2, <2>3
    <2> QED
      BY <1>6, <2>2, <2>3, <2>4
  <1>8. Bucketed(rq, f[n], Upto(n))
    BY <1>1, <1>7
  <1>9. Upto(n) = ToSet(s)
    BY <1>1 DEF Upto, ToSet
  <1> QED
    BY <1>3, <1>8, <1>9

-----------------------------------------------------------------------------
(* The values of an answer.                                                *)

Row(rq) == [DOMAIN Axis(rq) -> Seq(Reading)]
NoValues(rq) == [i \in DOMAIN Axis(rq) |-> <<>>]
PlaceF(rq) == [p \in Row(rq) \X Bucket |-> Place(rq, p[1], p[2])]

LEMMA PlaceType ==
  ASSUME NEW rq
  PROVE  /\ NoValues(rq) \in Row(rq) /\ PlaceF(rq) \in [Row(rq) \X Bucket -> Row(rq)]
         /\ \A v \in Row(rq), z \in Bucket : PlaceF(rq)[<<v, z>>] = Place(rq, v, z)
  <1>1. ASSUME NEW v \in Row(rq), NEW z \in Bucket PROVE Place(rq, v, z) \in Row(rq)
    <2> DEFINE index == (z.ts - AxisStart(rq)) \div rq.step + 1
    <2>1. z.run \in Seq(Reading)
      BY DEF Bucket
    <2>2. Place(rq, v, z) = IF index \in DOMAIN v THEN [v EXCEPT ![index] = z.run] ELSE v
      BY DEF Place
    <2> HIDE DEF index
    <2> QED
      BY <2>1, <2>2 DEF Row
  <1>2. PlaceF(rq) \in [Row(rq) \X Bucket -> Row(rq)]
    BY <1>1 DEF PlaceF
  <1>3. \A v \in Row(rq), z \in Bucket : PlaceF(rq)[<<v, z>>] = Place(rq, v, z)
    BY DEF PlaceF
  <1>4. NoValues(rq) \in Row(rq)
    BY EmptySeq DEF NoValues, Row
  <1> QED
    BY <1>2, <1>3, <1>4

\* A bucket that starts at a multiple of the step is placed at its own time,
\* if that is on the axis, and nowhere else.
LEMMA PlaceShape ==
  ASSUME NEW rq \in Request, Valid(rq), NEW v \in Row(rq), NEW z \in Bucket,
         NEW k \in Int, z.ts = rq.step * k, NEW x \in DOMAIN Axis(rq)
  PROVE  Place(rq, v, z)[x] = IF z.ts = Axis(rq)[x] THEN z.run ELSE v[x]
  <1> DEFINE d == rq.step
             A == AxisStart(rq)
             index == (z.ts - A) \div d + 1
  <1>1. d \in Nat \ {0} /\ A \in Int
    BY AxisAligned
  <1>2. PICK q \in Int : A = d * q
    BY AxisAligned
  <1>3. PICK n \in 1 .. MAX_BUCKETS + 2 : Axis(rq) = [i \in 1 .. n |-> A + (i - 1) * d]
    BY AxisLength
  <1>4. n \in Nat /\ x \in 1 .. n /\ DOMAIN v = 1 .. n
    BY <1>3, PipelineAssumption DEF Row
  <1>5. Axis(rq)[x] = A + (x - 1) * d
    BY <1>3, <1>4
  <1> HIDE DEF d, A
  <1>6. index = k - q + 1
    <2>1. z.ts = d * k
      BY DEF d
    <2>2. z.ts - A = d * (k - q) + 0
      BY <1>1, <1>2, <2>1, SMT
    <2>3. (d * (k - q) + 0) \div d = k - q
      <3>1. k - q \in Int /\ 0 \in 0 .. d - 1
        BY <1>1
      <3> QED
        BY <1>1, <3>1, DivUnique
    <2> QED
      BY <2>2, <2>3
  <1>7. z.ts = Axis(rq)[x] <=> x = index
    <2> DEFINE l == q + (x - 1)
               a == d * k
               b == d * l
    <2>1. Axis(rq)[x] = b
      BY <1>1, <1>2, <1>4, <1>5, SMT
    <2>2. l \in Int /\ a \in Int /\ b \in Int /\ z.ts = a
      BY <1>1, <1>4, SMT DEF d
    <2>3. k < l => a + d <= b
      BY <1>1, <2>2, Multiples
    <2>4. l < k => b + d <= a
      BY <1>1, <2>2, Multiples
    <2>5. k = l => a = b
      OBVIOUS
    <2>6. k = l <=> x = index
      BY <1>4, <1>6
    <2> HIDE DEF a, b, l, index
    <2> QED
      BY <1>1, <2>1, <2>2, <2>3, <2>4, <2>5, <2>6
  <1>8. Place(rq, v, z) = IF index \in DOMAIN v THEN [v EXCEPT ![index] = z.run] ELSE v
    BY DEF Place, d, A
  <1> HIDE DEF index
  <1>9. CASE x = index
    BY <1>4, <1>7, <1>8, <1>9
  <1>10. CASE x # index
    BY <1>4, <1>7, <1>8, <1>10 DEF Row
  <1> QED
    BY <1>9, <1>10

\* The values are what the loop over the buckets returns.
LEMMA ValuesResult ==
  ASSUME NEW rq, NEW s, s = Buckets(rq), s \in Seq(Bucket)
  PROVE  Values(rq) = Result(PlaceF(rq), NoValues(rq), s)
  <1> DEFINE n == Len(s)
             R(g) == [t \in SUBSET DOMAIN s |->
                        IF t = {} THEN NoValues(rq)
                        ELSE Place(rq, g[t \ {Max(t)}], s[Max(t)])]
             it == CHOOSE g : g = R(g)
  <1>1. n \in Nat /\ DOMAIN s = 1 .. n /\ \A i \in 1 .. n : s[i] \in Bucket
    BY LenProperties
  <1>2. Values(rq) = it[DOMAIN s]
    BY Zenon DEF Values, NoValues, FoldLeft, MapThenFoldSet
  <1>3. PICK g \in [SUBSET (1 .. n) -> Row(rq)] : IsFold(g, PlaceF(rq), NoValues(rq), s)
    <2>1. NoValues(rq) \in Row(rq) /\ PlaceF(rq) \in [Row(rq) \X Bucket -> Row(rq)]
      BY PlaceType
    <2> HIDE DEF it, R
    <2> QED BY <2>1, FoldExists
  <1>4. ASSUME NEW t \in SUBSET (1 .. n), t # {}
        PROVE  g[t] = Place(rq, g[t \ {Max(t)}], s[Max(t)])
    <2>1. Max(t) \in 1 .. n /\ t \ {Max(t)} \in SUBSET (1 .. n)
      BY <1>1, <1>4, Greatest
    <2>2. g[t \ {Max(t)}] \in Row(rq) /\ s[Max(t)] \in Bucket
      BY <1>1, <1>3, <2>1
    <2>3. g[t] = PlaceF(rq)[<<g[t \ {Max(t)}], s[Max(t)]>>]
      BY <1>3, <1>4 DEF IsFold
    <2> QED
      BY <2>2, <2>3, PlaceType
  <1> HIDE DEF n
  <1>5. g = R(g)
    <2>1. g[{}] = NoValues(rq) /\ {} \in SUBSET (1 .. n)
      BY <1>3 DEF IsFold, n
    <2> QED
      BY <1>1, <1>3, <1>4, <2>1
  <1>6. it = R(it)
    <2> HIDE DEF R
    <2> QED
      BY <1>5
  <1>7. \A t \in SUBSET (1 .. n) :
           t # {} => it[t] = Place(rq, it[t \ {Max(t)}], s[Max(t)])
    <2> HIDE DEF it
    <2> QED
      BY <1>1, <1>6
  <1>8. it[{}] = g[{}]
    <2> HIDE DEF it
    <2>1. g[{}] = NoValues(rq) /\ {} \in SUBSET (1 .. n)
      BY <1>3 DEF IsFold, n
    <2> QED
      BY <1>1, <1>6, <2>1
  <1> HIDE DEF it, R
  <1>9. it[1 .. n] = g[1 .. n]
    <2>1. \A t \in SUBSET (1 .. n) :
             t # {} /\ it[t \ {Max(t)}] = g[t \ {Max(t)}] => it[t] = g[t]
      BY <1>4, <1>7
    <2> QED
      BY <1>1, <1>8, <2>1, FoldSame
  <1>10. g[1 .. n] = Result(PlaceF(rq), NoValues(rq), s)
    BY <1>1, <1>3, FoldResult DEF n
  <1> QED
    BY <1>1, <1>2, <1>9, <1>10

\* The value at a time is the run of the bucket placed there, and empty where
\* there is none.
LEMMA ValuesHold ==
  ASSUME NEW rq \in Request, Valid(rq), NEW S \in SUBSET Reading,
         Bucketed(rq, Buckets(rq), S), NEW x \in DOMAIN Axis(rq)
  PROVE  Values(rq)[x] = Run({q \in S : BucketOf(rq, q.ts) = Axis(rq)[x]})
  <1> DEFINE b == Buckets(rq)
             n == Len(b)
             t == Axis(rq)[x]
  <1>1. /\ b \in Seq(Bucket) /\ Increasing(b)
        /\ \A k \in DOMAIN b : b[k].run = Run({q \in S : BucketOf(rq, q.ts) = b[k].ts})
        /\ \A k \in DOMAIN b : \E q \in S : BucketOf(rq, q.ts) = b[k].ts
        /\ \A q \in S : \E k \in DOMAIN b : BucketOf(rq, q.ts) = b[k].ts
    BY Zenon DEF Bucketed
  <1>2. n \in Nat /\ DOMAIN b = 1 .. n /\ \A k \in 1 .. n : b[k] \in Bucket
    BY <1>1, LenProperties
  <1>3. \A k \in 1 .. n : \E l \in Int : b[k].ts = rq.step * l
    <2> SUFFICES ASSUME NEW k \in 1 .. n PROVE \E l \in Int : b[k].ts = rq.step * l
      OBVIOUS
    <2>1. PICK q \in S : BucketOf(rq, q.ts) = b[k].ts
      BY <1>1, <1>2
    <2>2. q.ts \in Second
      BY DEF Reading
    <2> QED
      BY <2>1, <2>2, BucketHolds
  <1> HIDE DEF b
  <1>4. PICK f \in [0 .. n -> Row(rq)] : IsRun(f, PlaceF(rq), NoValues(rq), b)
    BY <1>1, PlaceType, RunExists
  <1>5. Values(rq) = f[n]
    <2>1. Values(rq) = Result(PlaceF(rq), NoValues(rq), b)
      BY <1>1, ValuesResult DEF b
    <2> QED
      BY <1>2, <1>4, <2>1, ResultIs
  <1>6. /\ f[0] = NoValues(rq)
        /\ \A i \in 1 .. n : f[i] = Place(rq, f[i - 1], b[i]) /\ f[i - 1] \in Row(rq)
    <2>1. f[0] = NoValues(rq) /\ \A i \in 1 .. n : f[i] = PlaceF(rq)[<<f[i - 1], b[i]>>]
      BY <1>4 DEF IsRun
    <2>2. \A i \in 1 .. n : f[i - 1] \in Row(rq) /\ b[i] \in Bucket
      BY <1>2, <1>4
    <2> QED
      BY <2>1, <2>2, PlaceType
  <1> HIDE DEF t, n
  <1>7. \A i \in 1 .. n : f[i][x] = IF b[i].ts = t THEN b[i].run ELSE f[i - 1][x]
    <2> SUFFICES ASSUME NEW i \in 1 .. n
                 PROVE  f[i][x] = IF b[i].ts = t THEN b[i].run ELSE f[i - 1][x]
      OBVIOUS
    <2>1. PICK l \in Int : b[i].ts = rq.step * l
      BY <1>3
    <2>2. f[i] = Place(rq, f[i - 1], b[i]) /\ f[i - 1] \in Row(rq) /\ b[i] \in Bucket
      BY <1>2, <1>6
    <2>3. Place(rq, f[i - 1], b[i])[x] = IF b[i].ts = Axis(rq)[x] THEN b[i].run ELSE f[i - 1][x]
      BY <2>1, <2>2, PlaceShape
    <2> QED
      BY <2>2, <2>3 DEF t
  <1>8. f[0][x] = <<>>
    BY <1>6 DEF NoValues
  <1> DEFINE Placed(i) == /\ \A k \in 1 .. i : b[k].ts = t => f[i][x] = b[k].run
                          /\ (\A k \in 1 .. i : b[k].ts # t) => f[i][x] = <<>>
             T == {i \in 0 .. n : ~Placed(i)}
  <1>9. Placed(0)
    BY <1>8
  <1>10. ASSUME NEW i \in 1 .. n, Placed(i - 1)
         PROVE  Placed(i)
    <2>1. \A k \in 1 .. i : k = i \/ (k \in 1 .. i - 1 /\ k < i /\ k \in 1 .. n)
      BY <1>2
    <2>2. \A k \in 1 .. i - 1 : k \in 1 .. i
      BY <1>2
    <2>3. CASE b[i].ts = t
      <3>1. f[i][x] = b[i].run
        BY <1>7, <2>3
      <3>2. \A k \in 1 .. i - 1 : b[k].ts # t
        <4> SUFFICES ASSUME NEW k \in 1 .. i - 1 PROVE b[k].ts # t
          OBVIOUS
        <4>1. k \in 1 .. n /\ k < i
          BY <1>2
        <4>2. b[k].ts < b[i].ts
          BY <1>1, <1>2, <4>1 DEF Increasing
        <4>3. b[k].ts \in Int /\ b[i].ts \in Int
          BY <1>2, <4>1 DEF Bucket
        <4> QED
          BY <2>3, <4>2, <4>3
      <3>3. i \in 1 .. i
        BY <1>2
      <3> QED
        BY <2>1, <2>3, <3>1, <3>2, <3>3
    <2>4. CASE b[i].ts # t
      <3>1. f[i][x] = f[i - 1][x]
        BY <1>7, <2>4
      <3> QED
        BY <1>10, <2>1, <2>2, <2>4, <3>1
    <2> QED
      BY <2>3, <2>4
  <1> HIDE DEF Placed
  <1>11. T = {}
    <2>1. SUFFICES ASSUME T # {} PROVE FALSE
      OBVIOUS
    <2>2. PICK m \in T : \A l \in T : m <= l
      <3>1. T \in SUBSET Nat
        BY <1>2
      <3> HIDE DEF T
      <3> QED
        BY <2>1, <3>1, Least
    <2>3. m \in 1 .. n /\ m - 1 \in 0 .. n /\ ~(m <= m - 1)
      BY <1>2, <1>9, <2>2
    <2>4. Placed(m - 1)
      BY <2>2, <2>3
    <2> QED
      BY <1>10, <2>2, <2>3, <2>4
  <1>12. Placed(n)
    BY <1>2, <1>11
  <1>13. CASE \E k \in 1 .. n : b[k].ts = t
    <2>1. PICK k \in 1 .. n : b[k].ts = t
      BY <1>13
    <2>2. f[n][x] = b[k].run
      BY <1>12, <2>1 DEF Placed
    <2>3. b[k].run = Run({q \in S : BucketOf(rq, q.ts) = b[k].ts})
      BY <1>1, <1>2
    <2> QED
      BY <1>5, <2>1, <2>2, <2>3 DEF t
  <1>14. CASE \A k \in 1 .. n : b[k].ts # t
    <2>1. f[n][x] = <<>>
      BY <1>12, <1>14 DEF Placed
    <2>2. {q \in S : BucketOf(rq, q.ts) = t} = {}
      BY <1>1, <1>2, <1>14
    <2> QED
      BY <1>5, <2>1, <2>2, RunEmpty DEF t
  <1> QED
    BY <1>13, <1>14

-----------------------------------------------------------------------------
(* The answer.                                                             *)

\* The due seconds of a request that fall in the bucket at a time.
DueIn(rq, t) == {s \in Due(rq) : t <= s * Ms /\ s * Ms < t + rq.step}

\* What a request is answered is exact in the state it is asked in.
LEMMA AnswerOfState ==
  ASSUME IInv, Once, NEW rq \in Request, Valid(rq)
  PROVE  /\ Buckets(rq) = <<>> <=> Due(rq) = {}
         /\ \A i \in DOMAIN Axis(rq) :
              Values(rq)[i] = Run({Exact(s) : s \in DueIn(rq, Axis(rq)[i])})
  <1> DEFINE Q == {Exact(s) : s \in Due(rq)}
             m == MergeRuns(ChunkPoints(rq), Samples(rq))
  <1>1. m = Run(Q) /\ Q \in SUBSET Reading /\ OnePerSecond(Q)
    BY MergedDue
  <1>2. \A s \in Due(rq) : s \in Second /\ Exact(s).ts = s
    BY ExactShape DEF Due
  <1>3. m \in Seq(Reading) /\ Increasing(m) /\ ToSet(m) = Q
    <2> HIDE DEF m, Q
    <2> QED
      BY <1>1, RunOrdered
  <1>4. Bucketed(rq, Buckets(rq), Q)
    <2>1. Bucketed(rq, Buckets(rq), ToSet(m))
      BY <1>3, BucketsHold
    <2> QED
      BY <1>3, <2>1, Zenon
  <1>5. Buckets(rq) = <<>> <=> Due(rq) = {}
    <2> DEFINE b == Buckets(rq)
    <2>1. /\ b \in Seq(Bucket)
          /\ \A k \in DOMAIN b : \E q \in Q : BucketOf(rq, q.ts) = b[k].ts
          /\ \A q \in Q : \E k \in DOMAIN b : BucketOf(rq, q.ts) = b[k].ts
      BY <1>4, Zenon DEF Bucketed
    <2>2. Len(b) \in Nat /\ DOMAIN b = 1 .. Len(b)
      BY <2>1, LenProperties
    <2>3. b = <<>> <=> DOMAIN b = {}
      <3>1. b = <<>> <=> Len(b) = 0
        BY <2>1, EmptySeq
      <3> HIDE DEF b
      <3>2. Len(b) # 0 => 1 \in DOMAIN b
        BY <2>2
      <3>3. Len(b) = 0 => DOMAIN b = {}
        BY <2>2
      <3> QED
        BY <3>1, <3>2, <3>3
    <2>4. DOMAIN b = {} <=> Q = {}
      <3> HIDE DEF b, Q
      <3> QED
        BY <2>1
    <2>5. Q = {} <=> Due(rq) = {}
      OBVIOUS
    <2> QED
      BY <2>3, <2>4, <2>5
  <1>6. ASSUME NEW i \in DOMAIN Axis(rq)
        PROVE  Values(rq)[i] = Run({Exact(s) : s \in DueIn(rq, Axis(rq)[i])})
    <2> DEFINE t == Axis(rq)[i]
    <2>1. Values(rq)[i] = Run({q \in Q : BucketOf(rq, q.ts) = t})
      <3> HIDE DEF Q
      <3> QED
        BY <1>1, <1>4, ValuesHold
    <2>2. \E k \in Int : t = rq.step * k
      <3>1. PICK q \in Int : AxisStart(rq) = rq.step * q
        BY AxisAligned
      <3>2. PICK n \in 1 .. MAX_BUCKETS + 2 :
               Axis(rq) = [j \in 1 .. n |-> AxisStart(rq) + (j - 1) * rq.step]
        BY AxisLength
      <3>3. i \in Int /\ rq.step \in Int /\ t = AxisStart(rq) + (i - 1) * rq.step
        BY <3>2, PipelineAssumption
      <3> HIDE DEF t
      <3>4. t = rq.step * (q + (i - 1)) /\ q + (i - 1) \in Int
        BY <3>1, <3>3, SMT
      <3> QED
        BY <3>4
    <2> HIDE DEF t
    <2>3. \A s \in Due(rq) : BucketOf(rq, s) = t <=> t <= s * Ms /\ s * Ms < t + rq.step
      <3>1. PICK k \in Int : t = rq.step * k
        BY <2>2
      <3> QED
        BY <1>2, <3>1, BucketHolds
    <2>4. {q \in Q : BucketOf(rq, q.ts) = t} = {Exact(s) : s \in DueIn(rq, t)}
      <3>1. \A s \in Due(rq) : BucketOf(rq, Exact(s).ts) = t <=> s \in DueIn(rq, t)
        BY <1>2, <2>3 DEF DueIn
      <3>2. DueIn(rq, t) \subseteq Due(rq)
        BY DEF DueIn
      <3> QED
        BY <3>1, <3>2, Zenon
    <2> QED
      BY <2>1, <2>4, Zenon DEF t
  <1> QED
    BY <1>5, <1>6

\* The value at each time of every answer is the average of exactly the newest
\* readings that fall in its bucket and in the request, each once, however
\* they are spread over chunks and raw rows, and a series is left out only
\* where it has none (storage.rs:398-487, api.rs:213-247).
THEOREM AnswersAreExact == Spec => []AnswerExact
  <1>1. Init => AnswerExact
    BY DEF Init, Nothing, AnswerExact
  <1>2. IInv /\ Once /\ AnswerExact /\ [Next]_vars => AnswerExact'
    <2> SUFFICES ASSUME IInv, Once, AnswerExact, [Next]_vars
                 PROVE  AnswerExact'
      OBVIOUS
    <2>1. CASE reply' = Nothing
      BY <2>1 DEF Nothing, AnswerExact
    <2>2. CASE UNCHANGED vars
      <3>1. reply' = reply /\ sent' = sent
        BY <2>2 DEF vars
      <3> QED
        BY <3>1, Zenon DEF AnswerExact
    <2>3. CASE \E rq \in Request : Ask(rq)
      <3> PICK rq \in Request : Ask(rq)
        BY <2>3
      <3>1. CASE ~Valid(rq)
        BY <3>1 DEF Ask, Refused, AnswerExact
      <3>2. CASE Valid(rq)
        <4> DEFINE r == reply'
        <4>1. /\ r.request = rq /\ r.t = Axis(rq) /\ r.omitted = (Buckets(rq) = <<>>)
              /\ r.values = Values(rq) /\ sent' = sent
          BY <3>2 DEF Ask, Answer
        <4>2. /\ Buckets(rq) = <<>> <=> Due(rq) = {}
              /\ \A i \in DOMAIN Axis(rq) :
                    Values(rq)[i] = Run({Exact(s) : s \in DueIn(rq, Axis(rq)[i])})
          BY <3>2, AnswerOfState
        <4> DEFINE D == {s \in Second : /\ sent[s] # None
                                        /\ rq.start <= s * Ms /\ s * Ms <= rq.end}
                   I(i) == {s \in D : Axis(rq)[i] <= s * Ms /\ s * Ms < Axis(rq)[i] + rq.step}
        <4>3. D = Due(rq)
          BY DEF Due
        <4>4. \A i : I(i) = DueIn(rq, Axis(rq)[i])
          BY <4>3 DEF DueIn
        <4>5. \A i : {[ts |-> s, value |-> Quantize(sent[s])] : s \in I(i)}
                       = {Exact(s) : s \in DueIn(rq, Axis(rq)[i])}
          <5> HIDE DEF I
          <5> QED
            BY <4>4 DEF Exact
        <4>6. r.omitted <=> D = {}
          BY <4>1, <4>2, <4>3
        <4>7. \A i \in DOMAIN Axis(rq) :
                 Values(rq)[i] = Run({[ts |-> s, value |-> Quantize(sent[s])] : s \in I(i)})
          <5> HIDE DEF I
          <5> QED
            BY <4>2, <4>5
        <4> QED
          BY <4>1, <4>6, <4>7 DEF AnswerExact
      <3> QED
        BY <3>1, <3>2
    <2>4. ~(\E rq \in Request : Ask(rq)) /\ ~(UNCHANGED vars) => reply' = Nothing
      BY DEF Next, Insert, CompactBegin, Encode, CompactCommit, CompactFail
    <2> QED
      BY <2>1, <2>2, <2>3, <2>4
  <1> QED
    BY <1>1, <1>2, Invariant, StoredOnce, PTL DEF Spec

=============================================================================

-------------------------- MODULE CollectorProofs ---------------------------
(***************************************************************************)
(* What the collector reports is right for every configuration and         *)
(* whatever the kernel shows, of the kinds CollectorAssumption lists.      *)
(***************************************************************************)
EXTENDS Collector, LoopProofs, FiniteSetTheorems

-----------------------------------------------------------------------------
(* Numbers and the flat map.                                               *)

\* A bounded set of numbers that is not empty has a greatest one, Max.
LEMMA MaxOf ==
  ASSUME NEW n \in Nat, NEW T \in SUBSET (0 .. n), T # {}
  PROVE  Max(T) \in T /\ \A t \in T : t <= Max(T)
  <1> DEFINE D == {n - t : t \in T}
  <1>1. D \in SUBSET Nat /\ D # {}
    <2>1. \A t \in T : n - t \in Nat
      OBVIOUS
    <2> QED BY <2>1
  <1>2. PICK d \in D : \A e \in D : d <= e
    <2> HIDE DEF D
    <2> QED BY <1>1, Least
  <1>3. PICK m \in T : d = n - m
    OBVIOUS
  <1>4. \A t \in T : m >= t
    <2> TAKE t \in T
    <2>1. n - t \in D /\ t \in Nat /\ m \in Nat
      OBVIOUS
    <2> HIDE DEF D
    <2>2. n - m <= n - t
      BY <1>2, <1>3, <2>1
    <2> QED BY <2>1, <2>2
  <1>5. Max(T) \in T /\ \A t \in T : Max(T) >= t
    BY <1>4 DEF Max
  <1> QED
    BY <1>5

\* Of two numbers.
LEMMA MaxOfTwo ==
  ASSUME NEW a \in Int, NEW b \in Int
  PROVE  Max({a, b}) = IF a >= b THEN a ELSE b
  BY DEF Max

\* Of a sequence of pairs.
IsPairs(s) == DOMAIN s = 1 .. Len(s) /\ Len(s) \in Nat
Keys(s)    == {s[i].key : i \in DOMAIN s}

\* Extending a map gives each key the value of its last pair, and leaves the
\* other keys of the map theirs.
LEMMA ExtendShape ==
  ASSUME NEW map, NEW s, IsPairs(s)
  PROVE  /\ DOMAIN Extend(map, s) = DOMAIN map \cup Keys(s)
         /\ \A k \in DOMAIN map \ Keys(s) : Extend(map, s)[k] = map[k]
         /\ \A k \in Keys(s) : \E i \in DOMAIN s :
              /\ s[i].key = k /\ Extend(map, s)[k] = s[i].value
              /\ \A j \in DOMAIN s : s[j].key = k => j <= i
  <1> DEFINE e(k) == IF At(s, k) = {} THEN map[k] ELSE s[Max(At(s, k))].value
  <1>1. Extend(map, s) = [k \in DOMAIN map \cup {p.key : p \in ToSet(s)} |-> e(k)]
    BY Zenon DEF Extend
  <1>2. {p.key : p \in ToSet(s)} = Keys(s)
    BY DEF Keys, ToSet
  <1> HIDE DEF e
  <1>3. /\ DOMAIN Extend(map, s) = DOMAIN map \cup Keys(s)
        /\ \A k \in DOMAIN map \cup Keys(s) : Extend(map, s)[k] = e(k)
    BY <1>1, <1>2
  <1>4. ASSUME NEW k \in DOMAIN map \ Keys(s) PROVE e(k) = map[k]
    <2>1. At(s, k) = {}
      BY <1>4 DEF At, Keys
    <2> QED
      BY <2>1 DEF e
  <1>5. ASSUME NEW k \in Keys(s)
        PROVE  \E i \in DOMAIN s :
                 /\ s[i].key = k /\ e(k) = s[i].value
                 /\ \A j \in DOMAIN s : s[j].key = k => j <= i
    <2>1. At(s, k) # {}
      BY <1>5 DEF At, Keys
    <2>2. Len(s) \in Nat /\ At(s, k) \in SUBSET (0 .. Len(s))
      BY DEF At, IsPairs
    <2>3. Max(At(s, k)) \in At(s, k) /\ \A t \in At(s, k) : t <= Max(At(s, k))
      BY <2>1, <2>2, MaxOf
    <2>4. e(k) = s[Max(At(s, k))].value
      BY <2>1 DEF e
    <2> QED
      BY <2>3, <2>4 DEF At
  <1> QED
    BY <1>3, <1>4, <1>5

\* Of the keys that are in the pairs the map says nothing.
LEMMA ExtendSame ==
  ASSUME NEW map, NEW s, IsPairs(s), NEW k \in Keys(s)
  PROVE  k \in DOMAIN Extend(<<>>, s) /\ Extend(map, s)[k] = Extend(<<>>, s)[k]
  <1>1. At(s, k) # {}
    BY DEF At, Keys
  <1>2. k \in {p.key : p \in ToSet(s)}
    BY DEF Keys, ToSet
  <1> QED
    BY <1>1, <1>2 DEF Extend

\* The empty map has no keys.
LEMMA EmptyMap == DOMAIN <<>> = {}
  OBVIOUS

\* A text with a colon before it is not empty, and what follows the colon is
\* the text.
LEMMA AfterColon ==
  ASSUME NEW t \in Text
  PROVE  /\ <<Colon>> \o t \in Text /\ <<Colon>> \o t # <<>>
         /\ Tail(<<Colon>> \o t) = t
  <1>1. <<Colon>> \in Seq(Nat) /\ Len(<<Colon>>) = 1
    BY DEF Colon
  <1>2. /\ <<Colon>> \o t \in Seq(Nat) /\ Len(<<Colon>> \o t) = 1 + Len(t)
        /\ \A i \in 1 .. 1 + Len(t) :
              (<<Colon>> \o t)[i] = IF i <= 1 THEN <<Colon>>[i] ELSE t[i - 1]
    BY <1>1, ConcatProperties DEF Text
  <1>3. Len(t) \in Nat
    BY DEF Text
  <1>4. <<Colon>> \o t # <<>>
    BY <1>2, <1>3
  <1>5. /\ Tail(<<Colon>> \o t) \in Seq(Nat) /\ Len(Tail(<<Colon>> \o t)) = Len(t)
        /\ \A i \in 1 .. Len(t) : Tail(<<Colon>> \o t)[i] = (<<Colon>> \o t)[i + 1]
    BY <1>2, <1>3, <1>4, HeadTailProperties
  <1>6. \A i \in 1 .. Len(t) : Tail(<<Colon>> \o t)[i] = t[i]
    BY <1>2, <1>3, <1>5
  <1>7. Tail(<<Colon>> \o t) = t
    BY <1>5, <1>6, SeqEqual DEF Text
  <1> QED
    BY <1>2, <1>4, <1>7 DEF Text

-----------------------------------------------------------------------------
(* The order of sensors.                                                   *)

\* Of readings no two of which have the same two indices.
IsReads(R) ==
    /\ \A r \in R : r[1] \in Chip /\ r[2] \in Sensor
    /\ \A q, r \in R : q[1].index = r[1].index /\ q[2].index = r[2].index => q = r

\* The order is that of a number, of which each reading has its own.
Number(r) == 10 * r[1].index + r[2].index

\* The order compares those numbers.
LEMMA BeforeIsLess ==
  ASSUME NEW R, IsReads(R), NEW q \in R, NEW r \in R
  PROVE  /\ Number(q) \in 0 .. 99 /\ (Before(q, r) <=> Number(q) < Number(r))
         /\ Number(q) = Number(r) => q = r
  <1> DEFINE a == q[1].index
             b == q[2].index
             c == r[1].index
             d == r[2].index
  <1>1. a \in 0 .. 9 /\ b \in 0 .. 9 /\ c \in 0 .. 9 /\ d \in 0 .. 9
    BY DEF IsReads, Chip, Sensor
  <1>2. a = c /\ b = d => q = r
    BY DEF IsReads
  <1>3. /\ Before(q, r) <=> (a < c \/ (a = c /\ b < d))
        /\ Number(q) = 10 * a + b /\ Number(r) = 10 * c + d
    BY DEF Before, Number
  <1> HIDE DEF a, b, c, d
  <1>4. /\ 10 * a + b \in 0 .. 99
        /\ (a < c \/ (a = c /\ b < d)) <=> 10 * a + b < 10 * c + d
        /\ 10 * a + b = 10 * c + d => a = c /\ b = d
    BY <1>1
  <1> QED BY <1>2, <1>3, <1>4

\* InOrder lists every reading, by that order.
LEMMA Ordered ==
  ASSUME NEW R, IsReads(R)
  PROVE  /\ Cardinality(R) \in Nat /\ DOMAIN InOrder(R) = 1 .. Cardinality(R)
         /\ \A k \in 1 .. Cardinality(R) : InOrder(R)[k] \in R
         /\ \A r \in R : \E k \in 1 .. Cardinality(R) : InOrder(R)[k] = r
         /\ \A j, k \in 1 .. Cardinality(R) :
               j < k => Number(InOrder(R)[j]) < Number(InOrder(R)[k])
  <1> DEFINE n == Cardinality(R)
             Below(r) == {q \in R : Before(q, r)}
             f == [r \in R |-> Cardinality(Below(r)) + 1]
             g == [r \in R |-> Number(r)]
  <1>1. IsFiniteSet(R) /\ n \in Nat
    <2>1. g \in [R -> 0 .. 99] /\ \A q, r \in R : g[q] = g[r] => q = r
      BY BeforeIsLess
    <2> HIDE DEF g
    <2>2. g \in Injection(R, 0 .. 99)
      BY <2>1 DEF Injection, IsInjective
    <2>3. IsFiniteSet(0 .. 99)
      <3> DEFINE a == 0
                 b == 99
      <3>1. a \in Int /\ b \in Int
        OBVIOUS
      <3> HIDE DEF a, b
      <3>2. IsFiniteSet(a .. b)
        BY <3>1, FS_Interval
      <3> QED BY <3>2 DEF a, b
    <2>4. IsFiniteSet(R)
      BY <2>2, <2>3, FS_Injection
    <2> QED BY <2>4, FS_CardinalityType
  <1>2. ASSUME NEW r \in R
        PROVE  IsFiniteSet(Below(r)) /\ Cardinality(Below(r)) \in 0 .. n - 1
    <2>1. Below(r) \in SUBSET R /\ r \notin Below(r)
      BY BeforeIsLess
    <2> HIDE DEF Below
    <2>2. IsFiniteSet(Below(r)) /\ Cardinality(Below(r)) <= n /\ n # Cardinality(Below(r))
      BY <1>1, <2>1, FS_Subset
    <2>3. Cardinality(Below(r)) \in Nat
      BY <2>2, FS_CardinalityType
    <2> HIDE DEF n
    <2> QED BY <1>1, <2>2, <2>3
  <1>3. /\ f \in [R -> 1 .. n]
        /\ \A r \in R : f[r] = Cardinality(Below(r)) + 1
    <2> HIDE DEF Below, n
    <2> QED BY <1>1, <1>2
  <1>4. ASSUME NEW q \in R, NEW r \in R, Number(q) < Number(r)
        PROVE  f[q] < f[r]
    <2>1. \A x \in R : Number(x) \in Int /\ (Before(x, q) <=> Number(x) < Number(q))
                       /\ (Before(x, r) <=> Number(x) < Number(r))
      BY BeforeIsLess
    <2>2. Below(q) \in SUBSET Below(r) /\ q \in Below(r) /\ q \notin Below(q)
      BY <1>4, <2>1
    <2> HIDE DEF Below, f, n
    <2>3. Cardinality(Below(q)) <= Cardinality(Below(r))
          /\ Cardinality(Below(r)) # Cardinality(Below(q))
      BY <1>2, <2>2, FS_Subset
    <2> QED BY <1>1, <1>2, <1>3, <2>3
  <1>5. \A q, r \in R : f[q] = f[r] => q = r
    <2> SUFFICES ASSUME NEW q \in R, NEW r \in R, f[q] = f[r] PROVE q = r
      BY Zenon
    <2>1. f[q] \in Int /\ f[r] \in Int /\ ~(Number(q) < Number(r)) /\ ~(Number(r) < Number(q))
      <3> HIDE DEF f, n
      <3> QED BY <1>1, <1>3, <1>4
    <2>2. Number(q) \in Int /\ Number(r) \in Int
      BY BeforeIsLess
    <2> QED BY <2>1, <2>2, BeforeIsLess
  <1> HIDE DEF f, g
  <1>6. f \in Surjection(R, 1 .. n)
    <2>1. f \in Injection(R, 1 .. n)
      BY <1>3, <1>5 DEF Injection, IsInjective
    <2>2. IsFiniteSet(1 .. n) /\ Cardinality(1 .. n) = n
      BY <1>1, FS_Interval
    <2> QED BY <1>1, <2>1, <2>2, FS_Injection
  <1> DEFINE e(k) == CHOOSE r \in R : Cardinality({q \in R : Before(q, r)}) = k - 1
  <1>7. InOrder(R) = [k \in 1 .. n |-> e(k)]
    BY DEF InOrder
  <1>8. ASSUME NEW k \in 1 .. n
        PROVE  e(k) \in R /\ f[e(k)] = k
    <2>1. PICK r \in R : f[r] = k
      BY <1>6 DEF Surjection
    <2> DEFINE P(x) == Cardinality(Below(x)) = k - 1
    <2>2. P(r)
      <3> HIDE DEF Below, n
      <3> QED BY <1>1, <1>2, <1>3, <2>1
    <2>3. e(k) = CHOOSE x \in R : P(x)
      BY Zenon
    <2> HIDE DEF P, e
    <2>4. e(k) \in R /\ P(e(k))
      BY <2>2, <2>3
    <2> HIDE DEF Below, n
    <2> QED BY <1>1, <1>3, <2>4 DEF P
  <1> HIDE DEF e, Below
  <1>9. /\ DOMAIN InOrder(R) = 1 .. n
        /\ \A k \in 1 .. n : InOrder(R)[k] = e(k)
    BY <1>7
  <1>10. ASSUME NEW r \in R PROVE \E k \in 1 .. n : e(k) = r
    BY <1>3, <1>5, <1>8
  <1>11. ASSUME NEW j \in 1 .. n, NEW k \in 1 .. n, j < k
         PROVE  Number(e(j)) < Number(e(k))
    <2>1. e(j) \in R /\ e(k) \in R /\ f[e(j)] = j /\ f[e(k)] = k
      BY <1>8
    <2>2. Number(e(j)) \in Int /\ Number(e(k)) \in Int
      BY <2>1, BeforeIsLess
    <2>3. ~(Number(e(k)) < Number(e(j)))
      <3> HIDE DEF n
      <3>1. ~(f[e(k)] < f[e(j)])
        BY <1>1, <1>11, <2>1
      <3> QED BY <1>4, <2>1, <3>1
    <2>4. Number(e(j)) # Number(e(k))
      <3>1. e(j) # e(k)
        BY <1>1, <1>11, <2>1
      <3> QED BY <2>1, <3>1, BeforeIsLess
    <2> QED BY <2>2, <2>3, <2>4
  <1> QED
    BY <1>1, <1>8, <1>9, <1>10, <1>11

-----------------------------------------------------------------------------
(* Paths.                                                                  *)

\* A sequence can be put together from its end, each place adding a piece
\* and going on at one of the next four.
LEMMA Chain ==
  ASSUME NEW n \in Nat, NEW piece \in [1 .. n -> Text], NEW next \in [1 .. n -> Nat],
         \A at \in 1 .. n : next[at] \in at + 1 .. at + 4
  PROVE  \E f \in [1 .. n + 4 -> Text] : \A at \in 1 .. n + 4 :
            f[at] = IF at > n THEN <<>> ELSE piece[at] \o f[next[at]]
  <1> DEFINE Good(f, k) == \A at \in 1 .. n + 4 :
                 at > k => f[at] = IF at > n THEN <<>> ELSE piece[at] \o f[next[at]]
             P(j) == \E f \in [1 .. n + 4 -> Text] : Good(f, n - j)
             T == {j \in 0 .. n : ~P(j)}
  <1>1. P(0)
    <2> DEFINE f == [at \in 1 .. n + 4 |-> <<>>]
    <2>1. f \in [1 .. n + 4 -> Text] /\ \A at \in 1 .. n + 4 : f[at] = <<>>
      BY EmptySeq DEF Text
    <2> HIDE DEF f
    <2>2. Good(f, n - 0)
      BY <2>1
    <2> QED BY <2>1, <2>2
  <1>2. ASSUME NEW j \in 1 .. n, P(j - 1) PROVE P(j)
    <2>1. PICK g \in [1 .. n + 4 -> Text] : Good(g, n - (j - 1))
      BY <1>2
    <2> DEFINE m == n - j + 1
               x == piece[m] \o g[next[m]]
               f == [at \in 1 .. n + 4 |-> IF at = m THEN x ELSE g[at]]
    <2>2. /\ m \in 1 .. n /\ m \in 1 .. n + 4 /\ next[m] \in 1 .. n + 4 /\ next[m] # m
          /\ n - (j - 1) = m /\ n - j = m - 1
      BY <1>2
    <2> HIDE DEF m
    <2>3. x \in Text
      BY <2>1, <2>2, ConcatProperties DEF Text
    <2>4. /\ f \in [1 .. n + 4 -> Text] /\ f[m] = x
          /\ \A at \in 1 .. n + 4 : at # m => f[at] = g[at]
      BY <2>1, <2>2, <2>3
    <2> HIDE DEF f, Good
    <2>5. ASSUME NEW at \in 1 .. n + 4, at > m - 1
          PROVE  f[at] = IF at > n THEN <<>> ELSE piece[at] \o f[next[at]]
      <3>1. CASE at = m
        <4>1. f[next[m]] = g[next[m]]
          BY <2>2, <2>4
        <4> QED BY <2>2, <2>4, <3>1, <4>1
      <3>2. CASE at # m
        <4>1. at > m /\ at \in Int /\ f[at] = g[at]
          BY <2>2, <2>4, <2>5, <3>2
        <4>2. g[at] = IF at > n THEN <<>> ELSE piece[at] \o g[next[at]]
          BY <2>1, <2>2, <4>1 DEF Good
        <4>3. ASSUME ~(at > n) PROVE f[next[at]] = g[next[at]]
          <5>1. at \in 1 .. n /\ next[at] \in at + 1 .. at + 4
            BY <4>3
          <5> DEFINE x1 == next[at]
          <5>2. x1 \in Int /\ at + 1 <= x1 /\ x1 <= at + 4 /\ at <= n /\ 1 <= at /\ m < at
                /\ m \in Int
            BY <2>2, <4>1, <5>1
          <5> HIDE DEF x1
          <5>3. x1 \in 1 .. n + 4 /\ x1 # m
            BY <4>1, <5>2
          <5>4. next[at] \in 1 .. n + 4 /\ next[at] # m
            BY <5>3 DEF x1
          <5> QED BY <2>4, <5>4
        <4> QED BY <4>1, <4>2, <4>3
      <3> QED BY <3>1, <3>2
    <2>6. Good(f, n - j)
      BY <2>2, <2>5 DEF Good
    <2> QED BY <2>4, <2>6
  <1> HIDE DEF P
  <1>3. T = {}
    <2>1. SUFFICES ASSUME T # {} PROVE FALSE
      OBVIOUS
    <2>2. T \in SUBSET Nat
      OBVIOUS
    <2>3. PICK m \in T : \A t \in T : m <= t
      <3> HIDE DEF T
      <3> QED BY <2>1, <2>2, Least
    <2>4. m \in 1 .. n /\ ~(m <= m - 1) /\ m - 1 \in 0 .. n
      BY <1>1, <2>3
    <2>5. P(m - 1)
      BY <2>3, <2>4
    <2> QED BY <1>2, <2>3, <2>4, <2>5
  <1>4. P(n)
    BY <1>3
  <1>5. PICK f \in [1 .. n + 4 -> Text] : Good(f, n - n)
    BY <1>4 DEF P
  <1>6. \A at \in 1 .. n + 4 : f[at] = IF at > n THEN <<>> ELSE piece[at] \o f[next[at]]
    <2>1. n - n = 0 /\ \A at \in 1 .. n + 4 : at > 0
      OBVIOUS
    <2> QED BY <1>5, <2>1
  <1> QED BY <1>6

\* An escape is no code, or one.
LEMMA EscapeShape ==
  ASSUME NEW field \in Text, NEW at \in 1 .. Len(field)
  PROVE  Escape(field, at) = <<>> \/ \E c \in Nat : Escape(field, at) = <<c>>
  <1> DEFINE a == field[at + 1]
             b == field[at + 2]
             c == field[at + 3]
             code == (IF a = 43 THEN 0 ELSE 64 * (a - 48)) + 8 * (b - 48) + c - 48
             ok == /\ at + 3 <= Len(field) /\ (Octal(a) \/ a = 43) /\ Octal(b) /\ Octal(c)
                   /\ code < 128
  <1>1. Escape(field, at) = IF ok THEN <<code>> ELSE <<>>
    BY Zenon DEF Escape
  <1>2. ASSUME ok PROVE code \in Nat
    <2>1. b \in 48 .. 55 /\ c \in 48 .. 55 /\ (a \in 48 .. 55 \/ a = 43)
      BY <1>2 DEF Octal
    <2> HIDE DEF a, b, c
    <2>2. 8 * (b - 48) \in Nat /\ c - 48 \in Nat
      BY <2>1
    <2>3. (IF a = 43 THEN 0 ELSE 64 * (a - 48)) \in Nat
      BY <2>1
    <2>4. \A x, y \in Nat : c - 48 \in Nat => x + y + c - 48 \in Nat
      BY <2>1
    <2> QED BY <2>2, <2>3, <2>4, Zenon
  <1> HIDE DEF ok, code
  <1> QED BY <1>1, <1>2

\* How Unmangle goes through a field.
Unmangles(f, field) ==
    /\ f \in [1 .. Len(field) + 4 -> Text]
    /\ \A at \in 1 .. Len(field) + 4 : at > Len(field) => f[at] = <<>>
    /\ \A at \in 1 .. Len(field) :
         IF field[at] # Backslash THEN f[at] = <<field[at]>> \o f[at + 1]
         ELSE IF Escape(field, at) = <<>> THEN f[at] = <<Backslash>> \o f[at + 1]
         ELSE f[at] = Escape(field, at) \o f[at + 4]

\* Unmangle does, from the first place of the field.
LEMMA UnmangleFrom ==
  ASSUME NEW field \in Text
  PROVE  \E f : Unmangles(f, field) /\ Unmangle(field) = f[1]
  <1> DEFINE n == Len(field)
             esc(at) == Escape(field, at)
             R(g) == [at \in 1 .. n + 4 |->
                        IF at > n THEN <<>>
                        ELSE IF field[at] # Backslash THEN <<field[at]>> \o g[at + 1]
                        ELSE (IF esc(at) = <<>> THEN <<Backslash>> ELSE esc(at))
                               \o g[ResumeAfter(at, esc(at))]]
             f == CHOOSE g : g = R(g)
             piece == [at \in 1 .. n |->
                         IF field[at] # Backslash THEN <<field[at]>>
                         ELSE IF esc(at) = <<>> THEN <<Backslash>> ELSE esc(at)]
             next == [at \in 1 .. n |->
                        IF field[at] # Backslash \/ esc(at) = <<>> THEN at + 1 ELSE at + 4]
  <1>1. Unmangle(field) = f[1]
    BY Zenon DEF Unmangle
  <1>2. n \in Nat /\ \A at \in 1 .. n : field[at] \in Nat
    BY DEF Text
  <1>3. ASSUME NEW at \in 1 .. n
        PROVE  <<field[at]>> \in Text /\ <<Backslash>> \in Text
               /\ (esc(at) = <<>> \/ esc(at) \in Text)
    <2>1. esc(at) = <<>> \/ \E c \in Nat : esc(at) = <<c>>
      BY EscapeShape
    <2>2. \A c \in Nat : <<c>> \in Seq(Nat)
      OBVIOUS
    <2>3. field[at] \in Nat /\ Backslash \in Nat
      BY <1>2 DEF Backslash
    <2> HIDE DEF esc
    <2> QED BY <2>1, <2>2, <2>3 DEF Text
  <1> HIDE DEF esc
  <1>4. piece \in [1 .. n -> Text] /\ next \in [1 .. n -> Nat]
    BY <1>2, <1>3
  <1>5. \A at \in 1 .. n : next[at] \in at + 1 .. at + 4
    BY <1>2
  <1> HIDE DEF f, n
  <1>6. PICK g \in [1 .. n + 4 -> Text] : \A at \in 1 .. n + 4 :
            g[at] = IF at > n THEN <<>> ELSE piece[at] \o g[next[at]]
    <2> HIDE DEF piece, next
    <2> QED BY <1>2, <1>4, <1>5, Chain
  <1>7. ASSUME NEW h, NEW at \in 1 .. n + 4
        PROVE  R(h)[at] = IF at > n THEN <<>> ELSE piece[at] \o h[next[at]]
    <2>1. CASE at > n
      BY <2>1
    <2>2. CASE ~(at > n)
      <3>1. at \in 1 .. n
        BY <1>2, <2>2
      <3> QED BY <2>2, <3>1 DEF ResumeAfter
    <2> QED BY <2>1, <2>2
  <1>8. g = R(g)
    <2>1. \A at \in 1 .. n + 4 : g[at] = R(g)[at]
      <3> HIDE DEF R, piece, next
      <3> QED BY <1>6, <1>7
    <2>2. DOMAIN R(g) = 1 .. n + 4 /\ R(g) = [at \in DOMAIN R(g) |-> R(g)[at]]
      OBVIOUS
    <2> HIDE DEF R
    <2> QED BY <1>6, <2>1, <2>2
  <1>9. f = R(f)
    <2> HIDE DEF R
    <2> QED BY <1>8 DEF f
  <1>10. DOMAIN f = 1 .. n + 4 /\ f = [at \in 1 .. n + 4 |-> f[at]]
    <2>1. DOMAIN R(f) = 1 .. n + 4 /\ R(f) = [at \in 1 .. n + 4 |-> R(f)[at]]
      OBVIOUS
    <2> HIDE DEF R
    <2> QED BY <1>9, <2>1
  <1>11. \A at \in 1 .. n + 4 : f[at] = IF at > n THEN <<>> ELSE piece[at] \o f[next[at]]
    <2> HIDE DEF R, piece, next
    <2> QED BY <1>7, <1>9
  <1>12. \A at \in 1 .. n + 4 : f[at] = g[at]
    <2> HIDE DEF R
    <2> DEFINE T == {j \in 1 .. n + 4 : f[n + 5 - j] # g[n + 5 - j]}
    <2>1. T = {}
      <3>1. SUFFICES ASSUME T # {} PROVE FALSE
        OBVIOUS
      <3>2. T \in SUBSET Nat
        OBVIOUS
      <3>3. PICK j \in T : \A t \in T : j <= t
        <4> HIDE DEF T
        <4> QED BY <3>1, <3>2, Least
      <3> DEFINE at == n + 5 - j
      <3>4. at \in 1 .. n + 4 /\ f[at] # g[at] /\ j = n + 5 - at /\ j \in 1 .. n + 4
        BY <1>2, <3>3
      <3> HIDE DEF at
      <3>5. ~(at > n)
        BY <1>6, <1>11, <3>4
      <3>6. at \in 1 .. n /\ next[at] \in at + 1 .. at + 4
        BY <1>2, <1>5, <3>4, <3>5
      <3> DEFINE i == n + 5 - next[at]
      <3>7. i \in 1 .. n + 4 /\ i < j /\ next[at] = n + 5 - i
        BY <1>2, <3>4, <3>6
      <3>8. i \notin T
        <4> HIDE DEF i
        <4> QED BY <3>3, <3>7, <1>2, <3>4
      <3>9. f[next[at]] = g[next[at]]
        <4> HIDE DEF i
        <4> QED BY <3>7, <3>8
      <3>10. /\ f[at] = IF at > n THEN <<>> ELSE piece[at] \o f[next[at]]
             /\ g[at] = IF at > n THEN <<>> ELSE piece[at] \o g[next[at]]
        <4> HIDE DEF i, T
        <4> QED BY <1>6, <1>11, <3>4
      <3> QED BY <3>4, <3>9, <3>10, Zenon
    <2>2. ASSUME NEW at \in 1 .. n + 4 PROVE f[at] = g[at]
      <3>1. n + 5 - at \in 1 .. n + 4 /\ n + 5 - (n + 5 - at) = at
        BY <1>2
      <3>2. n + 5 - at \notin T
        BY <2>1
      <3> QED BY <3>1, <3>2
    <2> QED BY <2>2
  <1>13. f \in [1 .. n + 4 -> Text]
    BY <1>6, <1>10, <1>12
  <1>14. ASSUME NEW at \in 1 .. n
         PROVE  f[at] = piece[at] \o f[next[at]]
    <2>1. at \in 1 .. n + 4 /\ ~(at > n)
      BY <1>2
    <2> HIDE DEF piece, next
    <2> QED BY <1>11, <2>1
  <1>15. Unmangles(f, field)
    <2>1. ASSUME NEW at \in 1 .. n
          PROVE  IF field[at] # Backslash THEN f[at] = <<field[at]>> \o f[at + 1]
                 ELSE IF esc(at) = <<>> THEN f[at] = <<Backslash>> \o f[at + 1]
                 ELSE f[at] = esc(at) \o f[at + 4]
      BY <1>14
    <2>2. \A at \in 1 .. n + 4 : at > n => f[at] = <<>>
      BY <1>11
    <2> QED BY <1>13, <2>1, <2>2 DEF Unmangles, n, esc
  <1> QED BY <1>1, <1>15

\* The kernel's codes for one character of a path.
Piece(path, k) ==
    IF path[k] \in {9, 10, 32, Backslash}
    THEN <<Backslash, 48 + (path[k] \div 64), 48 + ((path[k] \div 8) % 8), 48 + (path[k] % 8)>>
    ELSE <<path[k]>>

\* Those of the four escaped characters, one by one.
LEMMA Pieces ==
  ASSUME NEW path \in Text, NEW k \in 1 .. Len(path)
  PROVE  /\ path[k] \in Nat /\ Piece(path, k) \in Text
         /\ path[k] \notin {9, 10, 32, Backslash} =>
              Piece(path, k) = <<path[k]>> /\ path[k] # Backslash
         /\ path[k] = 9 => Piece(path, k) = <<Backslash, 48, 49, 49>>
         /\ path[k] = 10 => Piece(path, k) = <<Backslash, 48, 49, 50>>
         /\ path[k] = 32 => Piece(path, k) = <<Backslash, 48, 52, 48>>
         /\ path[k] = Backslash => Piece(path, k) = <<Backslash, 49, 51, 52>>
  <1> DEFINE c == path[k]
  <1>1. c \in Nat
    BY DEF Text
  <1>2. Piece(path, k) = IF c \in {9, 10, 32, Backslash}
                         THEN <<Backslash, 48 + (c \div 64), 48 + ((c \div 8) % 8), 48 + (c % 8)>>
                         ELSE <<c>>
    BY Zenon DEF Piece
  <1> HIDE DEF c
  <1>3. /\ 9 \div 64 = 0 /\ (9 \div 8) % 8 = 1 /\ 9 % 8 = 1
        /\ 10 \div 64 = 0 /\ (10 \div 8) % 8 = 1 /\ 10 % 8 = 2
        /\ 32 \div 64 = 0 /\ (32 \div 8) % 8 = 4 /\ 32 % 8 = 0
        /\ 92 \div 64 = 1 /\ (92 \div 8) % 8 = 3 /\ 92 % 8 = 4
    OBVIOUS
  <1>4. c = 9 => Piece(path, k) = <<Backslash, 48, 49, 49>>
    BY <1>2, <1>3
  <1>5. c = 10 => Piece(path, k) = <<Backslash, 48, 49, 50>>
    BY <1>2, <1>3
  <1>6. c = 32 => Piece(path, k) = <<Backslash, 48, 52, 48>>
    BY <1>2, <1>3
  <1>7. c = Backslash => Piece(path, k) = <<Backslash, 49, 51, 52>>
    BY <1>2, <1>3 DEF Backslash
  <1>8. c \notin {9, 10, 32, Backslash} => Piece(path, k) = <<c>> /\ c # Backslash
    BY <1>2
  <1>9. /\ <<Backslash, 48, 49, 49>> \in Seq(Nat) /\ <<Backslash, 48, 49, 50>> \in Seq(Nat)
        /\ <<Backslash, 48, 52, 48>> \in Seq(Nat) /\ <<Backslash, 49, 51, 52>> \in Seq(Nat)
        /\ <<c>> \in Seq(Nat)
    BY <1>1 DEF Backslash
  <1>10. Piece(path, k) \in Text
    BY <1>4, <1>5, <1>6, <1>7, <1>8, <1>9 DEF Text
  <1> QED
    BY <1>1, <1>4, <1>5, <1>6, <1>7, <1>8, <1>10 DEF c

\* Taking the escapes of a piece back gives the character, whatever follows.
LEMMA PieceTaken ==
  ASSUME NEW path \in Text, NEW k \in 1 .. Len(path), NEW field \in Text, NEW f,
         Unmangles(f, field), NEW at \in 1 .. Len(field),
         \A i \in 1 .. Len(Piece(path, k)) :
            at + i - 1 \in 1 .. Len(field) /\ field[at + i - 1] = Piece(path, k)[i]
  PROVE  f[at] = <<path[k]>> \o f[at + Len(Piece(path, k))]
  <1> DEFINE c == path[k]
             n == Len(field)
  <1>1. c \in Nat /\ n \in Nat /\ at \in Nat
    BY Pieces DEF Text
  <1>2. CASE c \notin {9, 10, 32, Backslash}
    <2>1. Piece(path, k) = <<c>> /\ c # Backslash
      BY <1>2, Pieces
    <2>2. Len(Piece(path, k)) = 1 /\ Piece(path, k)[1] = c
      BY <2>1
    <2>3. field[at] = c
      <3>1. 1 \in 1 .. Len(Piece(path, k)) /\ at + 1 - 1 = at
        BY <1>1, <2>2
      <3> QED BY <2>2, <3>1
    <2> QED BY <2>1, <2>2, <2>3 DEF Unmangles
  <1> DEFINE First == {48, 49}
             Digit == 48 .. 55
             Quoted(x, y, z) == <<Backslash, x, y, z>>
             Code(x, y, z) == 64 * (x - 48) + 8 * (y - 48) + z - 48
  <1>3. ASSUME NEW x \in First, NEW y \in Digit, NEW z \in Digit,
               Piece(path, k) = Quoted(x, y, z), c \in 0 .. 127, Code(x, y, z) = c
        PROVE  f[at] = <<c>> \o f[at + Len(Piece(path, k))]
    <2> DEFINE p == Piece(path, k)
    <2>1. Len(p) = 4 /\ p[1] = Backslash /\ p[2] = x /\ p[3] = y /\ p[4] = z
      <3>1. p = <<Backslash, x, y, z>>
        BY <1>3, Zenon
      <3> HIDE DEF p
      <3> QED BY <3>1
    <2> HIDE DEF p
    <2>2. \A i \in {1, 2, 3, 4} : at + i - 1 \in 1 .. n /\ field[at + i - 1] = p[i]
      <3>1. \A i \in 1 .. Len(p) : at + i - 1 \in 1 .. n /\ field[at + i - 1] = p[i]
        BY DEF p
      <3>2. \A i \in {1, 2, 3, 4} : i \in 1 .. Len(p)
        BY <2>1
      <3> HIDE DEF n
      <3> QED BY <3>1, <3>2
    <2>3. /\ at + 1 - 1 = at /\ at + 2 - 1 = at + 1 /\ at + 3 - 1 = at + 2
          /\ at + 4 - 1 = at + 3
      BY <1>1
    <2>4. /\ field[at] = Backslash /\ field[at + 1] = x /\ field[at + 2] = y
          /\ field[at + 3] = z /\ at + 3 <= n
      BY <1>1, <2>1, <2>2, <2>3
    <2> DEFINE code == (IF x = 43 THEN 0 ELSE 64 * (x - 48)) + 8 * (y - 48) + z - 48
    <2>5. code = c /\ Octal(x) /\ Octal(y) /\ Octal(z) /\ code < 128
      <3>1. x # 43 /\ x \in 48 .. 55 /\ c < 128
        <4>1. c \in 0 .. 127
          BY <1>3
        <4> HIDE DEF c
        <4> QED BY <4>1
      <3>2. code = 64 * (x - 48) + 8 * (y - 48) + z - 48
        BY <3>1, Zenon
      <3> HIDE DEF c, code
      <3> QED BY <1>3, <3>1, <3>2 DEF Octal
    <2>6. Escape(field, at) =
            IF /\ at + 3 <= Len(field) /\ (Octal(x) \/ x = 43) /\ Octal(y) /\ Octal(z)
               /\ code < 128
            THEN <<code>> ELSE <<>>
      BY <2>4, Zenon DEF Escape
    <2>7. Escape(field, at) = <<c>>
      <3> HIDE DEF code
      <3> QED BY <2>4, <2>5, <2>6
    <2>8. <<c>> # <<>>
      OBVIOUS
    <2>9. f[at] = <<c>> \o f[at + 4]
      BY <2>4, <2>7, <2>8 DEF Unmangles
    <2> QED BY <2>1, <2>9 DEF p
  <1>4. CASE c = 9
    <2>1. Piece(path, k) = <<Backslash, 48, 49, 49>> /\ 64 * (48 - 48) + 8 * (49 - 48) + 49 - 48 = c
      BY <1>4, Pieces
    <2>2. c \in 0 .. 127
      BY <1>4
    <2> DEFINE x == 48
               y == 49
               z == 49
    <2>3. x \in First /\ y \in Digit /\ z \in Digit
      OBVIOUS
    <2>4. Piece(path, k) = Quoted(x, y, z) /\ Code(x, y, z) = c
      BY <2>1
    <2> HIDE DEF c, x, y, z, First, Digit, Quoted, Code
    <2>5. f[at] = <<c>> \o f[at + Len(Piece(path, k))]
      BY <1>3, <2>2, <2>3, <2>4, Zenon
    <2> QED BY <2>5 DEF c
  <1>5. CASE c = 10
    <2>1. Piece(path, k) = <<Backslash, 48, 49, 50>> /\ 64 * (48 - 48) + 8 * (49 - 48) + 50 - 48 = c
      BY <1>5, Pieces
    <2>2. c \in 0 .. 127
      BY <1>5
    <2> DEFINE x == 48
               y == 49
               z == 50
    <2>3. x \in First /\ y \in Digit /\ z \in Digit
      OBVIOUS
    <2>4. Piece(path, k) = Quoted(x, y, z) /\ Code(x, y, z) = c
      BY <2>1
    <2> HIDE DEF c, x, y, z, First, Digit, Quoted, Code
    <2>5. f[at] = <<c>> \o f[at + Len(Piece(path, k))]
      BY <1>3, <2>2, <2>3, <2>4, Zenon
    <2> QED BY <2>5 DEF c
  <1>6. CASE c = 32
    <2>1. Piece(path, k) = <<Backslash, 48, 52, 48>> /\ 64 * (48 - 48) + 8 * (52 - 48) + 48 - 48 = c
      BY <1>6, Pieces
    <2>2. c \in 0 .. 127
      BY <1>6
    <2> DEFINE x == 48
               y == 52
               z == 48
    <2>3. x \in First /\ y \in Digit /\ z \in Digit
      OBVIOUS
    <2>4. Piece(path, k) = Quoted(x, y, z) /\ Code(x, y, z) = c
      BY <2>1
    <2> HIDE DEF c, x, y, z, First, Digit, Quoted, Code
    <2>5. f[at] = <<c>> \o f[at + Len(Piece(path, k))]
      BY <1>3, <2>2, <2>3, <2>4, Zenon
    <2> QED BY <2>5 DEF c
  <1>7. CASE c = Backslash
    <2>1. Piece(path, k) = <<Backslash, 49, 51, 52>> /\ 64 * (49 - 48) + 8 * (51 - 48) + 52 - 48 = c
      BY <1>7, Pieces DEF Backslash
    <2>2. c \in 0 .. 127
      BY <1>7 DEF Backslash
    <2> DEFINE x == 49
               y == 51
               z == 52
    <2>3. x \in First /\ y \in Digit /\ z \in Digit
      OBVIOUS
    <2>4. Piece(path, k) = Quoted(x, y, z) /\ Code(x, y, z) = c
      BY <2>1
    <2> HIDE DEF c, x, y, z, First, Digit, Quoted, Code
    <2>5. f[at] = <<c>> \o f[at + Len(Piece(path, k))]
      BY <1>3, <2>2, <2>3, <2>4, Zenon
    <2> QED BY <2>5 DEF c
  <1> QED
    BY <1>2, <1>4, <1>5, <1>6, <1>7 DEF c

\* Unmangling is what the kernel's mangling needs to be taken back.
LEMMA UnmangleMangle ==
  ASSUME NEW path \in Text
  PROVE  Mangle(path) \in Text /\ Unmangle(Mangle(path)) = path
  <1> DEFINE n == Len(path)
             s == [k \in 1 .. n |-> Piece(path, k)]
             field == Mangle(path)
  <1>1. n \in Nat /\ DOMAIN path = 1 .. n
    BY DEF Text
  <1>2. s \in Seq(Text) /\ Len(s) = n /\ \A k \in 1 .. n : s[k] = Piece(path, k)
    <2>1. \A k \in 1 .. n : Piece(path, k) \in Text
      BY Pieces
    <2> HIDE DEF n
    <2> QED BY <1>1, <2>1
  <1>3. field = FlattenSeq(s)
    BY <1>1, Zenon DEF Mangle, Piece
  <1> HIDE DEF s, n, field
  <1>4. PICK off \in [0 .. n -> Nat] :
           /\ off[0] = 0 /\ off[n] = Len(field)
           /\ \A k \in 1 .. n :
                 /\ off[k] = off[k - 1] + Len(s[k])
                 /\ \A i \in 1 .. Len(s[k]) :
                       /\ off[k - 1] + i \in 1 .. Len(field)
                       /\ field[off[k - 1] + i] = s[k][i]
    <2>1. s \in Seq(Seq(Nat))
      BY <1>2 DEF Text
    <2>2. PICK off : Laid(off, s)
      BY <2>1, Flat
    <2> QED BY <1>2, <1>3, <2>2 DEF Laid
  <1>5. field \in Text
    <2>1. s \in Seq(Seq(Nat))
      BY <1>2 DEF Text
    <2> QED BY <1>3, <2>1, Flat DEF Text
  <1>6. PICK f : Unmangles(f, field) /\ Unmangle(field) = f[1]
    BY <1>5, UnmangleFrom
  <1>7. ASSUME NEW k \in 1 .. n
        PROVE  /\ k - 1 \in 0 .. n /\ off[k] \in Nat /\ off[k - 1] \in Nat
               /\ f[off[k - 1] + 1] = <<path[k]>> \o f[off[k] + 1]
    <2>1. k - 1 \in 0 .. n /\ k \in 0 .. n
      BY <1>1
    <2>2. off[k] \in Nat /\ off[k - 1] \in Nat
      BY <1>4, <2>1
    <2> DEFINE p == Piece(path, k)
               at == off[k - 1] + 1
    <2>3. s[k] = p /\ p \in Text /\ Len(p) \in Nat /\ p # <<>>
      <3>1. k \in 1 .. Len(path)
        BY DEF n
      <3>2. p \in Text
        BY <3>1, Pieces
      <3>3. p # <<>>
        BY DEF Piece
      <3> HIDE DEF p
      <3> QED BY <1>2, <3>2, <3>3 DEF p, Text
    <2> HIDE DEF p
    <2>4. Len(p) # 0
      BY <2>3, EmptySeq DEF Text
    <2>5. \A i \in 1 .. Len(p) : at + i - 1 \in 1 .. Len(field) /\ field[at + i - 1] = p[i]
      <3>1. \A i \in 1 .. Len(p) : off[k - 1] + i = at + i - 1
        BY <2>2, <2>3
      <3> QED BY <1>4, <2>3, <3>1
    <2>6. at \in 1 .. Len(field)
      <3>1. 1 \in 1 .. Len(p) /\ at + 1 - 1 = at
        BY <2>2, <2>3, <2>4
      <3> QED BY <2>5, <3>1
    <2>7. f[at] = <<path[k]>> \o f[at + Len(p)]
      <3>1. k \in 1 .. Len(path)
        BY DEF n
      <3> HIDE DEF at
      <3> QED BY <1>5, <1>6, <2>5, <2>6, <3>1, PieceTaken DEF p
    <2>8. at + Len(p) = off[k] + 1
      BY <1>4, <2>2, <2>3
    <2> QED BY <2>1, <2>2, <2>7, <2>8
  <1> DEFINE Rest(k) == f[off[k] + 1]
             Good(k) == /\ Rest(k) \in Text /\ Len(Rest(k)) = n - k
                        /\ \A i \in 1 .. n - k : Rest(k)[i] = path[k + i]
             T == {j \in 0 .. n : ~Good(n - j)}
  <1>8. Good(n)
    <2>1. Len(field) \in Nat
      BY <1>5 DEF Text
    <2>2. off[n] + 1 \in 1 .. Len(field) + 4 /\ off[n] + 1 > Len(field)
      BY <1>4, <2>1
    <2>3. Rest(n) = <<>>
      BY <1>6, <2>2 DEF Unmangles
    <2> HIDE DEF Rest
    <2> QED BY <1>1, <2>3, EmptySeq DEF Text
  <1>9. ASSUME NEW k \in 1 .. n, Good(k) PROVE Good(k - 1)
    <2> DEFINE x == Rest(k)
               y == Rest(k - 1)
    <2>1. y = <<path[k]>> \o x /\ x \in Text
      BY <1>7, <1>9
    <2>2. /\ Len(x) = n - k /\ \A i \in 1 .. n - k : x[i] = path[k + i]
      BY <1>9
    <2>3. path[k] \in Nat /\ <<path[k]>> \in Text /\ Len(<<path[k]>>) = 1
      BY Pieces DEF n, Text
    <2> HIDE DEF x, y
    <2>4. /\ y \in Text /\ Len(y) = 1 + Len(x)
          /\ \A i \in 1 .. 1 + Len(x) : y[i] = IF i <= 1 THEN path[k] ELSE x[i - 1]
      BY <2>1, <2>3, ConcatProperties DEF Text
    <2>5. Len(y) = n - (k - 1)
      BY <1>1, <2>2, <2>4
    <2>6. ASSUME NEW i \in 1 .. n - (k - 1) PROVE y[i] = path[(k - 1) + i]
      <3>1. i \in 1 .. 1 + Len(x)
        BY <1>1, <2>2
      <3>2. CASE i = 1
        <4>1. (k - 1) + 1 = k
          BY <1>1
        <4> QED BY <2>4, <3>1, <3>2, <4>1
      <3>3. CASE i # 1
        <4>1. i - 1 \in 1 .. n - k /\ k + (i - 1) = (k - 1) + i /\ ~(i <= 1)
          BY <1>1, <3>3
        <4> QED BY <2>2, <2>4, <3>1, <4>1
      <3> QED BY <3>2, <3>3
    <2> QED BY <2>4, <2>5, <2>6 DEF y
  <1> HIDE DEF Good, Rest
  <1>10. T = {}
    <2>1. SUFFICES ASSUME T # {} PROVE FALSE
      OBVIOUS
    <2>2. T \in SUBSET Nat
      OBVIOUS
    <2>3. PICK m \in T : \A t \in T : m <= t
      <3> HIDE DEF T
      <3> QED BY <2>1, <2>2, Least
    <2>4. m # 0
      <3>1. n - 0 = n
        BY <1>1
      <3> QED BY <1>8, <2>3, <3>1
    <2>5. m \in 1 .. n /\ ~(m <= m - 1) /\ m - 1 \in 0 .. n
      BY <1>1, <2>3, <2>4
    <2>6. Good(n - (m - 1)) /\ ~Good(n - m)
      BY <2>3, <2>5
    <2>7. n - (m - 1) \in 1 .. n /\ n - m = (n - (m - 1)) - 1
      BY <1>1, <2>5
    <2> QED BY <1>9, <2>6, <2>7
  <1>11. Good(0)
    <2>1. n \in 0 .. n /\ n - n = 0
      BY <1>1
    <2> QED BY <1>10, <2>1
  <1>12. f[1] \in Text /\ Len(f[1]) = n /\ \A i \in 1 .. n : f[1][i] = path[i]
    <2>1. off[0] + 1 = 1 /\ n - 0 = n /\ \A i \in 1 .. n : 0 + i = i
      BY <1>1, <1>4
    <2> QED BY <1>11, <2>1 DEF Good, Rest
  <1>13. f[1] = path
    BY <1>12, SeqEqual DEF Text, n
  <1> QED
    BY <1>5, <1>6, <1>13 DEF field

-----------------------------------------------------------------------------
(* Splitting a text at its marks.                                          *)

\* The pieces of a text: at least one.
Split == {p \in Seq(Text) : Len(p) > 0}

\* Parts as the result of a loop over the text.
OneEmpty    == << <<>> >>
Grown(marks) == [x \in Split \X Nat |-> Grow(x[1], x[2], marks)]

\* One more character of a piece under way, or a new piece.
LEMMA GrowShape ==
  ASSUME NEW p \in Split, NEW c \in Nat, NEW marks
  PROVE  /\ Grow(p, c, marks) \in Split
         /\ c \in marks /\ p[Len(p)] = <<>> => Grow(p, c, marks) = p
         /\ c \in marks /\ p[Len(p)] # <<>> => Grow(p, c, marks) = Append(p, <<>>)
         /\ c \notin marks =>
              /\ Len(Grow(p, c, marks)) = Len(p)
              /\ Grow(p, c, marks)[Len(p)] = Append(p[Len(p)], c)
              /\ \A i \in 1 .. Len(p) - 1 : Grow(p, c, marks)[i] = p[i]
  <1> DEFINE n == Len(p)
             q == [p EXCEPT ![n] = Append(@, c)]
  <1>1. p \in Seq(Text) /\ n \in Nat /\ n > 0 /\ n \in 1 .. n /\ DOMAIN p = 1 .. n /\ p[n] \in Text
    BY DEF Split
  <1>2. Append(p[n], c) \in Text
    BY <1>1, AppendProperties DEF Text
  <1> HIDE DEF n
  <1>3. /\ q \in Seq(Text) /\ Len(q) = n /\ q[n] = Append(p[n], c)
        /\ \A i \in 1 .. n - 1 : q[i] = p[i]
    <2> DEFINE x == Append(p[n], c)
    <2>1. q = [i \in 1 .. n |-> IF i = n THEN x ELSE p[i]]
      BY <1>1
    <2>2. x \in Text /\ \A i \in 1 .. n : p[i] \in Text
      BY <1>1, <1>2 DEF n
    <2> HIDE DEF x, q
    <2>3. q \in [1 .. n -> Text] /\ q[n] = x /\ \A i \in 1 .. n - 1 : q[i] = p[i]
      BY <1>1, <2>1, <2>2
    <2>4. q \in Seq(Text) /\ Len(q) = n
      BY <1>1, <2>3
    <2> QED BY <2>3, <2>4 DEF x
  <1>4. Append(p, <<>>) \in Seq(Text) /\ Len(Append(p, <<>>)) = n + 1
    <2> DEFINE e == <<>>
    <2>1. e \in Text
      BY DEF Text
    <2> HIDE DEF e
    <2>2. Append(p, e) \in Seq(Text) /\ Len(Append(p, e)) = n + 1
      BY <1>1, <2>1, AppendProperties DEF n
    <2> QED BY <2>2 DEF e
  <1>5. Grow(p, c, marks) = IF c \notin marks THEN q
                            ELSE IF p[n] = <<>> THEN p ELSE Append(p, <<>>)
    BY Zenon DEF Grow, n
  <1> DEFINE g == Grow(p, c, marks)
             e == Append(p, <<>>)
  <1>6. g = IF c \notin marks THEN q ELSE IF p[n] = <<>> THEN p ELSE e
    BY <1>5
  <1>7. e \in Seq(Text) /\ Len(e) = n + 1
    BY <1>4
  <1> HIDE DEF q, g, e
  <1>8. /\ g \in Split
        /\ c \in marks /\ p[n] = <<>> => g = p
        /\ c \in marks /\ p[n] # <<>> => g = e
        /\ c \notin marks => /\ Len(g) = n /\ g[n] = Append(p[n], c)
                             /\ \A i \in 1 .. n - 1 : g[i] = p[i]
    BY <1>1, <1>3, <1>6, <1>7 DEF Split
  <1> QED BY <1>8 DEF n, g, e

\* What the loop needs.
LEMMA GrownType ==
  ASSUME NEW marks
  PROVE  OneEmpty \in Split /\ Grown(marks) \in [Split \X Nat -> Split]
  <1>1. OneEmpty \in Split
    BY DEF OneEmpty, Split, Text
  <1>2. \A x \in Split \X Nat : Grow(x[1], x[2], marks) \in Split
    BY GrowShape
  <1> QED BY <1>1, <1>2 DEF Grown

\* Parts is that result.
LEMMA PartsResult ==
  ASSUME NEW text \in Text, NEW marks
  PROVE  Parts(text, marks) = Result(Grown(marks), OneEmpty, text) /\ Parts(text, marks) \in Split
  <1> DEFINE n == Len(text)
             F == Grown(marks)
             R(g) == [i \in 0 .. n |-> IF i = 0 THEN << <<>> >> ELSE Grow(g[i - 1], text[i], marks)]
             upto == CHOOSE g : g = R(g)
  <1>1. n \in Nat /\ text \in Seq(Nat) /\ \A i \in 1 .. n : text[i] \in Nat
    BY DEF Text
  <1>2. PICK f \in [0 .. n -> Split] : IsRun(f, F, OneEmpty, text)
    BY <1>1, GrownType, RunExists
  <1>3. ASSUME NEW g \in [0 .. n -> Split], NEW i \in 1 .. n
        PROVE  F[<<g[i - 1], text[i]>>] = Grow(g[i - 1], text[i], marks)
    <2>1. i - 1 \in 0 .. n
      BY <1>1
    <2>2. <<g[i - 1], text[i]>> \in Split \X Nat
      BY <1>1, <2>1
    <2> QED BY <2>2 DEF Grown
  <1> HIDE DEF F
  <1>4. \A i \in 0 .. n : f[i] = IF i = 0 THEN << <<>> >> ELSE Grow(f[i - 1], text[i], marks)
    <2>1. ASSUME NEW i \in 1 .. n PROVE f[i] = Grow(f[i - 1], text[i], marks)
      BY <1>2, <1>3 DEF IsRun
    <2>2. f[0] = << <<>> >>
      BY <1>2 DEF IsRun, OneEmpty
    <2>3. \A i \in 0 .. n : i = 0 \/ (i \in 1 .. n /\ i # 0)
      BY <1>1
    <2> QED BY <2>1, <2>2, <2>3
  <1>5. f = R(f)
    BY <1>4
  <1>6. upto = R(upto)
    <2> HIDE DEF R
    <2> QED BY <1>5
  <1>7. upto = f
    <2> DEFINE D == {i \in 0 .. n : upto[i] # f[i]}
    <2> HIDE DEF upto
    <2>1. \A i \in 0 .. n : upto[i] = IF i = 0 THEN << <<>> >> ELSE Grow(upto[i - 1], text[i], marks)
      BY <1>6
    <2>2. D = {}
      <3>1. SUFFICES ASSUME D # {} PROVE FALSE
        OBVIOUS
      <3>2. D \in SUBSET Nat
        OBVIOUS
      <3>3. PICK m \in D : \A t \in D : m <= t
        <4> HIDE DEF D
        <4> QED BY <3>1, <3>2, Least
      <3>4. m # 0 /\ m \in 0 .. n
        BY <1>4, <2>1, <3>3
      <3>5. m \in 1 .. n /\ ~(m <= m - 1) /\ m - 1 \in 0 .. n
        BY <1>1, <3>4
      <3>6. upto[m - 1] = f[m - 1]
        BY <3>3, <3>5
      <3> QED BY <1>4, <2>1, <3>3, <3>4, <3>6
    <2>3. upto = [i \in 0 .. n |-> upto[i]]
      BY <1>6
    <2> QED BY <2>2, <2>3
  <1>8. Parts(text, marks) = upto[n]
    BY Zenon DEF Parts
  <1>9. Result(F, OneEmpty, text) = f[n]
    BY <1>1, <1>2, ResultIs
  <1>10. n \in 0 .. n
    BY <1>1
  <1> HIDE DEF upto, n
  <1> QED BY <1>2, <1>7, <1>8, <1>9, <1>10 DEF F

\* Nothing has one piece, which is empty; one more character grows the pieces.
LEMMA PartsNone ==
  ASSUME NEW marks
  PROVE  Parts(<<>>, marks) = << <<>> >>
  <1> DEFINE e == <<>>
  <1>1. e \in Text
    BY DEF Text
  <1> HIDE DEF e
  <1>2. Parts(e, marks) = Result(Grown(marks), OneEmpty, e)
    BY <1>1, PartsResult
  <1>3. Result(Grown(marks), OneEmpty, <<>>) = OneEmpty
    BY ResultNone
  <1> QED BY <1>2, <1>3 DEF e, OneEmpty

LEMMA PartsMore ==
  ASSUME NEW text \in Text, NEW c \in Nat, NEW marks
  PROVE  Parts(Append(text, c), marks) = Grow(Parts(text, marks), c, marks)
  <1> DEFINE u == Append(text, c)
             F == Grown(marks)
             p == Parts(text, marks)
  <1>1. u \in Text /\ text \in Seq(Nat)
    BY AppendProperties DEF Text
  <1>2. F \in [Split \X Nat -> Split] /\ OneEmpty \in Split
    BY GrownType
  <1>3. p = Result(F, OneEmpty, text) /\ p \in Split
    BY PartsResult
  <1>4. F[<<p, c>>] = Grow(p, c, marks)
    BY <1>3 DEF Grown
  <1> HIDE DEF F, p
  <1>5. OneMore(F, OneEmpty, text, c)
    BY <1>1, <1>2, ResultMore
  <1>6. Result(F, OneEmpty, u) = F[<<p, c>>]
    BY <1>3, <1>5 DEF OneMore
  <1>7. Parts(u, marks) = Result(F, OneEmpty, u)
    BY <1>1, PartsResult DEF F
  <1> QED BY <1>4, <1>6, <1>7 DEF p

\* The first characters of a text.
Begin(t, k) == [i \in 1 .. k |-> t[i]]

LEMMA BeginShape ==
  ASSUME NEW S, NEW t \in Seq(S)
  PROVE  /\ Len(t) \in Nat /\ Begin(t, 0) = <<>> /\ Begin(t, Len(t)) = t
         /\ \A k \in 0 .. Len(t) : Begin(t, k) \in Seq(S) /\ Len(Begin(t, k)) = k
         /\ \A k \in 1 .. Len(t) : /\ t[k] \in S /\ k - 1 \in 0 .. Len(t)
                                   /\ Begin(t, k) = Append(Begin(t, k - 1), t[k])
  <1>1. Len(t) \in Nat /\ \A k \in 1 .. Len(t) : t[k] \in S
    OBVIOUS
  <1>2. Begin(t, 0) = <<>>
    BY DEF Begin
  <1>3. Begin(t, Len(t)) = t
    BY DEF Begin
  <1>4. ASSUME NEW k \in 0 .. Len(t)
        PROVE  Begin(t, k) \in Seq(S) /\ Len(Begin(t, k)) = k
    <2>1. Begin(t, k) \in [1 .. k -> S] /\ k \in Nat
      BY <1>1 DEF Begin
    <2> QED BY <2>1
  <1>5. ASSUME NEW k \in 1 .. Len(t)
        PROVE  k - 1 \in 0 .. Len(t) /\ Begin(t, k) = Append(Begin(t, k - 1), t[k])
    <2> DEFINE a == Begin(t, k - 1)
               b == Begin(t, k)
               x == t[k]
    <2>1. k - 1 \in 0 .. Len(t) /\ k \in 0 .. Len(t) /\ k \in Nat
      BY <1>1
    <2>2. a \in Seq(S) /\ Len(a) = k - 1 /\ b \in Seq(S) /\ Len(b) = k /\ x \in S
      BY <1>1, <1>4, <2>1
    <2>3. (\A i \in 1 .. k - 1 : a[i] = t[i]) /\ \A i \in 1 .. k : b[i] = t[i]
      BY DEF Begin
    <2> HIDE DEF a, b
    <2>4. /\ Append(a, x) \in Seq(S) /\ Len(Append(a, x)) = k /\ Append(a, x)[k] = x
          /\ \A i \in 1 .. k - 1 : Append(a, x)[i] = a[i]
      BY <2>1, <2>2, AppendProperties
    <2>5. \A i \in 1 .. k : b[i] = Append(a, x)[i]
      <3>1. \A i \in 1 .. k : i \in 1 .. k - 1 \/ i = k
        BY <2>1
      <3> QED BY <2>3, <2>4, <3>1
    <2>6. b = Append(a, x)
      <3> DEFINE y == Append(a, x)
      <3> HIDE DEF y
      <3> QED BY <2>2, <2>4, <2>5, SeqEqual DEF y
    <2> QED BY <2>1, <2>6 DEF a, b
  <1> QED BY <1>1, <1>2, <1>3, <1>4, <1>5

\* A text without marks is one piece.
LEMMA PartsWhole ==
  ASSUME NEW text \in Text, NEW marks, \A i \in 1 .. Len(text) : text[i] \notin marks
  PROVE  Parts(text, marks) = <<text>>
  <1> DEFINE n == Len(text)
             C(k) == Parts(Begin(text, k), marks) = <<Begin(text, k)>>
             T == {k \in 0 .. n : ~C(k)}
  <1>1. /\ n \in Nat /\ Begin(text, 0) = <<>> /\ Begin(text, n) = text
        /\ \A k \in 0 .. n : Begin(text, k) \in Text
        /\ \A k \in 1 .. n : /\ text[k] \in Nat /\ k - 1 \in 0 .. n
                             /\ Begin(text, k) = Append(Begin(text, k - 1), text[k])
    BY BeginShape DEF Text
  <1>2. C(0)
    BY <1>1, PartsNone
  <1>3. ASSUME NEW k \in 1 .. n, C(k - 1) PROVE C(k)
    <2> DEFINE a == Begin(text, k - 1)
               x == text[k]
    <2>1. a \in Text /\ x \in Nat /\ x \notin marks /\ Begin(text, k) = Append(a, x)
      BY <1>1
    <2>2. Parts(a, marks) = <<a>>
      BY <1>3
    <2> HIDE DEF a, x
    <2>3. Parts(Append(a, x), marks) = Grow(<<a>>, x, marks)
      BY <2>1, <2>2, PartsMore
    <2>4. <<a>> \in Split /\ Len(<<a>>) = 1 /\ <<a>>[1] = a
      BY <2>1 DEF Split
    <2> DEFINE g == Grow(<<a>>, x, marks)
    <2>5. g \in Split /\ Len(g) = 1 /\ g[1] = Append(a, x)
      BY ZenonT(40), <2>1, <2>4, GrowShape
    <2> HIDE DEF g
    <2>6. g = <<Append(a, x)>>
      BY <2>5 DEF Split
    <2> QED BY <2>1, <2>3, <2>6 DEF g
  <1> HIDE DEF C
  <1>4. T = {}
    <2>1. SUFFICES ASSUME T # {} PROVE FALSE
      OBVIOUS
    <2>2. T \in SUBSET Nat
      OBVIOUS
    <2>3. PICK m \in T : \A t \in T : m <= t
      <3> HIDE DEF T
      <3> QED BY <2>1, <2>2, Least
    <2>4. m # 0
      BY <1>2, <2>3
    <2>5. m \in 1 .. n /\ ~(m <= m - 1) /\ m - 1 \in 0 .. n
      BY <1>1, <2>3, <2>4
    <2>6. C(m - 1)
      BY <2>3, <2>5
    <2> QED BY <1>3, <2>3, <2>5, <2>6
  <1>5. C(n)
    BY <1>1, <1>4
  <1> QED BY <1>1, <1>5 DEF C

\* A sequence before another to which something is appended.
Appended(before, p, e) == Append(before \o p, e) = before \o Append(p, e)

LEMMA AppendGlued ==
  ASSUME NEW S, NEW before \in Seq(S), NEW p \in Seq(S), NEW e \in S
  PROVE  Appended(before, p, e)
  <1> DEFINE u == <<e>>
  <1>1. u \in Seq(S)
    OBVIOUS
  <1>2. Append(p, e) = p \o u
    BY AppendIsConcat
  <1>3. Append(before \o p, e) = (before \o p) \o u
    <2>1. before \o p \in Seq(S)
      BY ConcatProperties
    <2> QED BY <2>1, AppendIsConcat
  <1> HIDE DEF u
  <1> QED BY <1>1, <1>2, <1>3, ConcatAssociative DEF Appended

\* Growing the last pieces leaves those before them.
LEMMA GrowGlued ==
  ASSUME NEW before \in Seq(Text), NEW p \in Split, NEW c \in Nat, NEW marks
  PROVE  before \o p \in Split /\ Grow(before \o p, c, marks) = before \o Grow(p, c, marks)
  <1> DEFINE m == Len(before)
             n == Len(p)
             w == before \o p
  <1>1. m \in Nat /\ n \in Nat /\ n > 0 /\ p \in Seq(Text) /\ n \in 1 .. n
    BY DEF Split
  <1>2. /\ w \in Seq(Text) /\ Len(w) = m + n
        /\ \A i \in 1 .. m + n : w[i] = IF i <= m THEN before[i] ELSE p[i - m]
    BY <1>1, ConcatProperties
  <1> HIDE DEF m, n, w
  <1>3. w \in Split /\ w[Len(w)] = p[n]
    <2>1. m + n \in 1 .. m + n /\ ~(m + n <= m) /\ (m + n) - m = n
      BY <1>1
    <2> QED BY <1>1, <1>2, <2>1 DEF Split
  <1> DEFINE g == Grow(p, c, marks)
             h == Grow(w, c, marks)
             z == before \o g
  <1>4. g \in Split /\ h \in Split
    BY <1>3, GrowShape
  <1>5. /\ Len(g) \in Nat /\ z \in Seq(Text) /\ Len(z) = m + Len(g)
        /\ \A i \in 1 .. m + Len(g) : z[i] = IF i <= m THEN before[i] ELSE g[i - m]
    BY <1>4, ConcatProperties DEF Split, m
  <1>6. CASE c \notin marks
    <2>1. /\ Len(g) = n /\ g[n] = Append(p[n], c) /\ \A i \in 1 .. n - 1 : g[i] = p[i]
      BY <1>6, GrowShape DEF n
    <2>2. /\ Len(h) = m + n /\ h[m + n] = Append(p[n], c)
          /\ \A i \in 1 .. m + n - 1 : h[i] = w[i]
      <3>1. /\ Len(h) = Len(w) /\ h[Len(w)] = Append(w[Len(w)], c)
            /\ \A i \in 1 .. Len(w) - 1 : h[i] = w[i]
        BY ZenonT(40), <1>3, <1>6, GrowShape
      <3> HIDE DEF h
      <3> QED BY <1>1, <1>2, <1>3, <3>1
    <2> HIDE DEF g, h, z
    <2>3. ASSUME NEW i \in 1 .. m + n PROVE h[i] = z[i]
      <3>1. CASE i <= m
        <4>1. i \in 1 .. m + n - 1
          BY <1>1, <3>1
        <4> QED BY <1>2, <1>5, <2>1, <2>2, <3>1, <4>1
      <3>2. CASE ~(i <= m) /\ i < m + n
        <4>1. i \in 1 .. m + n - 1 /\ i - m \in 1 .. n - 1
          BY <1>1, <3>2
        <4>2. h[i] = p[i - m] /\ z[i] = g[i - m]
          BY <1>2, <1>5, <2>1, <2>2, <3>2, <4>1
        <4> QED BY <2>1, <4>1, <4>2
      <3>3. CASE i = m + n
        <4>1. i - m = n /\ ~(i <= m)
          BY <1>1, <3>3
        <4> QED BY <1>5, <2>1, <2>2, <3>3, <4>1
      <3> QED BY <1>1, <3>1, <3>2, <3>3
    <2>4. h = z
      BY <1>4, <1>5, <2>1, <2>2, <2>3, SeqEqual DEF Split
    <2> QED BY <1>3, <2>4 DEF g, h, z, w
  <1>7. CASE c \in marks /\ p[n] = <<>>
    <2>1. g = p
      BY <1>7, GrowShape DEF n
    <2>2. h = w
      BY <1>3, <1>7, GrowShape
    <2> QED BY <1>3, <2>1, <2>2 DEF w
  <1>8. CASE c \in marks /\ p[n] # <<>>
    <2> DEFINE e == <<>>
    <2>1. g = Append(p, e)
      BY <1>8, GrowShape DEF n
    <2>2. h = Append(w, e)
      BY <1>3, <1>8, GrowShape
    <2>3. e \in Text
      BY DEF Text
    <2> HIDE DEF e, g, h
    <2>4. Append(before \o p, e) = before \o Append(p, e)
      <3>1. before \in Seq(Text) /\ p \in Seq(Text) /\ e \in Text
        BY <1>1, <2>3
      <3>2. Appended(before, p, e)
        BY <3>1, AppendGlued
      <3> QED BY <3>2 DEF Appended
    <2> QED BY <1>3, <2>1, <2>2, <2>4 DEF w, g, h
  <1> QED BY <1>6, <1>7, <1>8

\* Behind a text whose last piece is empty the pieces begin anew.
LEMMA PartsGlued ==
  ASSUME NEW s \in Text, NEW t \in Text, NEW marks, NEW before \in Seq(Text),
         Parts(s, marks) = Append(before, <<>>)
  PROVE  Parts(s \o t, marks) = before \o Parts(t, marks)
  <1> DEFINE n == Len(t)
             C(k) == Parts(s \o Begin(t, k), marks) = before \o Parts(Begin(t, k), marks)
             T == {k \in 0 .. n : ~C(k)}
  <1>1. /\ n \in Nat /\ Begin(t, 0) = <<>> /\ Begin(t, n) = t
        /\ \A k \in 0 .. n : Begin(t, k) \in Text
        /\ \A k \in 1 .. n : /\ t[k] \in Nat /\ k - 1 \in 0 .. n
                             /\ Begin(t, k) = Append(Begin(t, k - 1), t[k])
    BY BeginShape DEF Text
  <1>2. C(0)
    <2> DEFINE e == <<>>
    <2>1. s \o <<>> = s
      BY ConcatEmptySeq DEF Text
    <2>2. e \in Text
      BY DEF Text
    <2>3. Parts(e, marks) = <<e>>
      BY PartsNone
    <2>4. Append(before, e) = before \o <<e>>
      BY <2>2, AppendIsConcat
    <2> QED BY <1>1, <2>1, <2>3, <2>4
  <1>3. ASSUME NEW k \in 1 .. n, C(k - 1) PROVE C(k)
    <2> DEFINE a == Begin(t, k - 1)
               x == t[k]
               p == Parts(a, marks)
    <2>1. a \in Text /\ x \in Nat /\ Begin(t, k) = Append(a, x)
      BY <1>1
    <2>2. Parts(s \o a, marks) = before \o p
      BY <1>3
    <2> HIDE DEF a, x
    <2>3. s \o a \in Text /\ Append(s \o a, x) = s \o Append(a, x)
      <3>1. s \in Seq(Nat) /\ a \in Seq(Nat)
        BY <2>1 DEF Text
      <3>2. s \o a \in Seq(Nat)
        BY <3>1, ConcatProperties
      <3>3. Appended(s, a, x)
        BY <2>1, <3>1, AppendGlued
      <3> QED BY <3>2, <3>3 DEF Appended, Text
    <2>4. p \in Split /\ Parts(Append(a, x), marks) = Grow(p, x, marks)
      BY <2>1, PartsResult, PartsMore
    <2>5. Parts(Append(s \o a, x), marks) = Grow(Parts(s \o a, marks), x, marks)
      BY <2>1, <2>3, PartsMore
    <2> HIDE DEF p
    <2>6. Grow(before \o p, x, marks) = before \o Grow(p, x, marks)
      BY <2>1, <2>4, GrowGlued
    <2> QED BY <2>1, <2>2, <2>3, <2>4, <2>5, <2>6
  <1> HIDE DEF C
  <1>4. T = {}
    <2>1. SUFFICES ASSUME T # {} PROVE FALSE
      OBVIOUS
    <2>2. T \in SUBSET Nat
      OBVIOUS
    <2>3. PICK m \in T : \A i \in T : m <= i
      <3> HIDE DEF T
      <3> QED BY <2>1, <2>2, Least
    <2>4. m # 0
      BY <1>2, <2>3
    <2>5. m \in 1 .. n /\ ~(m <= m - 1) /\ m - 1 \in 0 .. n
      BY <1>1, <2>3, <2>4
    <2>6. C(m - 1)
      BY <2>3, <2>5
    <2> QED BY <1>3, <2>3, <2>5, <2>6
  <1>5. C(n)
    <2>1. n \in 0 .. n
      BY <1>1
    <2> QED BY <1>4, <2>1
  <1> QED BY <1>1, <1>5 DEF C

\* A piece that a split leaves whole.
Piecelike(p, marks) == p \in Text /\ p # <<>> /\ \A i \in 1 .. Len(p) : p[i] \notin marks

\* Such pieces, each with a mark behind it, are what the split gives.
LEMMA PartsEnded ==
  ASSUME NEW parts \in Seq(Text), NEW marks, NEW mark \in Nat, mark \in marks, NEW rest \in Text,
         \A i \in 1 .. Len(parts) : Piecelike(parts[i], marks)
  PROVE  Parts(Ended(parts, mark) \o rest, marks) = parts \o Parts(rest, marks)
  <1> DEFINE n == Len(parts)
             e == <<>>
             s == [i \in 1 .. n |-> Append(parts[i], mark)]
             text == Ended(parts, mark)
  <1>1. /\ n \in Nat /\ Begin(parts, 0) = <<>> /\ Begin(parts, n) = parts
        /\ \A k \in 0 .. n : Begin(parts, k) \in Seq(Text)
        /\ \A k \in 1 .. n : /\ parts[k] \in Text /\ k - 1 \in 0 .. n
                             /\ Begin(parts, k) = Append(Begin(parts, k - 1), parts[k])
    BY BeginShape
  <1>2. \A i \in 1 .. n : Append(parts[i], mark) \in Seq(Nat)
    BY <1>1, AppendProperties DEF Text
  <1> HIDE DEF n
  <1>3. s \in Seq(Seq(Nat)) /\ Len(s) = n /\ \A i \in 1 .. n : s[i] = Append(parts[i], mark)
    <2>1. s \in [1 .. n -> Seq(Nat)]
      BY <1>2
    <2>2. \A i \in 1 .. n : s[i] = Append(parts[i], mark)
      OBVIOUS
    <2> HIDE DEF s
    <2>3. s \in Seq(Seq(Nat)) /\ Len(s) = n
      <3> DEFINE S == Seq(Nat)
      <3> HIDE DEF S
      <3>1. s \in Seq(S) /\ Len(s) = n
        BY <1>1, <2>1 DEF S
      <3> QED BY <3>1 DEF S
    <2> QED BY <2>2, <2>3
  <1>4. text = FlattenSeq(s)
    <2>1. DOMAIN parts = 1 .. n
      BY DEF n
    <2> QED BY <2>1, Zenon DEF Ended
  <1> HIDE DEF s, text
  <1>5. PICK f \in [0 .. n -> Seq(Nat)] :
           f[0] = <<>> /\ (\A i \in 1 .. n : f[i] = f[i - 1] \o s[i]) /\ text = f[n]
    BY <1>3, <1>4, FlattenJoins
  <1>6. e \in Text
    BY DEF Text
  <1> HIDE DEF e
  <1> DEFINE C(k) == Parts(f[k], marks) = Append(Begin(parts, k), e)
             T == {k \in 0 .. n : ~C(k)}
  <1>7. C(0)
    <2>1. Parts(<<>>, marks) = << <<>> >>
      BY PartsNone
    <2>2. Append(<<>>, e) = <<e>>
      OBVIOUS
    <2> QED BY <1>1, <1>5, <2>1, <2>2 DEF e
  <1>8. ASSUME NEW k \in 1 .. n, C(k - 1) PROVE C(k)
    <2> DEFINE x == parts[k]
               b == Begin(parts, k - 1)
               y == Append(x, mark)
    <2>1. x \in Text /\ x # e /\ \A i \in 1 .. Len(x) : x[i] \notin marks
      BY DEF Piecelike, n, e
    <2>2. b \in Seq(Text) /\ Begin(parts, k) = Append(b, x)
      BY <1>1
    <2>3. f[k] = f[k - 1] \o y /\ f[k - 1] \in Text /\ y \in Text
      BY <1>1, <1>2, <1>3, <1>5 DEF Text
    <2>4. Parts(f[k - 1], marks) = Append(b, e)
      BY <1>8
    <2>5. Parts(f[k], marks) = b \o Parts(y, marks)
      <3> HIDE DEF b, y
      <3> QED BY SMTT(30), <2>2, <2>3, <2>4, PartsGlued DEF e
    <2> HIDE DEF x, b
    <2>6. Parts(y, marks) = Append(<<x>>, e)
      <3>1. Parts(x, marks) = <<x>>
        BY <2>1, PartsWhole
      <3>2. Parts(y, marks) = Grow(<<x>>, mark, marks)
        BY <2>1, <3>1, PartsMore
      <3> DEFINE p == <<x>>
      <3>3. p \in Split /\ p[Len(p)] # <<>>
        BY <2>1 DEF Split, e
      <3> HIDE DEF p
      <3>4. Grow(p, mark, marks) = Append(p, <<>>)
        BY <3>3, GrowShape
      <3> QED BY <3>2, <3>4 DEF e, p
    <2> HIDE DEF y
    <2>7. b \o Append(<<x>>, e) = Append(b \o <<x>>, e)
      <3>1. <<x>> \in Seq(Text)
        BY <2>1
      <3>2. Appended(b, <<x>>, e)
        BY <1>6, <2>2, <3>1, AppendGlued
      <3> QED BY <3>2 DEF Appended
    <2>8. b \o <<x>> = Append(b, x)
      BY <2>1, <2>2, AppendIsConcat
    <2> QED BY <2>2, <2>5, <2>6, <2>7, <2>8
  <1> HIDE DEF C
  <1>9. T = {}
    <2>1. SUFFICES ASSUME T # {} PROVE FALSE
      OBVIOUS
    <2>2. T \in SUBSET Nat
      OBVIOUS
    <2>3. PICK m \in T : \A i \in T : m <= i
      <3> HIDE DEF T
      <3> QED BY <2>1, <2>2, Least
    <2>4. m # 0
      BY <1>7, <2>3
    <2>5. m \in 1 .. n /\ ~(m <= m - 1) /\ m - 1 \in 0 .. n
      BY <1>1, <2>3, <2>4
    <2>6. C(m - 1)
      BY <2>3, <2>5
    <2> QED BY <1>8, <2>3, <2>5, <2>6
  <1>10. Parts(text, marks) = Append(parts, e) /\ text \in Text
    <2>1. n \in 0 .. n
      BY <1>1
    <2> QED BY <1>1, <1>5, <1>9, <2>1 DEF C, Text
  <1> QED BY <1>10, PartsGlued DEF e, text

\* What FlattenSeq makes of sequences holds what they hold.
LEMMA FlatHolds ==
  ASSUME NEW S, NEW s \in Seq(Seq(S))
  PROVE  /\ FlattenSeq(s) \in Seq(S)
         /\ \A j \in 1 .. Len(FlattenSeq(s)) : \E k \in 1 .. Len(s) :
               \E i \in 1 .. Len(s[k]) : FlattenSeq(s)[j] = s[k][i]
         /\ \A k \in 1 .. Len(s) : \A i \in 1 .. Len(s[k]) :
               \E j \in 1 .. Len(FlattenSeq(s)) : FlattenSeq(s)[j] = s[k][i]
  <1>1. PICK off : Laid(off, s)
    BY Flat
  <1>2. FlattenSeq(s) \in Seq(S)
    BY Flat
  <1> DEFINE F == FlattenSeq(s)
  <1>3. /\ \A k \in 1 .. Len(s) : \A i \in 1 .. Len(s[k]) :
              off[k - 1] + i \in 1 .. Len(F) /\ F[off[k - 1] + i] = s[k][i]
        /\ \A j \in 1 .. Len(F) : \E k \in 1 .. Len(s) : \E i \in 1 .. Len(s[k]) :
              j = off[k - 1] + i
    BY <1>1, Zenon DEF Laid
  <1> HIDE DEF F
  <1>4. \A k \in 1 .. Len(s) : \A i \in 1 .. Len(s[k]) : \E j \in 1 .. Len(F) : F[j] = s[k][i]
    BY <1>3, Zenon
  <1>5. \A j \in 1 .. Len(F) : \E k \in 1 .. Len(s) : \E i \in 1 .. Len(s[k]) : F[j] = s[k][i]
    <2> SUFFICES ASSUME NEW j \in 1 .. Len(F)
                 PROVE  \E k \in 1 .. Len(s) : \E i \in 1 .. Len(s[k]) : F[j] = s[k][i]
      OBVIOUS
    <2>1. PICK k \in 1 .. Len(s) : \E i \in 1 .. Len(s[k]) : j = off[k - 1] + i
      BY <1>3
    <2>2. PICK i \in 1 .. Len(s[k]) : j = off[k - 1] + i
      BY <2>1
    <2>3. F[j] = s[k][i]
      BY <1>3, <2>2
    <2> QED BY <2>3
  <1> QED BY <1>2, <1>4, <1>5 DEF F

\* A text has no such character.
Lacks(t, x) == \A i \in 1 .. Len(t) : t[i] # x

\* Ended is text, of the parts' characters and marks.
LEMMA EndedShape ==
  ASSUME NEW parts \in Seq(Text), NEW mark \in Nat
  PROVE  /\ Ended(parts, mark) \in Text
         /\ \A x : x # mark /\ (\A i \in 1 .. Len(parts) : Lacks(parts[i], x)) =>
              Lacks(Ended(parts, mark), x)
  <1> DEFINE n == Len(parts)
             s == [i \in 1 .. n |-> Append(parts[i], mark)]
             text == Ended(parts, mark)
  <1>1. n \in Nat /\ DOMAIN parts = 1 .. n /\ \A i \in 1 .. n : parts[i] \in Seq(Nat)
    BY DEF Text
  <1>2. \A i \in 1 .. n : Append(parts[i], mark) \in Seq(Nat)
    BY <1>1, AppendProperties
  <1> HIDE DEF n
  <1>3. s \in Seq(Seq(Nat)) /\ Len(s) = n /\ \A i \in 1 .. n : s[i] = Append(parts[i], mark)
    BY <1>1, <1>2
  <1>4. text = FlattenSeq(s)
    BY <1>1, Zenon DEF Ended
  <1> HIDE DEF s
  <1>5. /\ FlattenSeq(s) \in Seq(Nat)
        /\ \A j \in 1 .. Len(FlattenSeq(s)) : \E k \in 1 .. Len(s) :
              \E i \in 1 .. Len(s[k]) : FlattenSeq(s)[j] = s[k][i]
    BY ZenonT(40), <1>3, FlatHolds
  <1> HIDE DEF text
  <1>6. ASSUME NEW x, x # mark, \A i \in 1 .. n : Lacks(parts[i], x)
        PROVE  Lacks(text, x)
    <2> SUFFICES ASSUME NEW j \in 1 .. Len(text) PROVE text[j] # x
      BY DEF Lacks
    <2>0. PICK k \in 1 .. n : \E i \in 1 .. Len(s[k]) : text[j] = s[k][i]
      BY <1>3, <1>4, <1>5
    <2>1. PICK i \in 1 .. Len(s[k]) : text[j] = s[k][i]
      BY <2>0
    <2> DEFINE p == parts[k]
    <2>2. p \in Seq(Nat) /\ Lacks(p, x) /\ s[k] = Append(p, mark)
      BY <1>1, <1>3, <1>6
    <2> HIDE DEF p
    <2>3. Len(p) \in Nat /\ Len(Append(p, mark)) = Len(p) + 1
      BY <2>2, AppendProperties
    <2>4. Append(p, mark)[i] = mark \/ (i \in 1 .. Len(p) /\ Append(p, mark)[i] = p[i])
      BY <2>1, <2>2, <2>3, AppendProperties
    <2> QED BY <1>6, <2>1, <2>2, <2>4 DEF Lacks
  <1> QED BY <1>4, <1>5, <1>6 DEF Text, text, n

-----------------------------------------------------------------------------
(* The text of /proc/mounts.                                               *)

\* The kernel escapes the blanks of a split's and of lines' marks but two, and
\* makes nothing of nothing only.
LEMMA MangleShape ==
  ASSUME NEW path \in Text
  PROVE  /\ Mangle(path) \in Text
         /\ \A x \in {9, 10, 32} : Lacks(Mangle(path), x)
         /\ \A x \in {12, 13} : Lacks(path, x) => Lacks(Mangle(path), x)
         /\ path # <<>> => Mangle(path) # <<>>
  <1> DEFINE n == Len(path)
             s == [k \in 1 .. n |-> Piece(path, k)]
             field == Mangle(path)
  <1>1. n \in Nat /\ DOMAIN path = 1 .. n
    BY DEF Text
  <1>2. s \in Seq(Text) /\ Len(s) = n /\ \A k \in 1 .. n : s[k] = Piece(path, k)
    <2>1. \A k \in 1 .. n : Piece(path, k) \in Text
      BY Pieces
    <2> HIDE DEF n
    <2> QED BY <1>1, <2>1
  <1>3. field = FlattenSeq(s)
    BY <1>1, Zenon DEF Mangle, Piece
  <1> HIDE DEF s, n, field
  <1>4. /\ field \in Seq(Nat)
        /\ \A j \in 1 .. Len(field) : \E k \in 1 .. n :
              \E i \in 1 .. Len(s[k]) : field[j] = s[k][i]
        /\ \A k \in 1 .. n : \A i \in 1 .. Len(s[k]) : \E j \in 1 .. Len(field) : field[j] = s[k][i]
    <2>1. s \in Seq(Seq(Nat))
      BY <1>2 DEF Text
    <2>2. /\ FlattenSeq(s) \in Seq(Nat)
          /\ \A j \in 1 .. Len(FlattenSeq(s)) : \E k \in 1 .. Len(s) :
                \E i \in 1 .. Len(s[k]) : FlattenSeq(s)[j] = s[k][i]
          /\ \A k \in 1 .. Len(s) : \A i \in 1 .. Len(s[k]) :
                \E j \in 1 .. Len(FlattenSeq(s)) : FlattenSeq(s)[j] = s[k][i]
      BY <2>1, FlatHolds
    <2> QED BY <1>2, <1>3, <2>2, Zenon
  <1>5. ASSUME NEW k \in 1 .. n
        PROVE  /\ Len(s[k]) \in Nat /\ Len(s[k]) > 0
               /\ \A i \in 1 .. Len(s[k]) :
                     s[k][i] \in {Backslash} \cup (48 .. 55)
                       \/ (s[k][i] = path[k] /\ path[k] \notin {9, 10, 32})
    <2> DEFINE p == Piece(path, k)
               Quoted(x, y, z) == p = <<Backslash, x, y, z>>
    <2>1. /\ path[k] \notin {9, 10, 32, Backslash} => p = <<path[k]>>
          /\ path[k] = 9 => Quoted(48, 49, 49)
          /\ path[k] = 10 => Quoted(48, 49, 50)
          /\ path[k] = 32 => Quoted(48, 52, 48)
          /\ path[k] = Backslash => Quoted(49, 51, 52)
      BY Pieces DEF n
    <2>0. s[k] = p
      BY <1>2
    <2> HIDE DEF p
    <2>2. ASSUME NEW x \in 48 .. 55, NEW y \in 48 .. 55, NEW z \in 48 .. 55, Quoted(x, y, z)
          PROVE  /\ Len(p) = 4
                 /\ \A i \in 1 .. Len(p) : p[i] \in {Backslash} \cup (48 .. 55)
      <3>1. Len(p) = 4 /\ p[1] = Backslash /\ p[2] = x /\ p[3] = y /\ p[4] = z
        BY <2>2
      <3>2. \A i \in 1 .. 4 : i = 1 \/ i = 2 \/ i = 3 \/ i = 4
        OBVIOUS
      <3> QED BY <3>1, <3>2
    <2>3. CASE path[k] \notin {9, 10, 32, Backslash}
      <3>1. Len(p) = 1 /\ p[1] = path[k] /\ \A i \in 1 .. 1 : i = 1
        BY <2>1, <2>3
      <3> QED BY <2>0, <2>3, <3>1
    <2>4. CASE path[k] \in {9, 10, 32, Backslash}
      <3>1. \E x, y, z \in 48 .. 55 : Quoted(x, y, z)
        <4>1. {48, 49, 50, 51, 52} \subseteq 48 .. 55
          OBVIOUS
        <4> HIDE DEF Quoted
        <4> QED BY <2>1, <2>4, <4>1
      <3>2. Len(p) = 4 /\ \A i \in 1 .. Len(p) : p[i] \in {Backslash} \cup (48 .. 55)
        <4> HIDE DEF Quoted
        <4> QED BY <2>2, <3>1
      <3> QED BY <2>0, <3>2
    <2> QED BY <2>3, <2>4
  <1>6. ASSUME NEW x \in {9, 10, 12, 13, 32}, x \in {12, 13} => Lacks(path, x)
        PROVE  Lacks(field, x)
    <2> SUFFICES ASSUME NEW j \in 1 .. Len(field) PROVE field[j] # x
      BY DEF Lacks
    <2>1. PICK k \in 1 .. n : \E i \in 1 .. Len(s[k]) : field[j] = s[k][i]
      BY <1>4
    <2>2. PICK i \in 1 .. Len(s[k]) : field[j] = s[k][i]
      BY <2>1
    <2>3. \/ field[j] \in {Backslash} \cup (48 .. 55)
          \/ field[j] = path[k] /\ path[k] \notin {9, 10, 32}
      BY <1>5, <2>2
    <2>4. x \notin {Backslash} \cup (48 .. 55)
      BY DEF Backslash
    <2>5. x \in {12, 13} => path[k] # x
      BY <1>6 DEF Lacks, n
    <2> QED BY <1>6, <2>3, <2>4, <2>5
  <1>7. ASSUME path # <<>> PROVE field # <<>>
    <2>1. n # 0
      BY <1>7, EmptySeq DEF Text, n
    <2>2. 1 \in 1 .. n /\ 1 \in 1 .. Len(s[1])
      BY <1>1, <1>5, <2>1
    <2>3. \E j \in 1 .. Len(field) : TRUE
      BY <1>4, <2>2
    <2>4. ASSUME field = <<>> PROVE FALSE
      <3>1. Len(field) = 0
        BY <2>4
      <3> QED BY <2>3, <3>1
    <2> QED BY <2>4
  <1>8. /\ \A x \in {9, 10, 32} : Lacks(field, x)
        /\ \A x \in {12, 13} : Lacks(path, x) => Lacks(field, x)
    BY <1>6
  <1> QED BY <1>4, <1>7, <1>8 DEF Text, field

\* A text without the four it escapes stays as it is.
LEMMA MangleWord ==
  ASSUME NEW t \in Text, \A i \in 1 .. Len(t) : t[i] \notin {9, 10, 32, Backslash}
  PROVE  Mangle(t) = t
  <1> DEFINE n == Len(t)
             s == [k \in 1 .. n |-> Piece(t, k)]
             field == Mangle(t)
  <1>1. /\ n \in Nat /\ DOMAIN t = 1 .. n /\ Begin(t, 0) = <<>> /\ Begin(t, n) = t
        /\ \A k \in 0 .. n : Begin(t, k) \in Seq(Nat)
        /\ \A k \in 1 .. n : /\ t[k] \in Nat /\ k - 1 \in 0 .. n
                             /\ Begin(t, k) = Append(Begin(t, k - 1), t[k])
    <2>1. t \in Seq(Nat)
      BY DEF Text
    <2>2. /\ Len(t) \in Nat /\ Begin(t, 0) = <<>> /\ Begin(t, Len(t)) = t
          /\ \A k \in 0 .. Len(t) : Begin(t, k) \in Seq(Nat)
          /\ \A k \in 1 .. Len(t) : /\ t[k] \in Nat /\ k - 1 \in 0 .. Len(t)
                                     /\ Begin(t, k) = Append(Begin(t, k - 1), t[k])
      BY <2>1, BeginShape
    <2> QED BY <2>1, <2>2
  <1>2. s \in Seq(Seq(Nat)) /\ Len(s) = n /\ \A k \in 1 .. n : s[k] = <<t[k]>>
    <2>1. \A k \in 1 .. n : Piece(t, k) = <<t[k]>>
      BY Pieces
    <2>2. \A k \in 1 .. n : <<t[k]>> \in Seq(Nat)
      BY <1>1
    <2> HIDE DEF n
    <2>3. s \in [1 .. n -> Seq(Nat)] /\ \A k \in 1 .. n : s[k] = <<t[k]>>
      BY <2>1, <2>2
    <2> HIDE DEF s
    <2> DEFINE S == Seq(Nat)
    <2> HIDE DEF S
    <2>4. s \in Seq(S) /\ Len(s) = n
      BY <1>1, <2>3 DEF S
    <2> QED BY <2>3, <2>4 DEF S
  <1>3. field = FlattenSeq(s)
    BY <1>1, Zenon DEF Mangle, Piece
  <1> HIDE DEF s, n, field
  <1>4. PICK f \in [0 .. n -> Seq(Nat)] :
           f[0] = <<>> /\ (\A i \in 1 .. n : f[i] = f[i - 1] \o s[i]) /\ field = f[n]
    BY <1>2, <1>3, FlattenJoins
  <1> DEFINE T == {k \in 0 .. n : f[k] # Begin(t, k)}
  <1>5. ASSUME NEW k \in 1 .. n, f[k - 1] = Begin(t, k - 1) PROVE f[k] = Begin(t, k)
    <2> DEFINE b == Begin(t, k - 1)
               x == t[k]
    <2>1. b \in Seq(Nat) /\ x \in Nat /\ Begin(t, k) = Append(b, x) /\ f[k] = b \o <<x>>
      BY <1>1, <1>2, <1>4, <1>5
    <2> HIDE DEF b, x
    <2> QED BY <2>1, AppendIsConcat
  <1>6. T = {}
    <2>1. SUFFICES ASSUME T # {} PROVE FALSE
      OBVIOUS
    <2>2. T \in SUBSET Nat
      OBVIOUS
    <2>3. PICK m \in T : \A i \in T : m <= i
      <3> HIDE DEF T
      <3> QED BY <2>1, <2>2, Least
    <2>4. m # 0
      BY <1>1, <1>4, <2>3
    <2>5. m \in 1 .. n /\ ~(m <= m - 1) /\ m - 1 \in 0 .. n
      BY <1>1, <2>3, <2>4
    <2>6. f[m - 1] = Begin(t, m - 1)
      BY <2>3, <2>5
    <2> QED BY <1>5, <2>3, <2>5, <2>6
  <1>7. n \in 0 .. n
    BY <1>1
  <1> QED BY <1>1, <1>4, <1>6, <1>7 DEF field

\* Local filesystems are told by their types, mangled or not.
LEMMA FstypeMangled ==
  ASSUME NEW t \in Text
  PROVE  Mangle(t) \in FSTYPE_ALLOWLIST <=> t \in FSTYPE_ALLOWLIST
  <1> DEFINE Letter == (48 .. 57) \cup (97 .. 122)
             Word(a) == a \in Text /\ \A i \in 1 .. Len(a) : a[i] \in Letter
  <1>1. \A a \in FSTYPE_ALLOWLIST : Word(a)
    <2>1. /\ 50 \in Letter /\ 51 \in Letter /\ 52 \in Letter /\ 97 \in Letter /\ 98 \in Letter
          /\ 101 \in Letter /\ 102 \in Letter /\ 112 \in Letter /\ 114 \in Letter
          /\ 115 \in Letter /\ 116 \in Letter /\ 118 \in Letter /\ 120 \in Letter
          /\ 122 \in Letter /\ Letter \subseteq Nat
      OBVIOUS
    <2> HIDE DEF Letter
    <2>2. ASSUME NEW x \in Letter, NEW y \in Letter, NEW z \in Letter
          PROVE  Word(<<x, y, z>>)
      <3>1. <<x, y, z>> \in Seq(Nat) /\ Len(<<x, y, z>>) = 3
        BY <2>1
      <3>2. \A i \in 1 .. 3 : i = 1 \/ i = 2 \/ i = 3
        OBVIOUS
      <3> QED BY <3>1, <3>2 DEF Text
    <2>3. ASSUME NEW x \in Letter, NEW y \in Letter, NEW z \in Letter, NEW v \in Letter
          PROVE  Word(<<x, y, z, v>>)
      <3>1. <<x, y, z, v>> \in Seq(Nat) /\ Len(<<x, y, z, v>>) = 4
        BY <2>1
      <3>2. \A i \in 1 .. 4 : i = 1 \/ i = 2 \/ i = 3 \/ i = 4
        OBVIOUS
      <3> QED BY <3>1, <3>2 DEF Text
    <2>4. ASSUME NEW x \in Letter, NEW y \in Letter, NEW z \in Letter, NEW v \in Letter,
                 NEW w \in Letter
          PROVE  Word(<<x, y, z, v, w>>)
      <3>1. <<x, y, z, v, w>> \in Seq(Nat) /\ Len(<<x, y, z, v, w>>) = 5
        BY <2>1
      <3>2. \A i \in 1 .. 5 : i = 1 \/ i = 2 \/ i = 3 \/ i = 4 \/ i = 5
        OBVIOUS
      <3> QED BY <3>1, <3>2 DEF Text
    <2> HIDE DEF Word
    <2>5. Word(<<120, 102, 115>>) /\ Word(<<122, 102, 115>>)
      BY <2>1, <2>2
    <2>6. /\ Word(<<101, 120, 116, 52>>) /\ Word(<<101, 120, 116, 51>>)
          /\ Word(<<102, 50, 102, 115>>) /\ Word(<<118, 102, 97, 116>>)
      BY <2>1, <2>3
    <2>7. Word(<<98, 116, 114, 102, 115>>)
      BY ZenonT(40), <2>1, <2>4
    <2>8. ASSUME NEW a \in FSTYPE_ALLOWLIST PROVE Word(a)
      <3>1. \/ a = <<101, 120, 116, 52>> \/ a = <<101, 120, 116, 51>> \/ a = <<120, 102, 115>>
            \/ a = <<98, 116, 114, 102, 115>> \/ a = <<102, 50, 102, 115>>
            \/ a = <<118, 102, 97, 116>> \/ a = <<122, 102, 115>>
        BY Zenon DEF FSTYPE_ALLOWLIST
      <3> QED BY <2>5, <2>6, <2>7, <3>1
    <2> QED BY <2>8
  <1>2. \A a \in FSTYPE_ALLOWLIST : Mangle(a) = a /\ Unmangle(a) = a
    <2> TAKE a \in FSTYPE_ALLOWLIST
    <2>1. a \in Text /\ \A i \in 1 .. Len(a) : a[i] \notin {9, 10, 32, Backslash}
      <3>1. Word(a)
        BY <1>1
      <3>2. \A x \in Letter : x \notin {9, 10, 32, Backslash}
        BY DEF Backslash
      <3> HIDE DEF Letter
      <3> QED BY <3>1, <3>2
    <2>2. Mangle(a) = a
      BY <2>1, MangleWord
    <2>3. Unmangle(Mangle(a)) = a
      BY <2>1, UnmangleMangle
    <2> QED BY <2>2, <2>3
  <1>3. Unmangle(Mangle(t)) = t
    BY UnmangleMangle
  <1> QED BY <1>2, <1>3

\* The fields of a mount before those that no one looks at.
RowParts(mount) ==
    << Mangle(mount.device), Mangle(mount.path), Mangle(mount.vfstype), <<114, 119>>, <<48>> >>

\* A row is text; where it is legible it has no line feed and its six fields.
LEMMA RowShape ==
  ASSUME NEW mount \in Mount
  PROVE  /\ Row(mount) \in Text
         /\ LegibleRow(mount) =>
              /\ Row(mount) # <<>> /\ Lacks(Row(mount), 10)
              /\ Len(Fields(Row(mount))) = 6
              /\ Fields(Row(mount))[1] = Mangle(mount.device)
              /\ Fields(Row(mount))[2] = Mangle(mount.path)
              /\ Fields(Row(mount))[3] = Mangle(mount.vfstype)
  <1> DEFINE d == Mangle(mount.device)
             p == Mangle(mount.path)
             v == Mangle(mount.vfstype)
             rw == <<114, 119>>
             zero == <<48>>
             parts == RowParts(mount)
             ended == Ended(parts, 32)
  <1>1. /\ d \in Text /\ p \in Text /\ v \in Text
        /\ Lacks(d, 10) /\ Lacks(p, 10) /\ Lacks(v, 10)
    BY MangleShape DEF Mount
  <1>2. ASSUME LegibleRow(mount)
        PROVE  Piecelike(d, Whitespace) /\ Piecelike(p, Whitespace) /\ Piecelike(v, Whitespace)
    <2>1. ASSUME NEW t \in Text, Legible(t)
          PROVE  Piecelike(Mangle(t), Whitespace)
      <3>1. t # <<>> /\ Lacks(t, 12) /\ Lacks(t, 13)
        <4>1. DOMAIN t = 1 .. Len(t)
          BY DEF Text
        <4> QED BY <2>1, <4>1 DEF Legible, Lacks
      <3>2. /\ Mangle(t) \in Text /\ Mangle(t) # <<>>
            /\ \A x \in {9, 10, 32} : Lacks(Mangle(t), x)
            /\ \A x \in {12, 13} : Lacks(t, x) => Lacks(Mangle(t), x)
        BY <3>1, MangleShape, Zenon
      <3>3. \A x \in Whitespace : Lacks(Mangle(t), x)
        BY <3>1, <3>2 DEF Whitespace
      <3> QED BY <3>2, <3>3 DEF Piecelike, Lacks
    <2>2. /\ mount.device \in Text /\ mount.path \in Text /\ mount.vfstype \in Text
          /\ Legible(mount.device) /\ Legible(mount.path) /\ Legible(mount.vfstype)
      BY <1>2 DEF Mount, LegibleRow
    <2> QED BY <2>1, <2>2
  <1>3. /\ rw \in Text /\ zero \in Text /\ Lacks(rw, 10) /\ Lacks(zero, 10)
        /\ Piecelike(rw, Whitespace) /\ Piecelike(zero, Whitespace)
    <2>1. /\ rw \in Seq(Nat) /\ Len(rw) = 2 /\ rw[1] = 114 /\ rw[2] = 119 /\ rw # <<>>
          /\ \A i \in 1 .. 2 : i = 1 \/ i = 2
      OBVIOUS
    <2>2. /\ zero \in Seq(Nat) /\ Len(zero) = 1 /\ zero[1] = 48 /\ zero # <<>>
          /\ \A i \in 1 .. 1 : i = 1
      OBVIOUS
    <2> HIDE DEF rw, zero
    <2> QED BY <2>1, <2>2 DEF Text, Lacks, Piecelike, Whitespace
  <1>4. Row(mount) = ended \o zero
    BY Zenon DEF Row, RowParts
  <1>5. parts = <<d, p, v, rw, zero>>
    BY Zenon DEF RowParts
  <1> HIDE DEF d, p, v, rw, zero, parts
  <1>6. /\ parts \in Seq(Text) /\ Len(parts) = 5
        /\ parts[1] = d /\ parts[2] = p /\ parts[3] = v /\ parts[4] = rw /\ parts[5] = zero
        /\ \A i \in 1 .. 5 : i = 1 \/ i = 2 \/ i = 3 \/ i = 4 \/ i = 5
    BY <1>1, <1>3, <1>5
  <1>7. ended \in Text /\ Lacks(ended, 10)
    <2>1. \A i \in 1 .. Len(parts) : Lacks(parts[i], 10)
      BY <1>1, <1>3, <1>6
    <2>2. 32 \in Nat /\ 10 # 32
      OBVIOUS
    <2> QED BY <1>6, <2>1, <2>2, EndedShape
  <1> DEFINE row == ended \o zero
  <1> HIDE DEF ended
  <1>8. row \in Text /\ row # <<>> /\ Lacks(row, 10)
    <2>1. ended \in Seq(Nat) /\ 48 \in Nat /\ Len(ended) \in Nat
      BY <1>7 DEF Text
    <2>2. row = Append(ended, 48)
      BY <2>1, AppendIsConcat DEF zero
    <2> HIDE DEF row
    <2>3. /\ row \in Seq(Nat) /\ row # <<>> /\ Len(row) = Len(ended) + 1 /\ row[Len(ended) + 1] = 48
          /\ \A i \in 1 .. Len(ended) : row[i] = ended[i]
      BY <2>1, <2>2, AppendProperties
    <2>4. Lacks(row, 10)
      <3>1. \A i \in 1 .. Len(row) : i \in 1 .. Len(ended) \/ i = Len(ended) + 1
        BY <2>1, <2>3
      <3> QED BY <1>7, <2>3, <3>1 DEF Lacks
    <2> QED BY <2>3, <2>4 DEF Text
  <1>9. ASSUME LegibleRow(mount)
        PROVE  /\ Len(Fields(row)) = 6
               /\ Fields(row)[1] = d /\ Fields(row)[2] = p /\ Fields(row)[3] = v
    <2>1. \A i \in 1 .. Len(parts) : Piecelike(parts[i], Whitespace)
      BY <1>2, <1>3, <1>6, <1>9
    <2>2. 32 \in Nat /\ 32 \in Whitespace
      BY DEF Whitespace
    <2>3. Parts(row, Whitespace) = parts \o Parts(zero, Whitespace)
      BY <1>3, <1>6, <2>1, <2>2, PartsEnded DEF ended
    <2>4. Parts(zero, Whitespace) = <<zero>>
      BY <1>3, PartsWhole DEF Piecelike
    <2>5. Fields(row) = parts \o <<zero>>
      BY <2>3, <2>4 DEF Fields
    <2>6. Fields(row) = Append(parts, zero)
      BY <1>3, <1>6, <2>5, AppendIsConcat
    <2> DEFINE w == Append(parts, zero)
    <2>7. Len(w) = 6 /\ \A i \in 1 .. 5 : w[i] = parts[i]
      <3>1. Len(w) = Len(parts) + 1 /\ \A i \in 1 .. Len(parts) : w[i] = parts[i]
        <4>1. parts \in Seq(Text) /\ zero \in Text
          BY <1>3, <1>6
        <4> QED BY <4>1, AppendProperties
      <3> HIDE DEF w
      <3>2. Len(parts) = 5
        BY <1>6
      <3> QED BY <3>1, <3>2
    <2> HIDE DEF w, row
    <2> QED BY <1>6, <2>6, <2>7 DEF w
  <1> QED BY <1>4, <1>8, <1>9 DEF d, p, v, row

\* The table is text, and where its rows are legible its lines are the rows,
\* and one that is empty.
LEMMA TableLines ==
  ASSUME NEW table \in Seq(Mount)
  PROVE  /\ ProcMounts(table) \in Text
         /\ (\A i \in 1 .. Len(table) : LegibleRow(table[i])) =>
              /\ Len(Lines(ProcMounts(table))) = Len(table) + 1
              /\ \A i \in 1 .. Len(table) : Lines(ProcMounts(table))[i] = Row(table[i])
              /\ Lines(ProcMounts(table))[Len(table) + 1] = <<>>
  <1> DEFINE n == Len(table)
             rows == [i \in 1 .. n |-> Row(table[i])]
             text == Ended(rows, 10)
  <1>1. n \in Nat /\ DOMAIN table = 1 .. n /\ \A i \in 1 .. n : table[i] \in Mount
    BY LenProperties
  <1>2. \A i \in 1 .. n : Row(table[i]) \in Text
    BY <1>1, RowShape
  <1>3. ProcMounts(table) = text
    BY <1>1, Zenon DEF ProcMounts
  <1> HIDE DEF n
  <1>4. rows \in Seq(Text) /\ Len(rows) = n /\ \A i \in 1 .. n : rows[i] = Row(table[i])
    <2>1. rows \in [1 .. n -> Text] /\ \A i \in 1 .. n : rows[i] = Row(table[i])
      BY <1>2
    <2> HIDE DEF rows
    <2>2. rows \in Seq(Text) /\ Len(rows) = n
      BY <1>1, <2>1
    <2> QED BY <2>1, <2>2
  <1> HIDE DEF rows
  <1>5. text \in Text
    <2>1. 10 \in Nat
      OBVIOUS
    <2> QED BY <1>4, <2>1, EndedShape
  <1>6. ASSUME \A i \in 1 .. n : LegibleRow(table[i])
        PROVE  /\ Len(Lines(text)) = n + 1
               /\ \A i \in 1 .. n : Lines(text)[i] = rows[i]
               /\ Lines(text)[n + 1] = <<>>
    <2> DEFINE e == <<>>
               u == <<e>>
               w == Lines(text)
    <2>1. \A i \in 1 .. Len(rows) : Piecelike(rows[i], {10})
      <3>1. \A i \in 1 .. n : Row(table[i]) # <<>> /\ Lacks(Row(table[i]), 10)
        BY <1>1, <1>6, RowShape
      <3> QED BY <1>2, <1>4, <3>1 DEF Piecelike, Lacks
    <2>2. e \in Text /\ u \in Seq(Text) /\ Len(u) = 1 /\ u[1] = <<>>
      BY DEF Text
    <2>3. Parts(e, {10}) = u
      BY PartsNone
    <2>4. text \o <<>> = text
      BY <1>5, ConcatEmptySeq DEF Text
    <2> HIDE DEF u
    <2>5. Parts(text \o e, {10}) = rows \o Parts(e, {10})
      <3>1. e \in Text
        BY <2>2
      <3>2. 10 \in Nat /\ 10 \in {10}
        OBVIOUS
      <3> HIDE DEF e
      <3> QED BY <1>4, <2>1, <3>1, <3>2, PartsEnded
    <2> HIDE DEF text
    <2>6. w = rows \o u
      BY <2>3, <2>4, <2>5 DEF Lines
    <2> HIDE DEF w
    <2>7. w = Append(rows, e)
      BY <1>4, <2>2, <2>6, AppendIsConcat DEF u
    <2> HIDE DEF e
    <2>8. Len(w) = n + 1 /\ w[n + 1] = e /\ \A i \in 1 .. n : w[i] = rows[i]
      BY <1>4, <2>2, <2>7, AppendProperties
    <2> QED BY <2>8 DEF w, e
  <1> QED BY <1>3, <1>4, <1>5, <1>6 DEF n, text

-----------------------------------------------------------------------------
(* The loop over the mounts.                                               *)

\* What the loop reads of a line, and what it keeps of those it went through.
Device(line) == Fields(line)[1]
Under(line)  == Unmangle(Fields(line)[2])
Local(line)  == Len(Fields(line)) >= 3 /\ Fields(line)[3] \in FSTYPE_ALLOWLIST
Acc          == [devices : SUBSET Text, mounts : Seq(Text)]

\* What it begins with, and one turn of it.
Turned(acc, line) ==
    IF \/ Len(Fields(line)) < 3
       \/ Fields(line)[3] \notin FSTYPE_ALLOWLIST
       \/ Fields(line)[1] \in acc.devices
    THEN acc
    ELSE [devices |-> acc.devices \cup {Fields(line)[1]},
          mounts  |-> Append(acc.mounts, Unmangle(Fields(line)[2]))]
Empty == [devices |-> {}, mounts |-> <<>>]

\* Whatever a line is, it has a field, and unescaping one gives text.
LEMMA LineShape ==
  ASSUME NEW line \in Text
  PROVE  /\ Len(Fields(line)) \in Nat /\ Device(line) \in Text
         /\ Local(line) => Under(line) \in Text
  <1> DEFINE fields == Fields(line)
  <1>1. fields \in Split
    BY PartsResult DEF Fields
  <1> HIDE DEF fields
  <1>2. Len(fields) \in Nat /\ \A i \in 1 .. Len(fields) : fields[i] \in Text
    BY <1>1 DEF Split
  <1>3. 1 \in 1 .. Len(fields) /\ (Len(fields) >= 3 => 2 \in 1 .. Len(fields))
    BY <1>1, <1>2 DEF Split
  <1>4. \A field \in Text : Unmangle(field) \in Text
    <2> TAKE field \in Text
    <2>1. PICK f : Unmangles(f, field) /\ Unmangle(field) = f[1]
      BY UnmangleFrom
    <2>2. 1 \in 1 .. Len(field) + 4
      BY DEF Text
    <2> QED BY <2>1, <2>2 DEF Unmangles
  <1> QED BY <1>2, <1>3, <1>4 DEF fields, Device, Under, Local

\* A turn passes over a line, or keeps it, and keeps the types.
LEMMA TurnedShape ==
  ASSUME NEW acc \in Acc, NEW line \in Text
  PROVE  /\ Turned(acc, line) \in Acc
         /\ ~Local(line) \/ Device(line) \in acc.devices => Turned(acc, line) = acc
         /\ Local(line) /\ Device(line) \notin acc.devices =>
              /\ Turned(acc, line).devices = acc.devices \cup {Device(line)}
              /\ Turned(acc, line).mounts = Append(acc.mounts, Under(line))
  <1> DEFINE next == [devices |-> acc.devices \cup {Device(line)},
                      mounts  |-> Append(acc.mounts, Under(line))]
  <1>1. Len(Fields(line)) \in Nat /\ Device(line) \in Text /\ (Local(line) => Under(line) \in Text)
    BY LineShape
  <1>2. Turned(acc, line) = IF ~Local(line) \/ Device(line) \in acc.devices THEN acc ELSE next
    <2>1. Len(Fields(line)) < 3 <=> ~(Len(Fields(line)) >= 3)
      BY <1>1
    <2> QED BY <2>1, Zenon DEF Turned, Local, Device, Under
  <1>3. ASSUME Local(line) PROVE next \in Acc
    <2>1. acc.devices \cup {Device(line)} \in SUBSET Text
      BY <1>1 DEF Acc
    <2>2. acc.mounts \in Seq(Text) /\ Under(line) \in Text
      BY <1>1, <1>3 DEF Acc
    <2>3. Append(acc.mounts, Under(line)) \in Seq(Text)
      BY <2>2, AppendProperties
    <2> QED BY <2>1, <2>3 DEF Acc
  <1>4. /\ next.devices = acc.devices \cup {Device(line)}
        /\ next.mounts = Append(acc.mounts, Under(line))
    OBVIOUS
  <1> HIDE DEF next
  <1> QED BY <1>2, <1>3, <1>4

\* The lines of any text.
LEMMA LinesType ==
  ASSUME NEW text \in Text
  PROVE  Lines(text) \in Seq(Text)
  BY PartsResult DEF Lines, Split

\* SelectMounts goes through the lines from the first on.
LEMMA SelectLoop ==
  ASSUME NEW text \in Text, NEW lines, lines = Lines(text)
  PROVE  \E f \in [0 .. Len(lines) -> Acc] :
            /\ f[0] = Empty /\ SelectMounts(text) = f[Len(lines)].mounts
            /\ \A i \in 1 .. Len(lines) : f[i] = Turned(f[i - 1], lines[i])
  <1> DEFINE n == Len(lines)
             R(g) == [s \in SUBSET DOMAIN lines |->
                        IF s = {} THEN Empty ELSE Turned(g[s \ {Max(s)}], lines[Max(s)])]
             it == CHOOSE g : g = R(g)
             P(k) == \E g \in [SUBSET (1 .. k) -> Acc] : \A s \in SUBSET (1 .. k) :
                        g[s] = IF s = {} THEN Empty
                               ELSE Turned(g[s \ {Max(s)}], lines[Max(s)])
             T == {k \in 0 .. n : ~P(k)}
  <1>0. lines \in Seq(Text)
    BY LinesType
  <1>1. n \in Nat /\ DOMAIN lines = 1 .. n /\ \A i \in 1 .. n : lines[i] \in Text
    BY <1>0, LenProperties
  <1>2. SelectMounts(text) = it[DOMAIN lines].mounts
    BY ZenonT(40) DEF SelectMounts, FoldLeft, MapThenFoldSet, Turned, Empty
  <1>3. Empty \in Acc
    BY EmptySeq DEF Empty, Acc
  <1> HIDE DEF it, n
  <1>4. P(0)
    <2> DEFINE g == [s \in SUBSET (1 .. 0) |-> Empty]
    <2>1. \A s \in SUBSET (1 .. 0) : s = {}
      OBVIOUS
    <2>2. g \in [SUBSET (1 .. 0) -> Acc] /\ \A s \in SUBSET (1 .. 0) : g[s] = Empty
      BY <1>3
    <2> HIDE DEF g
    <2> QED BY <2>1, <2>2
  <1>5. ASSUME NEW k \in 1 .. n, P(k - 1) PROVE P(k)
    <2>1. PICK g \in [SUBSET (1 .. k - 1) -> Acc] : \A s \in SUBSET (1 .. k - 1) :
             g[s] = IF s = {} THEN Empty ELSE Turned(g[s \ {Max(s)}], lines[Max(s)])
      BY <1>5
    <2> DEFINE h == [s \in SUBSET (1 .. k) |->
                       IF k \in s THEN Turned(g[s \ {k}], lines[k]) ELSE g[s]]
    <2>2. \A s \in SUBSET (1 .. k) : s \ {k} \in SUBSET (1 .. k - 1)
      OBVIOUS
    <2>3. \A s \in SUBSET (1 .. k) : Turned(g[s \ {k}], lines[k]) \in Acc
      BY <1>1, <2>1, <2>2, TurnedShape
    <2>4. \A s \in SUBSET (1 .. k) : k \notin s => s \in SUBSET (1 .. k - 1)
      BY <2>2
    <2>5. /\ h \in [SUBSET (1 .. k) -> Acc]
          /\ \A s \in SUBSET (1 .. k) :
                h[s] = IF k \in s THEN Turned(g[s \ {k}], lines[k]) ELSE g[s]
      BY <2>1, <2>3, <2>4
    <2> HIDE DEF h
    <2>6. ASSUME NEW s \in SUBSET (1 .. k)
          PROVE  h[s] = IF s = {} THEN Empty ELSE Turned(h[s \ {Max(s)}], lines[Max(s)])
      <3>1. CASE s = {}
        BY <2>1, <2>4, <2>5, <3>1
      <3>2. CASE s # {}
        <4>1. Max(s) \in s /\ \A t \in s : t <= Max(s)
          <5>1. s \in SUBSET (0 .. k) /\ k \in Nat
            BY <1>1
          <5> QED BY <3>2, <5>1, MaxOf
        <4>2. s \ {Max(s)} \in SUBSET (1 .. k) /\ s \ {Max(s)} \in SUBSET (1 .. k - 1)
          <5> DEFINE m == Max(s)
          <5>1. m \in 1 .. k /\ k \in Nat /\ \A t \in s : t \in 1 .. k /\ t <= m
            <6>1. k \in Nat
              BY <1>1
            <6> QED BY <4>1, <6>1
          <5> HIDE DEF m
          <5>2. \A t \in s \ {m} : t \in 1 .. k - 1
            BY <5>1
          <5>3. s \ {m} \in SUBSET (1 .. k - 1)
            BY <5>2
          <5> QED BY <5>3 DEF m
        <4>3. h[s \ {Max(s)}] = g[s \ {Max(s)}]
          <5>1. k \notin s \ {Max(s)}
            BY <4>2
          <5> QED BY <2>5, <4>2, <5>1
        <4>4. CASE k \in s
          <5>1. Max(s) = k
            <6> DEFINE m == Max(s)
            <6>1. m \in 1 .. k /\ k <= m
              BY <4>1, <4>4
            <6>3. k \in Nat
              BY <1>1
            <6> HIDE DEF m
            <6>2. m = k
              BY <6>1, <6>3
            <6> QED BY <6>2 DEF m
          <5> QED BY <2>5, <3>2, <4>3, <4>4, <5>1
        <4>5. CASE k \notin s
          BY <2>1, <2>4, <2>5, <3>2, <4>3, <4>5
        <4> QED BY <4>4, <4>5
      <3> QED BY <3>1, <3>2
    <2> QED BY <2>5, <2>6
  <1> HIDE DEF P
  <1>6. T = {}
    <2>1. SUFFICES ASSUME T # {} PROVE FALSE
      OBVIOUS
    <2>2. T \in SUBSET Nat
      OBVIOUS
    <2>3. PICK m \in T : \A t \in T : m <= t
      <3> HIDE DEF T
      <3> QED BY <2>1, <2>2, Least
    <2>4. m \in 1 .. n /\ ~(m <= m - 1) /\ m - 1 \in 0 .. n
      BY <1>1, <1>4, <2>3
    <2>5. P(m - 1)
      BY <2>3, <2>4
    <2> QED BY <1>5, <2>3, <2>4, <2>5
  <1>7. P(n)
    BY <1>1, <1>6
  <1>8. PICK g \in [SUBSET DOMAIN lines -> Acc] : g = R(g)
    <2>1. PICK g \in [SUBSET (1 .. n) -> Acc] : \A s \in SUBSET (1 .. n) :
             g[s] = IF s = {} THEN Empty ELSE Turned(g[s \ {Max(s)}], lines[Max(s)])
      BY <1>7 DEF P
    <2>2. g = R(g)
      BY <1>1, <2>1
    <2> QED BY <1>1, <2>1, <2>2
  <1>9. it = R(it)
    <2> HIDE DEF R
    <2> QED BY <1>8 DEF it
  <1>10. \A s \in SUBSET (1 .. n) :
            it[s] = IF s = {} THEN Empty ELSE Turned(it[s \ {Max(s)}], lines[Max(s)])
    BY <1>1, <1>9
  <1> DEFINE f == [i \in 0 .. n |-> it[1 .. i]]
  <1>11. ASSUME NEW i \in 1 .. n
         PROVE  f[i] = Turned(f[i - 1], lines[i]) /\ i - 1 \in 0 .. n
    <2>1. 1 .. i # {} /\ 1 .. i \in SUBSET (1 .. n) /\ i \in 0 .. n /\ i - 1 \in 0 .. n
      <3>1. n \in Nat /\ i \in Nat /\ 1 <= i /\ i <= n
        BY <1>1
      <3>2. i \in 1 .. i /\ i \in 0 .. n /\ i - 1 \in 0 .. n
        BY <3>1
      <3>3. \A t \in 1 .. i : t \in 1 .. n
        BY <3>1
      <3> QED BY <3>2, <3>3
    <2>2. Max(1 .. i) = i
      <3>1. 1 .. i \in SUBSET (0 .. i) /\ i \in Nat /\ i \in 1 .. i
        BY <1>1
      <3> DEFINE s == 1 .. i
      <3>2. \A t \in s : t \in Int /\ t <= i
        OBVIOUS
      <3> HIDE DEF s
      <3>3. Max(s) \in s /\ \A t \in s : t <= Max(s)
        BY <2>1, <3>1, MaxOf DEF s
      <3>4. Max(s) <= i /\ i <= Max(s) /\ Max(s) \in Int
        BY <3>1, <3>2, <3>3 DEF s
      <3> QED BY <3>1, <3>4 DEF s
    <2>3. (1 .. i) \ {i} = 1 .. i - 1
      <3>1. i \in Nat
        BY <1>1
      <3>2. \A t \in (1 .. i) \ {i} : t \in 1 .. i - 1
        BY <3>1
      <3>3. \A t \in 1 .. i - 1 : t \in (1 .. i) \ {i}
        BY <3>1
      <3> QED BY <3>2, <3>3
    <2>4. it[1 .. i] = Turned(it[(1 .. i) \ {i}], lines[i])
      BY <1>10, <2>1, <2>2
    <2> QED BY <2>1, <2>3, <2>4
  <1>12. f[0] = Empty
    <2>1. 1 .. 0 = {} /\ {} \in SUBSET (1 .. n) /\ 0 \in 0 .. n
      BY <1>1
    <2> QED BY <1>10, <2>1
  <1>13. f[n] = it[DOMAIN lines]
    BY <1>1
  <1>14. \A i \in 0 .. n : f[i] \in Acc
    <2> DEFINE U == {i \in 0 .. n : f[i] \notin Acc}
    <2>1. SUFFICES ASSUME U # {} PROVE FALSE
      OBVIOUS
    <2> HIDE DEF f
    <2>2. U \in SUBSET Nat
      OBVIOUS
    <2>3. PICK m \in U : \A t \in U : m <= t
      <3> HIDE DEF U
      <3> QED BY <2>1, <2>2, Least
    <2>4. m \in 1 .. n /\ ~(m <= m - 1) /\ m - 1 \in 0 .. n
      BY <1>1, <1>3, <1>12, <2>3
    <2>5. f[m - 1] \in Acc
      BY <2>3, <2>4
    <2>6. lines[m] \in Text
      BY <1>1, <2>4
    <2> QED BY <1>11, <2>3, <2>4, <2>5, <2>6, TurnedShape
  <1>15. f \in [0 .. n -> Acc]
    BY <1>14
  <1> HIDE DEF f
  <1> QED
    BY <1>2, <1>11, <1>12, <1>13, <1>15 DEF n

\* The lines that are the first local ones of their device.
Wanted(lines) == {i \in DOMAIN lines :
                    Local(lines[i]) /\ \A j \in 1 .. i - 1 :
                                         Local(lines[j]) => Device(lines[j]) # Device(lines[i])}

\* What an appended sequence holds.
LEMMA AppendHolds ==
  ASSUME NEW S, NEW s \in Seq(S), NEW x \in S
  PROVE  ToSet(Append(s, x)) = ToSet(s) \cup {x}
  <1>1. /\ Len(s) \in Nat /\ DOMAIN s = 1 .. Len(s)
        /\ DOMAIN Append(s, x) = 1 .. Len(s) + 1
        /\ Append(s, x)[Len(s) + 1] = x
        /\ \A i \in 1 .. Len(s) : Append(s, x)[i] = s[i]
    BY AppendProperties, LenProperties
  <1>2. 1 .. Len(s) + 1 = (1 .. Len(s)) \cup {Len(s) + 1}
    BY <1>1
  <1> QED BY <1>1, <1>2 DEF ToSet

\* The loop selects those lines' mounts.
LEMMA SelectsFirst ==
  ASSUME NEW text \in Text, NEW lines, lines = Lines(text)
  PROVE  /\ SelectMounts(text) \in Seq(Text)
         /\ ToSet(SelectMounts(text)) = {Under(lines[i]) : i \in Wanted(lines)}
  <1> DEFINE n == Len(lines)
             path(j) == Under(lines[j])
             seenBy(i) == {Device(lines[j]) : j \in {x \in 1 .. i : Local(lines[x])}}
             got(i) == {path(j) : j \in {x \in Wanted(lines) : x <= i}}
  <1>0. lines \in Seq(Text)
    BY LinesType
  <1>1. n \in Nat /\ DOMAIN lines = 1 .. n /\ \A i \in 1 .. n : lines[i] \in Text
    BY <1>0, LenProperties
  <1>2. PICK f \in [0 .. n -> Acc] :
            /\ f[0] = Empty /\ SelectMounts(text) = f[n].mounts
            /\ \A i \in 1 .. n : f[i] = Turned(f[i - 1], lines[i])
    BY SelectLoop
  <1> DEFINE C(i) == f[i].devices = seenBy(i) /\ ToSet(f[i].mounts) = got(i)
             T == {i \in 0 .. n : ~C(i)}
  <1>3. C(0)
    <2>1. seenBy(0) = {} /\ got(0) = {}
      BY <1>1 DEF Wanted
    <2>2. ToSet(<<>>) = {}
      BY DEF ToSet
    <2> QED BY <1>2, <2>1, <2>2 DEF Empty
  <1>4. ASSUME NEW i \in 1 .. n, C(i - 1) PROVE C(i)
    <2>1. i - 1 \in 0 .. n /\ i \in Nat /\ f[i - 1] \in Acc /\ f[i] = Turned(f[i - 1], lines[i])
      BY <1>1, <1>2
    <2>2. 1 .. i = (1 .. i - 1) \cup {i}
      BY <2>1
    <2>3. /\ Local(lines[i]) => seenBy(i) = seenBy(i - 1) \cup {Device(lines[i])}
          /\ ~Local(lines[i]) => seenBy(i) = seenBy(i - 1)
      BY <2>2
    <2>4. i \in Wanted(lines) <=> Local(lines[i]) /\ Device(lines[i]) \notin seenBy(i - 1)
      BY <1>1 DEF Wanted
    <2>5. \A x \in Wanted(lines) : x <= i <=> (x <= i - 1 \/ x = i)
      BY <1>1, <2>1 DEF Wanted
    <2>6. /\ i \in Wanted(lines) => got(i) = got(i - 1) \cup {path(i)}
          /\ i \notin Wanted(lines) => got(i) = got(i - 1)
      <3>1. i <= i
        BY <2>1
      <3> QED BY <2>5, <3>1
    <2> HIDE DEF seenBy, got, path
    <2>7. CASE i \in Wanted(lines)
      <3>0. lines[i] \in Text /\ Local(lines[i]) /\ Device(lines[i]) \notin f[i - 1].devices
        BY <1>1, <1>4, <2>4, <2>7
      <3>1. /\ f[i].devices = f[i - 1].devices \cup {Device(lines[i])}
            /\ f[i].mounts = Append(f[i - 1].mounts, path(i))
        BY <2>1, <3>0, TurnedShape DEF path
      <3>2. f[i - 1].mounts \in Seq(Text) /\ path(i) \in Text
        BY <2>1, <3>0, LineShape DEF Acc, path
      <3>3. ToSet(Append(f[i - 1].mounts, path(i))) = ToSet(f[i - 1].mounts) \cup {path(i)}
        BY <3>2, AppendHolds
      <3> QED BY <1>4, <2>3, <2>4, <2>6, <2>7, <3>1, <3>3
    <2>8. CASE i \notin Wanted(lines)
      <3>1. f[i] = f[i - 1]
        <4>1. lines[i] \in Text /\ (~Local(lines[i]) \/ Device(lines[i]) \in f[i - 1].devices)
          BY <1>1, <1>4, <2>4, <2>8
        <4> QED BY <2>1, <4>1, TurnedShape
      <3>2. seenBy(i) = seenBy(i - 1)
        <4>1. Device(lines[i]) \in seenBy(i - 1) =>
                seenBy(i - 1) \cup {Device(lines[i])} = seenBy(i - 1)
          OBVIOUS
        <4> QED BY <2>3, <2>4, <2>8, <4>1
      <3> QED BY <1>4, <2>6, <2>8, <3>1, <3>2
    <2> QED BY <2>7, <2>8
  <1> HIDE DEF C
  <1>5. T = {}
    <2>1. SUFFICES ASSUME T # {} PROVE FALSE
      OBVIOUS
    <2>2. T \in SUBSET Nat
      OBVIOUS
    <2>3. PICK m \in T : \A t \in T : m <= t
      <3> HIDE DEF T
      <3> QED BY <2>1, <2>2, Least
    <2>4. m \in 1 .. n /\ ~(m <= m - 1) /\ m - 1 \in 0 .. n
      BY <1>1, <1>3, <2>3
    <2>5. C(m - 1)
      BY <2>3, <2>4
    <2> QED BY <1>4, <2>3, <2>4, <2>5
  <1>6. C(n) /\ f[n] \in Acc
    BY <1>1, <1>2, <1>5
  <1>7. got(n) = {path(j) : j \in Wanted(lines)}
    <2>1. \A x \in Wanted(lines) : x <= n
      BY <1>1 DEF Wanted
    <2> QED BY <2>1
  <1> QED
    BY <1>2, <1>6, <1>7 DEF C, Acc

\* On the text of a mount table that is legible these are the table's own, under
\* their paths.
LEMMA TableMounts ==
  ASSUME NEW table \in Seq(Mount)
  PROVE  /\ SelectMounts(ProcMounts(table)) \in Seq(Text)
         /\ (\A i \in DOMAIN table : LegibleRow(table[i])) =>
              ToSet(SelectMounts(ProcMounts(table))) = LocalMounts(table)
  <1> DEFINE n == Len(table)
             text == ProcMounts(table)
             lines == Lines(text)
             wanted == Wanted(lines)
             W == {x \in DOMAIN table :
                     /\ table[x].vfstype \in FSTYPE_ALLOWLIST
                     /\ \A j \in 1 .. x - 1 : \/ table[j].device # table[x].device
                                              \/ table[j].vfstype \notin FSTYPE_ALLOWLIST}
  <1>1. n \in Nat /\ DOMAIN table = 1 .. n /\ \A i \in 1 .. n : table[i] \in Mount
    BY LenProperties
  <1>2. text \in Text
    BY TableLines
  <1>3. /\ SelectMounts(text) \in Seq(Text) /\ lines \in Seq(Text)
        /\ ToSet(SelectMounts(text)) = {Under(lines[i]) : i \in wanted}
    <2> HIDE DEF text, wanted
    <2> QED BY <1>2, SelectsFirst, LinesType DEF wanted
  <1>4. ASSUME \A i \in 1 .. n : LegibleRow(table[i])
        PROVE  {Under(lines[i]) : i \in wanted} = {table[i].path : i \in W}
    <2>1. /\ Len(lines) = n + 1 /\ lines[n + 1] = <<>>
          /\ \A i \in 1 .. n : lines[i] = Row(table[i])
      BY <1>4, TableLines
    <2> HIDE DEF n, text, lines
    <2>2. ASSUME NEW i \in 1 .. n
          PROVE  /\ Local(lines[i]) <=> table[i].vfstype \in FSTYPE_ALLOWLIST
                 /\ Device(lines[i]) = Mangle(table[i].device)
                 /\ Under(lines[i]) = table[i].path
      <3> DEFINE m == table[i]
                 fields == Fields(lines[i])
      <3>1. m \in Mount /\ LegibleRow(m) /\ lines[i] = Row(m)
        BY <1>1, <1>4, <2>1
      <3>2. /\ Len(fields) = 6 /\ fields[1] = Mangle(m.device)
            /\ fields[2] = Mangle(m.path) /\ fields[3] = Mangle(m.vfstype)
        BY <3>1, RowShape
      <3>3. Unmangle(Mangle(m.path)) = m.path
        BY <3>1, UnmangleMangle DEF Mount
      <3>4. Mangle(m.vfstype) \in FSTYPE_ALLOWLIST <=> m.vfstype \in FSTYPE_ALLOWLIST
        BY <3>1, FstypeMangled DEF Mount
      <3> HIDE DEF fields
      <3>5. Len(fields) >= 3
        BY <3>2
      <3> QED BY <3>2, <3>3, <3>4, <3>5 DEF fields, Local, Device, Under
    <2>3. ~Local(lines[n + 1])
      <3>1. Parts(<<>>, Whitespace) = << <<>> >>
        BY PartsNone
      <3>2. Len(<< <<>> >>) = 1 /\ ~(1 >= 3)
        OBVIOUS
      <3> QED BY <2>1, <3>1, <3>2 DEF Local, Fields
    <2>4. \A i, j \in 1 .. n :
             Mangle(table[i].device) = Mangle(table[j].device) <=> table[i].device = table[j].device
      <3>1. \A i \in 1 .. n : Unmangle(Mangle(table[i].device)) = table[i].device
        BY <1>1, UnmangleMangle DEF Mount
      <3> QED BY <3>1
    <2>5. DOMAIN lines = 1 .. n + 1 /\ \A i \in 1 .. n + 1 : i \in 1 .. n \/ i = n + 1
      <3>1. DOMAIN lines = 1 .. Len(lines)
        BY <1>3
      <3> QED BY <1>1, <2>1, <3>1
    <2>6. ASSUME NEW x \in 1 .. n PROVE x \in wanted <=> x \in W
      <3>1. x \in DOMAIN lines /\ \A j \in 1 .. x - 1 : j \in 1 .. n
        BY <1>1, <2>5
      <3> QED BY <1>1, <2>2, <2>4, <3>1 DEF Wanted
    <2>7. wanted \in SUBSET (1 .. n) /\ W \in SUBSET (1 .. n)
      BY <1>1, <2>3, <2>5 DEF Wanted
    <2> HIDE DEF wanted, W
    <2>8. wanted = W
      BY <2>6, <2>7
    <2> QED BY <2>2, <2>7, <2>8
  <1>5. LocalMounts(table) = {table[i].path : i \in W}
    BY Zenon DEF LocalMounts
  <1> QED BY <1>1, <1>3, <1>4, <1>5

-----------------------------------------------------------------------------
(* The pairs of each category.                                             *)

\* Keys by instance differ as their names and instances do.
LEMMA InstanceKeys ==
  ASSUME NEW a, NEW b, NEW s \in Text, NEW t \in Text
  PROVE  /\ WithInstance(a, s).name = a /\ WithInstance(a, s).rest # <<>>
         /\ Tail(WithInstance(a, s).rest) = s
         /\ WithInstance(a, s) = WithInstance(b, t) => a = b /\ s = t
  <1>1. /\ <<Colon>> \o s # <<>> /\ Tail(<<Colon>> \o s) = s
        /\ Tail(<<Colon>> \o t) = t
    BY AfterColon
  <1>2. WithInstance(a, s) = WithInstance(b, t) => a = b /\ <<Colon>> \o s = <<Colon>> \o t
    BY DEF WithInstance
  <1> QED BY <1>1, <1>2 DEF WithInstance

\* The mounts the collector reports on, and those that can be read.
MountsOf(fs) == IF config.mounts # None THEN config.mounts
                ELSE SelectMounts(ProcMounts(fs.table))
Reported(fs) == ToSet(MountsOf(fs)) \cap DOMAIN fs.usage

\* Each such mount gives its two pairs, and nothing else does.
IsDisk(s, fs) ==
    /\ IsPairs(s)
    /\ \A i \in DOMAIN s : \E p \in Reported(fs) :
          \/ s[i] = Pair(WithInstance("disk_total", p), fs.usage[p].total)
          \/ s[i] = Pair(WithInstance("disk_free", p), fs.usage[p].free)
    /\ \A p \in Reported(fs) : \E i, j \in DOMAIN s :
          /\ s[i] = Pair(WithInstance("disk_total", p), fs.usage[p].total)
          /\ s[j] = Pair(WithInstance("disk_free", p), fs.usage[p].free)

\* So does the collector of disks, whether its mounts are listed or found.
LEMMA DiskPairsShape ==
  ASSUME config \in Config, NEW fs \in Filesystems
  PROVE  /\ IsDisk(DiskPairs(fs), fs)
         /\ \A p \in Reported(fs) : p \in Text /\ fs.usage[p] \in Usage
  <1> DEFINE mounts == MountsOf(fs)
             n == Len(mounts)
             total(p) == Pair(WithInstance("disk_total", p), fs.usage[p].total)
             free(p) == Pair(WithInstance("disk_free", p), fs.usage[p].free)
             piece(p) == IF p \in DOMAIN fs.usage THEN <<total(p), free(p)>> ELSE <<>>
             S == [key : [name : {"disk_total", "disk_free"}, rest : Text], value : Nat]
             s == [i \in 1 .. n |-> piece(mounts[i])]
  <1>1. mounts \in Seq(Text)
    <2>1. CASE config.mounts # None
      BY <2>1, CollectorAssumption DEF MountsOf
    <2>2. CASE config.mounts = None
      BY <2>2, CollectorAssumption, TableMounts DEF MountsOf
    <2> QED BY <2>1, <2>2
  <1> HIDE DEF mounts
  <1>2. n \in Nat /\ DOMAIN mounts = 1 .. n /\ \A i \in 1 .. n : mounts[i] \in Text
    BY <1>1, LenProperties
  <1>3. \A p \in DOMAIN fs.usage : p \in Text /\ fs.usage[p] \in Usage /\ fs.usage[p] # None
    BY CollectorAssumption
  <1>4. ASSUME NEW p \in DOMAIN fs.usage PROVE total(p) \in S /\ free(p) \in S
    <2>1. <<Colon>> \o p \in Text
      BY <1>3, AfterColon
    <2>2. fs.usage[p].total \in Nat /\ fs.usage[p].free \in Nat
      BY <1>3 DEF Usage
    <2> DEFINE r == <<Colon>> \o p
               x == fs.usage[p].total
               y == fs.usage[p].free
    <2>3. r \in Text /\ x \in Nat /\ y \in Nat
      BY <2>1, <2>2
    <2>4. /\ total(p) = [key |-> [name |-> "disk_total", rest |-> r], value |-> x]
          /\ free(p) = [key |-> [name |-> "disk_free", rest |-> r], value |-> y]
      BY DEF Pair, WithInstance
    <2> HIDE DEF r, x, y, total, free
    <2>5. /\ [name |-> "disk_total", rest |-> r] \in [name : {"disk_total", "disk_free"}, rest : Text]
          /\ [name |-> "disk_free", rest |-> r] \in [name : {"disk_total", "disk_free"}, rest : Text]
      BY <2>3
    <2>6. \A k \in [name : {"disk_total", "disk_free"}, rest : Text], v \in Nat : [key |-> k, value |-> v] \in S
      OBVIOUS
    <2> HIDE DEF S
    <2> QED BY <2>3, <2>4, <2>5, <2>6
  <1> HIDE DEF n
  <1>5. DiskPairs(fs) = FlattenSeq(s)
    <2>1. \A p : (IF Statvfs(fs, p) = None THEN <<>>
                  ELSE << Pair(WithInstance("disk_total", p), Statvfs(fs, p).total),
                          Pair(WithInstance("disk_free", p), Statvfs(fs, p).free) >>) = piece(p)
      <3> SUFFICES ASSUME NEW p
                   PROVE  (IF Statvfs(fs, p) = None THEN <<>>
                           ELSE << Pair(WithInstance("disk_total", p), Statvfs(fs, p).total),
                                   Pair(WithInstance("disk_free", p), Statvfs(fs, p).free) >>)
                             = piece(p)
        OBVIOUS
      <3>1. CASE p \in DOMAIN fs.usage
        BY <1>3, <3>1 DEF Statvfs
      <3>2. CASE p \notin DOMAIN fs.usage
        BY <3>2 DEF Statvfs
      <3> QED BY <3>1, <3>2
    <2>2. DiskPairs(fs) = FlattenSeq([i \in DOMAIN mounts |->
             IF Statvfs(fs, mounts[i]) = None THEN <<>>
             ELSE << Pair(WithInstance("disk_total", mounts[i]), Statvfs(fs, mounts[i]).total),
                     Pair(WithInstance("disk_free", mounts[i]), Statvfs(fs, mounts[i]).free) >>])
      BY Zenon DEF DiskPairs, mounts, MountsOf
    <2> HIDE DEF piece
    <2>3. [i \in DOMAIN mounts |->
             IF Statvfs(fs, mounts[i]) = None THEN <<>>
             ELSE << Pair(WithInstance("disk_total", mounts[i]), Statvfs(fs, mounts[i]).total),
                     Pair(WithInstance("disk_free", mounts[i]), Statvfs(fs, mounts[i]).free) >>]
            = s
      BY <1>2, <2>1, Zenon
    <2> QED BY <2>2, <2>3
  <1>6. \A i \in 1 .. n : /\ s[i] = piece(mounts[i]) /\ s[i] \in Seq(S)
    <2> HIDE DEF S, total, free
    <2> QED BY <1>4
  <1> HIDE DEF S, total, free
  <1>7. \A i \in 1 .. n :
           /\ mounts[i] \in DOMAIN fs.usage =>
                 /\ Len(s[i]) = 2 /\ s[i][1] = total(mounts[i]) /\ s[i][2] = free(mounts[i])
           /\ mounts[i] \notin DOMAIN fs.usage => Len(s[i]) = 0
    BY <1>6
  <1> HIDE DEF piece
  <1>8. s \in Seq(Seq(S)) /\ Len(s) = n
    BY <1>2, <1>6
  <1> DEFINE F == FlattenSeq(s)
  <1> HIDE DEF s
  <1>9. /\ F \in Seq(S)
        /\ \A j \in 1 .. Len(F) : \E k \in 1 .. n : \E i \in 1 .. Len(s[k]) : F[j] = s[k][i]
        /\ \A k \in 1 .. n : \A i \in 1 .. Len(s[k]) : \E j \in 1 .. Len(F) : F[j] = s[k][i]
    <2>1. /\ F \in Seq(S)
          /\ \A j \in 1 .. Len(F) : \E k \in 1 .. Len(s) : \E i \in 1 .. Len(s[k]) :
                F[j] = s[k][i]
          /\ \A k \in 1 .. Len(s) : \A i \in 1 .. Len(s[k]) : \E j \in 1 .. Len(F) :
                F[j] = s[k][i]
      BY <1>8, FlatHolds, Zenon
    <2> HIDE DEF F
    <2> QED BY <1>8, <2>1
  <1> HIDE DEF F
  <1>11. IsPairs(F) /\ DOMAIN F = 1 .. Len(F)
    BY <1>9, LenProperties DEF IsPairs
  <1>12. \A p \in Reported(fs) : p \in DOMAIN fs.usage /\ \E k \in 1 .. n : mounts[k] = p
    BY <1>2 DEF Reported, mounts, ToSet
  <1>13. ASSUME NEW j \in DOMAIN F
         PROVE  \E p \in Reported(fs) : F[j] = total(p) \/ F[j] = free(p)
    <2>1. PICK k \in 1 .. n : \E i \in 1 .. Len(s[k]) :
             F[j] = s[k][i]
      BY <1>9, <1>11
    <2>2. PICK i \in 1 .. Len(s[k]) : F[j] = s[k][i]
      BY <2>1
    <2>3. mounts[k] \in DOMAIN fs.usage /\ (i = 1 \/ i = 2)
      BY <1>7, <2>2
    <2>4. mounts[k] \in Reported(fs)
      BY <1>2, <2>3 DEF Reported, mounts, ToSet
    <2> QED BY <1>7, <2>2, <2>3, <2>4
  <1>14. ASSUME NEW p \in Reported(fs)
         PROVE  \E i, j \in DOMAIN F :
                   F[i] = total(p) /\ F[j] = free(p)
    <2>1. PICK k \in 1 .. n : mounts[k] = p
      BY <1>12
    <2>2. Len(s[k]) = 2 /\ s[k][1] = total(p) /\ s[k][2] = free(p)
      BY <1>7, <1>12, <2>1
    <2>3. 1 \in 1 .. Len(s[k]) /\ 2 \in 1 .. Len(s[k])
      BY <2>2
    <2>4. /\ \E i \in 1 .. Len(F) : F[i] = s[k][1]
          /\ \E j \in 1 .. Len(F) : F[j] = s[k][2]
      BY <1>9, <2>3
    <2> QED BY <1>11, <2>2, <2>4
  <1>15. IsDisk(F, fs)
    BY <1>11, <1>13, <1>14 DEF IsDisk, total, free
  <1> QED
    BY <1>3, <1>5, <1>12, <1>15 DEF F

\* The keys memory pairs may have; their values are numbers.
MemoryKeys == {Plain(name) : name \in {"memory_total", "memory_free", "memory_buffers",
                 "memory_cached", "memory_swap_total", "memory_swap_free", "memory_available"}}
IsMemory(s) == IsPairs(s) /\ \A i \in DOMAIN s : s[i].key \in MemoryKeys /\ s[i].value \in Nat

\* Those the collector of memory makes do.
LEMMA MemoryPairsShape ==
  ASSUME NEW info \in Meminfo
  PROVE  IsMemory(MemoryPairs(info))
  <1> DEFINE S == [key : MemoryKeys, value : Nat]
             a == << Pair(Plain("memory_total"), info.total),
                     Pair(Plain("memory_free"), info.free),
                     Pair(Plain("memory_buffers"), info.buffers),
                     Pair(Plain("memory_cached"), info.cached),
                     Pair(Plain("memory_swap_total"), info.swapTotal),
                     Pair(Plain("memory_swap_free"), info.swapFree) >>
             b == IF info.available = None THEN <<>>
                  ELSE << Pair(Plain("memory_available"), info.available) >>
  <1>1. \A k \in MemoryKeys, v \in Nat : Pair(k, v) \in S
    BY DEF Pair
  <1>2. /\ info.total \in Nat /\ info.free \in Nat /\ info.buffers \in Nat /\ info.cached \in Nat
        /\ info.swapTotal \in Nat /\ info.swapFree \in Nat
        /\ info.available # None => info.available \in Nat
    BY CollectorAssumption
  <1>3. /\ Plain("memory_total") \in MemoryKeys /\ Plain("memory_free") \in MemoryKeys
        /\ Plain("memory_buffers") \in MemoryKeys /\ Plain("memory_cached") \in MemoryKeys
        /\ Plain("memory_swap_total") \in MemoryKeys /\ Plain("memory_swap_free") \in MemoryKeys
        /\ Plain("memory_available") \in MemoryKeys
    BY DEF MemoryKeys
  <1>4. \A i \in DOMAIN (a \o b) : (a \o b)[i] \in S
    <2> HIDE DEF S
    <2>1. a \in Seq(S)
      BY <1>1, <1>2, <1>3
    <2>2. b \in Seq(S)
      <3>1. CASE info.available = None
        BY <3>1
      <3>2. CASE info.available # None
        BY <1>1, <1>2, <1>3, <3>2
      <3> QED BY <3>1, <3>2
    <2> HIDE DEF a, b
    <2>3. a \o b \in Seq(S)
      BY <2>1, <2>2, ConcatProperties
    <2> QED BY <2>3, LenProperties
  <1>5. IsPairs(a \o b)
    <2> HIDE DEF S
    <2>1. a \in Seq(S)
      BY <1>1, <1>2, <1>3
    <2>2. b \in Seq(S)
      <3>1. CASE info.available = None
        BY <3>1
      <3>2. CASE info.available # None
        BY <1>1, <1>2, <1>3, <3>2
      <3> QED BY <3>1, <3>2
    <2> HIDE DEF a, b
    <2>3. a \o b \in Seq(S)
      BY <2>1, <2>2, ConcatProperties
    <2> QED BY <2>3, LenProperties DEF IsPairs
  <1>6. MemoryPairs(info) = a \o b
    BY Zenon DEF MemoryPairs
  <1> HIDE DEF a, b
  <1>7. \A x \in S : x.key \in MemoryKeys /\ x.value \in Nat
    OBVIOUS
  <1> QED BY <1>4, <1>5, <1>6, <1>7 DEF IsMemory

-----------------------------------------------------------------------------
(* The names of sensors.                                                   *)

\* A text, a mark and another text.
With(s, x, u) == s \o <<x>> \o u

\* Its length and its characters.
IsMarked(w, s, x, u) ==
    /\ w \in Text
    /\ Len(w) = Len(s) + 1 + Len(u)
    /\ w[Len(s) + 1] = x
    /\ \A i \in 1 .. Len(s) : w[i] = s[i]
    /\ \A i \in 1 .. Len(u) : w[Len(s) + 1 + i] = u[i]

\* Where it has the mark, and what it lacks if both texts do.
LEMMA Marked ==
  ASSUME NEW s \in Text, NEW u \in Text, NEW x \in Nat
  PROVE  /\ IsMarked(With(s, x, u), s, x, u)
         /\ \A y \in Nat : Lacks(s, y) /\ Lacks(u, y) /\ x # y => Lacks(With(s, x, u), y)
  <1> DEFINE m == <<x>>
             p == s \o m
             w == p \o u
  <1>1. /\ s \in Seq(Nat) /\ u \in Seq(Nat) /\ m \in Seq(Nat) /\ Len(m) = 1 /\ m[1] = x
        /\ Len(s) \in Nat /\ Len(u) \in Nat
    BY DEF Text
  <1> HIDE DEF m
  <1>2. /\ p \in Seq(Nat) /\ Len(p) = Len(s) + 1
        /\ \A i \in 1 .. Len(s) + 1 : p[i] = IF i <= Len(s) THEN s[i] ELSE m[i - Len(s)]
    <2>1. /\ p \in Seq(Nat) /\ Len(p) = Len(s) + Len(m)
          /\ \A i \in 1 .. Len(s) + Len(m) : p[i] = IF i <= Len(s) THEN s[i] ELSE m[i - Len(s)]
      BY <1>1, ConcatProperties, Zenon
    <2> HIDE DEF p
    <2> QED BY <1>1, <2>1
  <1> HIDE DEF p
  <1>3. /\ w \in Seq(Nat) /\ Len(w) = Len(p) + Len(u)
        /\ \A i \in 1 .. Len(p) + Len(u) : w[i] = IF i <= Len(p) THEN p[i] ELSE u[i - Len(p)]
    <2>1. p \in Seq(Nat) /\ u \in Seq(Nat)
      BY <1>1, <1>2
    <2> QED BY <2>1, ConcatProperties, Zenon
  <1> HIDE DEF w
  <1>4. p[Len(s) + 1] = x /\ \A i \in 1 .. Len(s) : p[i] = s[i]
    <2>1. (Len(s) + 1) - Len(s) = 1 /\ Len(s) + 1 \in 1 .. Len(s) + 1 /\ ~(Len(s) + 1 <= Len(s))
      BY <1>1
    <2>2. \A i \in 1 .. Len(s) : i \in 1 .. Len(s) + 1 /\ i <= Len(s)
      BY <1>1
    <2> QED BY <1>1, <1>2, <2>1, <2>2
  <1>5. Len(w) = Len(s) + 1 + Len(u)
    BY <1>1, <1>2, <1>3
  <1>6. w[Len(s) + 1] = x /\ \A i \in 1 .. Len(s) : w[i] = s[i]
    <2>1. \A i \in 1 .. Len(s) + 1 : i \in 1 .. Len(p) + Len(u) /\ i <= Len(p)
      BY <1>1, <1>2
    <2>2. \A i \in 1 .. Len(s) + 1 : w[i] = p[i]
      BY <1>3, <2>1
    <2>3. Len(s) + 1 \in 1 .. Len(s) + 1 /\ \A i \in 1 .. Len(s) : i \in 1 .. Len(s) + 1
      BY <1>1
    <2> QED BY <1>4, <2>2, <2>3
  <1>7. ASSUME NEW i \in 1 .. Len(u) PROVE w[Len(s) + 1 + i] = u[i]
    <2>1. /\ Len(s) + 1 + i \in 1 .. Len(p) + Len(u) /\ ~(Len(s) + 1 + i <= Len(p))
          /\ (Len(s) + 1 + i) - Len(p) = i
      BY <1>1, <1>2
    <2> QED BY <1>3, <2>1
  <1>8. ASSUME NEW y \in Nat, Lacks(s, y), Lacks(u, y), x # y
        PROVE  Lacks(w, y)
    <2> SUFFICES ASSUME NEW i \in 1 .. Len(w) PROVE w[i] # y
      BY DEF Lacks
    <2>1. CASE i <= Len(s)
      <3>1. i \in 1 .. Len(s) /\ s[i] # y
        BY <1>1, <1>8, <2>1 DEF Lacks
      <3> QED BY <1>6, <3>1, Zenon
    <2>2. CASE i = Len(s) + 1
      BY <1>6, <1>8, <2>2
    <2>3. CASE i > Len(s) + 1
      <3> DEFINE j == i - (Len(s) + 1)
      <3>1. j \in 1 .. Len(u) /\ i = Len(s) + 1 + j
        BY <1>1, <1>5, <2>3
      <3> HIDE DEF j
      <3> QED BY <1>7, <1>8, <3>1 DEF Lacks
    <2> QED BY <1>1, <1>5, <2>1, <2>2, <2>3
  <1> QED BY <1>3, <1>5, <1>6, <1>7, <1>8 DEF Text, m, p, w, With, IsMarked

\* The first mark splits a text in one way.
LEMMA SplitFirst ==
  ASSUME NEW s \in Text, NEW t \in Text, NEW u \in Text, NEW v \in Text, NEW x \in Nat,
         Lacks(s, x), Lacks(t, x), With(s, x, u) = With(t, x, v)
  PROVE  s = t /\ u = v
  <1> DEFINE w == With(s, x, u)
             z == With(t, x, v)
  <1>1. IsMarked(w, s, x, u)
    BY Marked
  <1>2. IsMarked(z, t, x, v)
    BY Marked
  <1>3. w = z
    OBVIOUS
  <1>4. Len(s) \in Nat /\ Len(t) \in Nat /\ s \in Seq(Nat) /\ t \in Seq(Nat)
    BY DEF Text
  <1> HIDE DEF w, z
  <1>5. ~(Len(s) < Len(t))
    <2> SUFFICES ASSUME Len(s) < Len(t) PROVE FALSE
      OBVIOUS
    <2>1. Len(s) + 1 \in 1 .. Len(t)
      BY <1>4
    <2> QED BY <1>1, <1>2, <1>3, <2>1 DEF Lacks, IsMarked
  <1>6. ~(Len(t) < Len(s))
    <2> SUFFICES ASSUME Len(t) < Len(s) PROVE FALSE
      OBVIOUS
    <2>1. Len(t) + 1 \in 1 .. Len(s)
      BY <1>4
    <2> QED BY <1>1, <1>2, <1>3, <2>1 DEF Lacks, IsMarked
  <1>7. Len(s) = Len(t)
    BY <1>4, <1>5, <1>6
  <1>8. s = t
    <2>1. \A i \in 1 .. Len(s) : s[i] = t[i]
      BY <1>1, <1>2, <1>3, <1>7 DEF IsMarked
    <2> QED BY <1>4, <1>7, <2>1, SeqEqual
  <1>9. u = v
    <2> DEFINE p == s \o <<x>>
    <2>1. p \in Seq(Nat) /\ u \in Seq(Nat) /\ v \in Seq(Nat)
      BY <1>4, ConcatProperties DEF Text
    <2>2. p \o u = p \o v
      BY <1>3, <1>8 DEF w, z, With
    <2> HIDE DEF p
    <2> QED BY <2>1, <2>2, ConcatSimplifications
  <1> QED BY <1>8, <1>9

\* A chip's directory and its name have no slashes and no brackets.
LEMMA ChipNames ==
  ASSUME NEW chips \in Hwmon, NEW c \in chips
  PROVE  /\ Dir(c) \in Text /\ Lacks(Dir(c), 47) /\ Lacks(Dir(c), 91)
         /\ ChipName(c) \in Text /\ Lacks(ChipName(c), 47) /\ Lacks(ChipName(c), 91)
         /\ \A d \in chips : Dir(c) = Dir(d) => c = d
  <1>1. c \in Chip /\ c.index \in 0 .. 9 /\ c.name \in Text
    BY CollectorAssumption DEF Chip
  <1> DEFINE x == 48 + c.index
  <1>2. x \in Nat /\ x # 47 /\ x # 91 /\ Dir(c) = <<104, x>>
    BY <1>1 DEF Dir
  <1> HIDE DEF x
  <1>3. Dir(c) \in Text /\ Len(Dir(c)) = 2 /\ Dir(c)[1] = 104 /\ Dir(c)[2] = x
    BY <1>2 DEF Text
  <1>4. Lacks(Dir(c), 47) /\ Lacks(Dir(c), 91)
    <2>1. \A i \in 1 .. 2 : i = 1 \/ i = 2
      OBVIOUS
    <2> QED BY <1>2, <1>3, <2>1 DEF Lacks
  <1>5. Lacks(c.name, 47) /\ Lacks(c.name, 91)
    <2>1. DOMAIN c.name = 1 .. Len(c.name)
      BY <1>1, LenProperties DEF Text
    <2>2. \A i \in DOMAIN c.name : c.name[i] \notin {47, 91}
      BY CollectorAssumption
    <2> QED BY <2>1, <2>2 DEF Lacks
  <1>6. ASSUME NEW d \in chips, Dir(c) = Dir(d) PROVE c = d
    <2>1. d.index \in 0 .. 9
      BY CollectorAssumption DEF Chip
    <2>2. Dir(c)[2] = 48 + c.index /\ Dir(d)[2] = 48 + d.index
      BY DEF Dir
    <2>3. c.index = d.index
      BY <1>1, <1>6, <2>1, <2>2
    <2> QED BY <2>3, CollectorAssumption
  <1> QED BY <1>1, <1>3, <1>4, <1>5, <1>6 DEF ChipName

\* Chips that are not taken to share a name do not.
LEMMA NotShared ==
  ASSUME NEW chips \in Hwmon, NEW c \in chips, NEW d \in chips,
         ~Shared(chips, c), ChipName(c) = ChipName(d)
  PROVE  c = d
  <1> DEFINE T == {e \in chips : ChipName(e) = ChipName(c)}
             g == [e \in T |-> e.index]
  <1>1. IsFiniteSet(T)
    <2>1. g \in [T -> 0 .. 9] /\ \A e, f \in T : g[e] = g[f] => e = f
      BY CollectorAssumption DEF Chip
    <2> HIDE DEF g
    <2>2. g \in Injection(T, 0 .. 9)
      BY <2>1 DEF Injection, IsInjective
    <2>3. IsFiniteSet(0 .. 9)
      <3> DEFINE a == 0
                 b == 9
      <3>1. a \in Int /\ b \in Int
        OBVIOUS
      <3> HIDE DEF a, b
      <3>2. IsFiniteSet(a .. b)
        BY <3>1, FS_Interval
      <3> QED BY <3>2 DEF a, b
    <2> HIDE DEF T
    <2> QED BY <2>2, <2>3, FS_Injection
  <1>2. ~(Cardinality(T) > 1) /\ c \in T /\ d \in T
    BY DEF Shared
  <1> HIDE DEF T
  <1>3. Cardinality(T) \in Nat /\ (Cardinality(T) = 0 <=> T = {})
    BY <1>1, FS_CardinalityType, FS_EmptySet
  <1>4. Cardinality(T) = 1
    BY <1>2, <1>3
  <1>5. PICK x : T = {x}
    BY <1>1, <1>4, FS_Singleton
  <1> QED BY <1>2, <1>5

\* The name of a shared chip, in parts: its own before the first bracket, and
\* its directory after it.
LEMMA SharedNames ==
  ASSUME NEW chips \in Hwmon, NEW c \in chips, NEW d \in chips
  PROVE  LET w == With(ChipName(c), 91, Dir(c)) \o <<93>>
             z == With(ChipName(d), 91, Dir(d)) \o <<93>>
         IN  /\ w \in Text /\ Lacks(w, 47) /\ ~Lacks(w, 91)
             /\ w = z => c = d
  <1> DEFINE p == With(ChipName(c), 91, Dir(c))
             q == With(ChipName(d), 91, Dir(d))
             e == <<>>
             w == p \o <<93>>
  <1>1. /\ ChipName(c) \in Text /\ Dir(c) \in Text /\ Lacks(ChipName(c), 47) /\ Lacks(Dir(c), 47)
        /\ Lacks(ChipName(c), 91)
    BY ChipNames
  <1>2. /\ ChipName(d) \in Text /\ Dir(d) \in Text /\ Lacks(ChipName(d), 91)
    BY ChipNames
  <1>3. /\ p \in Text /\ Lacks(p, 47) /\ Len(p) = Len(ChipName(c)) + 1 + Len(Dir(c))
        /\ p[Len(ChipName(c)) + 1] = 91
    <2>1. IsMarked(p, ChipName(c), 91, Dir(c))
      BY <1>1, Marked
    <2>2. Lacks(p, 47)
      BY <1>1, Marked
    <2> HIDE DEF p
    <2> QED BY <2>1, <2>2 DEF IsMarked
  <1>4. q \in Text
    BY <1>2, Marked DEF IsMarked
  <1>5. p = q => c = d
    <2> SUFFICES ASSUME p = q PROVE c = d
      OBVIOUS
    <2>1. Dir(c) = Dir(d)
      BY <1>1, <1>2, SplitFirst
    <2> QED BY <2>1, ChipNames
  <1> HIDE DEF p, q
  <1>6. p \o <<93>> = q \o <<93>> => p = q
    <2> DEFINE m == <<93>>
    <2>1. p \in Seq(Nat) /\ q \in Seq(Nat) /\ m \in Seq(Nat)
      BY <1>3, <1>4 DEF Text
    <2> HIDE DEF m
    <2>2. p \o m = q \o m => p = q
      BY <2>1, ConcatSimplifications
    <2> QED BY <2>2 DEF m
  <1>7. e \in Text /\ Len(e) = 0 /\ Lacks(e, 47)
    BY DEF Text, Lacks
  <1>8. With(p, 93, e) = w
    <2> DEFINE m == <<93>>
    <2>1. p \in Seq(Nat) /\ m \in Seq(Nat)
      BY <1>3 DEF Text
    <2> HIDE DEF m
    <2>2. p \o m \in Seq(Nat)
      BY <2>1, ConcatProperties
    <2>3. (p \o m) \o <<>> = p \o m
      BY <2>2, ConcatEmptySeq
    <2> QED BY <2>3 DEF m, With, e
  <1> HIDE DEF e
  <1>9. /\ w \in Text /\ Len(w) = Len(p) + 1 /\ \A i \in 1 .. Len(p) : w[i] = p[i]
        /\ Lacks(w, 47)
    <2> DEFINE z == With(p, 93, e)
    <2>1. IsMarked(z, p, 93, e)
      BY <1>3, <1>7, Marked
    <2>2. Lacks(z, 47)
      BY <1>3, <1>7, Marked
    <2>3. z = w
      BY <1>8
    <2>4. Len(p) \in Nat
      BY <1>3 DEF Text
    <2> HIDE DEF z, w
    <2> QED BY <1>7, <2>1, <2>2, <2>3, <2>4 DEF IsMarked
  <1> HIDE DEF w
  <1>10. ~Lacks(w, 91)
    <2>1. Len(ChipName(c)) \in Nat /\ Len(Dir(c)) \in Nat
      BY <1>1 DEF Text
    <2> DEFINE k == Len(ChipName(c)) + 1
    <2>2. k \in 1 .. Len(p) /\ k \in 1 .. Len(w)
      BY <1>3, <1>9, <2>1
    <2>3. w[k] = 91
      BY <1>3, <1>9, <2>2
    <2> HIDE DEF k
    <2> QED BY <2>2, <2>3 DEF Lacks
  <1> QED BY <1>5, <1>6, <1>9, <1>10 DEF p, q, w

\* Different chips go by different names, without slashes.
LEMMA QualifiedApart ==
  ASSUME NEW chips \in Hwmon, NEW c \in chips, NEW d \in chips
  PROVE  /\ Qualified(chips, c) \in Text /\ Lacks(Qualified(chips, c), 47)
         /\ Qualified(chips, c) = Qualified(chips, d) => c = d
  <1> DEFINE w == With(ChipName(c), 91, Dir(c)) \o <<93>>
             z == With(ChipName(d), 91, Dir(d)) \o <<93>>
  <1>1. w \in Text /\ Lacks(w, 47) /\ ~Lacks(w, 91) /\ (w = z => c = d)
    BY SharedNames
  <1>2. ~Lacks(z, 91)
    BY SharedNames
  <1>3. /\ Qualified(chips, c) = IF Shared(chips, c) THEN w ELSE ChipName(c)
        /\ Qualified(chips, d) = IF Shared(chips, d) THEN z ELSE ChipName(d)
    BY DEF Qualified, With
  <1>4. /\ ChipName(c) \in Text /\ Lacks(ChipName(c), 47) /\ Lacks(ChipName(c), 91)
        /\ Lacks(ChipName(d), 91)
    BY ChipNames
  <1>5. ~Shared(chips, c) /\ ChipName(c) = ChipName(d) => c = d
    BY NotShared
  <1> HIDE DEF w, z
  <1> QED BY <1>1, <1>2, <1>3, <1>4, <1>5

\* Sensors of one name are of one chip, and have one label.
LEMMA SensorsOfOneChip ==
  ASSUME NEW chips \in Hwmon, NEW c \in chips, NEW d \in chips,
         NEW s \in c.sensors, NEW t \in d.sensors
  PROVE  /\ SensorInstance(chips, c, s) \in Text
         /\ SensorInstance(chips, c, s) = SensorInstance(chips, d, t) =>
              c = d /\ Label(s) = Label(t)
  <1>1. \A e \in chips : \A r \in e.sensors : Label(r) \in Text
    <2> SUFFICES ASSUME NEW e \in chips, NEW r \in e.sensors PROVE Label(r) \in Text
      OBVIOUS
    <2>1. r \in Sensor
      BY CollectorAssumption DEF Chip
    <2>2. r.label \in Text /\ 48 + r.index \in Nat
      BY <2>1 DEF Sensor
    <2>3. <<116, 48 + r.index>> \in Text
      BY <2>2 DEF Text
    <2> QED BY <2>2, <2>3 DEF Label
  <1>2. /\ Qualified(chips, c) \in Text /\ Lacks(Qualified(chips, c), 47)
        /\ Qualified(chips, d) \in Text /\ Lacks(Qualified(chips, d), 47)
        /\ Qualified(chips, c) = Qualified(chips, d) => c = d
    BY QualifiedApart
  <1>3. Label(s) \in Text /\ Label(t) \in Text
    BY <1>1
  <1>4. SensorInstance(chips, c, s) \in Text
    BY <1>2, <1>3, Marked DEF SensorInstance, With, IsMarked
  <1>5. SensorInstance(chips, c, s) = SensorInstance(chips, d, t) =>
           Qualified(chips, c) = Qualified(chips, d) /\ Label(s) = Label(t)
    <2>1. /\ SensorInstance(chips, c, s) = With(Qualified(chips, c), 47, Label(s))
          /\ SensorInstance(chips, d, t) = With(Qualified(chips, d), 47, Label(t))
      BY DEF SensorInstance, With
    <2> QED BY <1>2, <1>3, <2>1, SplitFirst
  <1> QED BY <1>2, <1>4, <1>5

\* The readings that are reported, and what is reported of one.
SensorName(chips, r) == SensorInstance(chips, r[1], r[2])
Reports(chips)       == {r \in Readable(chips) : Allowed(SensorName(chips, r))}
Reading(chips, r)    == Pair(WithInstance("temperature_celsius", SensorName(chips, r)),
                             r[2].millidegrees \div 1000)

\* Each is, by the order of chips and sensors, and nothing else.
IsTemperature(s, chips) ==
    /\ IsPairs(s)
    /\ \E f \in [DOMAIN s -> Reports(chips)] :
          /\ \A i \in DOMAIN s : s[i] = Reading(chips, f[i])
          /\ \A r \in Reports(chips) : \E i \in DOMAIN s : f[i] = r
          /\ \A i, j \in DOMAIN s : i < j => Number(f[i]) < Number(f[j])

\* What a reading is.
LEMMA ReadableShape ==
  ASSUME NEW chips \in Hwmon
  PROVE  /\ IsReads(Readable(chips))
         /\ \A r \in Readable(chips) :
              /\ r[1] \in chips /\ r[2] \in r[1].sensors /\ r[2].millidegrees \in Int
              /\ SensorName(chips, r) \in Text
         /\ \A q, r \in Readable(chips) :
              SensorName(chips, q) = SensorName(chips, r) =>
                q[1] = r[1] /\ Label(q[2]) = Label(r[2])
  <1>1. ASSUME NEW r \in Readable(chips)
        PROVE  /\ r[1] \in chips /\ r[2] \in r[1].sensors /\ r = <<r[1], r[2]>>
               /\ r[1] \in Chip /\ r[2] \in Sensor /\ r[2].millidegrees \in Int
    <2>1. r[2].millidegrees # None /\ \E c \in chips : r \in {c} \X c.sensors
      BY DEF Readable
    <2>2. PICK c \in chips : r \in {c} \X c.sensors
      BY <2>1
    <2>3. c \in Chip /\ r[1] = c /\ r[2] \in c.sensors /\ r = <<r[1], r[2]>>
      BY <2>2, CollectorAssumption
    <2>4. r[2] \in Sensor
      BY <2>3 DEF Chip
    <2> QED BY <2>1, <2>3, <2>4 DEF Sensor
  <1>2. ASSUME NEW q \in Readable(chips), NEW r \in Readable(chips),
               q[1].index = r[1].index, q[2].index = r[2].index
        PROVE  q = r
    <2>1. /\ q[1] \in chips /\ q[2] \in q[1].sensors /\ q = <<q[1], q[2]>>
          /\ r[1] \in chips /\ r[2] \in r[1].sensors /\ r = <<r[1], r[2]>>
      BY <1>1
    <2>2. q[1] = r[1]
      BY <1>2, <2>1, CollectorAssumption
    <2>3. q[2] = r[2]
      BY <1>2, <2>1, <2>2, CollectorAssumption
    <2> QED BY <2>1, <2>2, <2>3
  <1>3. ASSUME NEW r \in Readable(chips) PROVE SensorName(chips, r) \in Text
    BY <1>1, SensorsOfOneChip DEF SensorName
  <1>4. ASSUME NEW q \in Readable(chips), NEW r \in Readable(chips),
               SensorName(chips, q) = SensorName(chips, r)
        PROVE  q[1] = r[1] /\ Label(q[2]) = Label(r[2])
    BY <1>1, <1>4, SensorsOfOneChip DEF SensorName
  <1> QED BY <1>1, <1>2, <1>3, <1>4 DEF IsReads

\* The collector of temperatures does so.
LEMMA TemperaturePairsShape ==
  ASSUME NEW chips \in Hwmon
  PROVE  IsTemperature(TemperaturePairs(chips), chips)
  <1> DEFINE R == Reports(chips)
             n == Cardinality(R)
             q == InOrder(R)
             s == [i \in DOMAIN q |-> Reading(chips, q[i])]
  <1>1. TemperaturePairs(chips) = s
    BY Zenon DEF TemperaturePairs, Reports, Reading, SensorName
  <1>2. IsReads(R)
    BY ReadableShape DEF IsReads, Reports
  <1> HIDE DEF R
  <1>3. /\ n \in Nat /\ DOMAIN q = 1 .. n
        /\ \A k \in 1 .. n : q[k] \in R
        /\ \A r \in R : \E k \in 1 .. n : q[k] = r
        /\ \A j, k \in 1 .. n : j < k => Number(q[j]) < Number(q[k])
    BY <1>2, Ordered
  <1> DEFINE f == [i \in DOMAIN q |-> q[i]]
  <1> HIDE DEF n, q
  <1>4. DOMAIN s = 1 .. n /\ DOMAIN f = 1 .. n /\ \A i \in 1 .. n : s[i] = Reading(chips, q[i]) /\ f[i] = q[i]
    BY <1>3
  <1>5. IsPairs(s)
    <2>1. s \in [1 .. n -> {Reading(chips, q[i]) : i \in 1 .. n}]
      BY <1>3
    <2>2. Len(s) = n
      BY <1>3, <2>1
    <2> QED BY <1>3, <1>4, <2>2 DEF IsPairs
  <1>6. f \in [DOMAIN s -> R]
    BY <1>3
  <1> HIDE DEF s, f
  <1>7. IsTemperature(s, chips)
    BY <1>3, <1>4, <1>5, <1>6 DEF IsTemperature, R
  <1> QED BY <1>1, <1>7

-----------------------------------------------------------------------------
(* The map a category gives alone, and the points of it.                   *)

\* From no map, the keys are those of the pairs, with their last values.
IsMap(map, s) ==
    /\ DOMAIN map = Keys(s)
    /\ \A k \in Keys(s) : \E i \in DOMAIN s :
          /\ s[i].key = k /\ map[k] = s[i].value
          /\ \A j \in DOMAIN s : s[j].key = k => j <= i

\* Extend makes that of nothing.
LEMMA ExtendEmpty ==
  ASSUME NEW map, DOMAIN map = {}, NEW s, IsPairs(s)
  PROVE  IsMap(Extend(map, s), s)
  <1>1. DOMAIN Extend(map, s) = Keys(s)
    <2>1. DOMAIN Extend(map, s) = DOMAIN map \cup Keys(s)
      BY ExtendShape, Zenon
    <2> QED BY <2>1
  <1>2. \A k \in Keys(s) : \E i \in DOMAIN s :
          /\ s[i].key = k /\ Extend(map, s)[k] = s[i].value
          /\ \A j \in DOMAIN s : s[j].key = k => j <= i
    BY ExtendShape, Zenon
  <1> QED BY <1>1, <1>2 DEF IsMap

LEMMA ExtendNone ==
  ASSUME NEW s, IsPairs(s)
  PROVE  IsMap(Extend(<<>>, s), s)
  BY EmptyMap, ExtendEmpty, Zenon

\* Every key of the memory's map is its own, with a number.
LEMMA MemoryMap ==
  ASSUME NEW s, IsMemory(s)
  PROVE  /\ DOMAIN Extend(<<>>, s) \subseteq MemoryKeys
         /\ \A k \in DOMAIN Extend(<<>>, s) : Extend(<<>>, s)[k] \in Nat
  <1> DEFINE map == Extend(<<>>, s)
  <1>1. IsMap(map, s)
    BY ExtendNone DEF IsMemory
  <1> HIDE DEF map
  <1>2. DOMAIN map \subseteq MemoryKeys /\ \A k \in DOMAIN map : map[k] \in Nat
    BY <1>1 DEF IsMemory, Keys, IsMap
  <1> QED BY <1>2 DEF map

\* The disks' map has the total and what is free of each reported mount.
LEMMA DiskMap ==
  ASSUME NEW fs, NEW s, IsDisk(s, fs), \A p \in Reported(fs) : p \in Text
  PROVE  /\ \A k \in DOMAIN Extend(<<>>, s) : \E p \in Reported(fs) :
              k = WithInstance("disk_total", p) \/ k = WithInstance("disk_free", p)
         /\ \A p \in Reported(fs) :
              /\ WithInstance("disk_total", p) \in DOMAIN Extend(<<>>, s)
              /\ WithInstance("disk_free", p) \in DOMAIN Extend(<<>>, s)
              /\ Extend(<<>>, s)[WithInstance("disk_total", p)] = fs.usage[p].total
              /\ Extend(<<>>, s)[WithInstance("disk_free", p)] = fs.usage[p].free
  <1> DEFINE map == Extend(<<>>, s)
             T(p) == WithInstance("disk_total", p)
             F(p) == WithInstance("disk_free", p)
  <1>1. IsMap(map, s)
    BY ExtendNone DEF IsDisk
  <1> HIDE DEF map
  <1>2. \A p, q \in Reported(fs) : /\ T(p) = T(q) => p = q
                                   /\ F(p) = F(q) => p = q
                                   /\ T(p) # F(q)
    BY ZenonT(40), InstanceKeys
  <1> HIDE DEF T, F
  <1>3. \A i \in DOMAIN s : \E p \in Reported(fs) :
           \/ s[i].key = T(p) /\ s[i].value = fs.usage[p].total
           \/ s[i].key = F(p) /\ s[i].value = fs.usage[p].free
    <2> TAKE i \in DOMAIN s
    <2>1. PICK p \in Reported(fs) : \/ s[i] = Pair(T(p), fs.usage[p].total)
                                   \/ s[i] = Pair(F(p), fs.usage[p].free)
      BY Zenon DEF IsDisk, T, F
    <2> QED BY <2>1 DEF Pair
  <1>4. \A p \in Reported(fs) : \E i, j \in DOMAIN s : s[i].key = T(p) /\ s[j].key = F(p)
    BY DEF IsDisk, Pair, T, F
  <1>5. \A k \in DOMAIN map : \E p \in Reported(fs) : k = T(p) \/ k = F(p)
    BY <1>1, <1>3 DEF IsMap, Keys
  <1>6. ASSUME NEW p \in Reported(fs)
        PROVE  /\ T(p) \in DOMAIN map /\ F(p) \in DOMAIN map
               /\ map[T(p)] = fs.usage[p].total /\ map[F(p)] = fs.usage[p].free
    <2>1. T(p) \in Keys(s) /\ F(p) \in Keys(s)
      BY <1>4 DEF Keys
    <2>2. PICK i \in DOMAIN s : s[i].key = T(p) /\ map[T(p)] = s[i].value
      BY <1>1, <2>1 DEF IsMap
    <2>3. PICK j \in DOMAIN s : s[j].key = F(p) /\ map[F(p)] = s[j].value
      BY <1>1, <2>1 DEF IsMap
    <2> QED BY <1>1, <1>2, <1>3, <2>1, <2>2, <2>3 DEF IsMap
  <1> QED BY <1>5, <1>6 DEF map, T, F

\* The sensors' map has the last of the readings of a name.
LEMMA TemperatureMap ==
  ASSUME NEW chips \in Hwmon, NEW s, IsTemperature(s, chips)
  PROVE  /\ \A k \in DOMAIN Extend(<<>>, s) : \E r \in Reports(chips) :
              /\ k = WithInstance("temperature_celsius", SensorName(chips, r))
              /\ Extend(<<>>, s)[k] = r[2].millidegrees \div 1000
              /\ \A q \in Reports(chips) :
                    SensorName(chips, q) = SensorName(chips, r) => Number(q) <= Number(r)
         /\ \A r \in Reports(chips) :
              WithInstance("temperature_celsius", SensorName(chips, r)) \in DOMAIN Extend(<<>>, s)
  <1> DEFINE map == Extend(<<>>, s)
             T(r) == WithInstance("temperature_celsius", SensorName(chips, r))
  <1>1. IsMap(map, s)
    BY ExtendNone DEF IsTemperature
  <1> HIDE DEF map
  <1>2. DOMAIN s \in SUBSET Nat
    BY DEF IsTemperature, IsPairs
  <1>3. PICK f \in [DOMAIN s -> Reports(chips)] :
          /\ \A i \in DOMAIN s : s[i] = Reading(chips, f[i])
          /\ \A r \in Reports(chips) : \E i \in DOMAIN s : f[i] = r
          /\ \A i, j \in DOMAIN s : i < j => Number(f[i]) < Number(f[j])
    BY DEF IsTemperature
  <1>4. \A i \in DOMAIN s : s[i].key = T(f[i]) /\ s[i].value = f[i][2].millidegrees \div 1000
    BY <1>3 DEF Reading, Pair
  <1>5. \A r \in Reports(chips) : Number(r) \in Int
    BY ReadableShape, BeforeIsLess DEF Reports
  <1>6. ASSUME NEW k \in DOMAIN map
        PROVE  \E r \in Reports(chips) :
                 /\ k = T(r) /\ map[k] = r[2].millidegrees \div 1000
                 /\ \A q \in Reports(chips) :
                       SensorName(chips, q) = SensorName(chips, r) => Number(q) <= Number(r)
    <2>1. PICK i \in DOMAIN s : /\ s[i].key = k /\ map[k] = s[i].value
                                /\ \A j \in DOMAIN s : s[j].key = k => j <= i
      BY <1>1 DEF IsMap
    <2>2. ASSUME NEW q \in Reports(chips), SensorName(chips, q) = SensorName(chips, f[i])
          PROVE  Number(q) <= Number(f[i])
      <3>1. PICK j \in DOMAIN s : f[j] = q
        BY <1>3
      <3>2. s[j].key = k
        BY <1>4, <2>1, <2>2, <3>1
      <3>3. j <= i /\ i \in Nat /\ j \in Nat
        BY <1>2, <2>1, <3>2
      <3>4. j = i \/ j < i
        BY <3>3
      <3> QED BY <1>3, <1>5, <3>1, <3>4
    <2> QED BY <1>3, <1>4, <2>1, <2>2
  <1>7. ASSUME NEW r \in Reports(chips) PROVE T(r) \in DOMAIN map
    BY <1>1, <1>3, <1>4 DEF Keys, IsMap
  <1> QED BY <1>6, <1>7 DEF map

-----------------------------------------------------------------------------
(* Points.                                                                 *)

\* A share of a whole is a percentage.
LEMMA PercentBounds ==
  ASSUME NEW total \in Nat, NEW used \in 0 .. total, HasSize(total)
  PROVE  Percent(used, total) \in 0 .. 100
  <1> DEFINE a == 100 * used
             q == a \div total
  <1>1. total \in Nat \ {0} /\ a \in Nat /\ a <= 100 * total
    BY DEF HasSize
  <1>2. Percent(used, total) = q
    BY <1>1 DEF Percent
  <1> HIDE DEF a
  <1>3. q \in Int /\ a % total \in 0 .. total - 1 /\ a = total * q + (a % total)
    BY <1>1, SMT
  <1> HIDE DEF q
  <1>4. PICK r \in 0 .. total - 1 : a = total * q + r
    BY <1>3
  <1>5. ~(q < 0)
    <2> SUFFICES ASSUME q < 0 PROVE FALSE
      OBVIOUS
    <2>1. PICK k \in Nat : q = -1 - k
      <3>1. -1 - q \in Nat /\ q = -1 - (-1 - q)
        BY <1>3
      <3> QED BY <3>1
    <2>2. total * q = -total - total * k /\ total * k \in Nat
      BY <1>1, <2>1, SMT
    <2> QED BY <1>1, <1>4, <2>2
  <1>6. ~(q > 100)
    <2> SUFFICES ASSUME q > 100 PROVE FALSE
      OBVIOUS
    <2>1. PICK k \in Nat : q = 101 + k
      <3>1. q - 101 \in Nat /\ q = 101 + (q - 101)
        BY <1>3
      <3> QED BY <3>1
    <2>2. total * q = 101 * total + total * k /\ total * k \in Nat
      BY <1>1, <2>1, SMT
    <2> QED BY <1>1, <1>4, <2>2
  <1> QED BY <1>2, <1>3, <1>5, <1>6

\* What is used is some of what there is.
LEMMA UsedBounds ==
  ASSUME NEW total \in Nat, NEW free \in Nat
  PROVE  Used(total, free) \in 0 .. total
  <1>1. total - free \in Int /\ Used(total, free) = IF total - free >= 0 THEN total - free ELSE 0
    BY MaxOfTwo DEF Used
  <1> QED BY <1>1

\* The parts of the memory's points.
MemoryHas(map, name) == Plain(name) \in DOMAIN map
MemoryGet(map, name) == map[Plain(name)]
MemoryUsed(map) ==
    LET left == IF MemoryHas(map, "memory_available") THEN MemoryGet(map, "memory_available")
                ELSE MemoryGet(map, "memory_free")
        used == Used(MemoryGet(map, "memory_total"), left)
    IN  IF ~MemoryHas(map, "memory_available") /\ ~MemoryHas(map, "memory_free") THEN {} ELSE
        {Point("memory_used", None, used)}
        \cup {Point("memory_used_percent", None, Percent(used, t)) :
                t \in {x \in {MemoryGet(map, "memory_total")} : HasSize(x)}}
MemorySwap(map) ==
    IF ~MemoryHas(map, "memory_swap_total") \/ ~MemoryHas(map, "memory_swap_free") THEN {} ELSE
    {Point("memory_swap_total", None, MemoryGet(map, "memory_swap_total")),
     Point("memory_swap_used", None, Used(MemoryGet(map, "memory_swap_total"),
                                          MemoryGet(map, "memory_swap_free")))}

\* Together they are all of them.
LEMMA MemoryParts ==
  ASSUME NEW map
  PROVE  MemoryPoints(map) =
           IF ~MemoryHas(map, "memory_total") THEN {} ELSE
           {Point("memory_total", None, MemoryGet(map, "memory_total"))}
           \cup MemoryUsed(map) \cup MemorySwap(map)
  BY Zenon DEF MemoryPoints, MemoryUsed, MemorySwap, MemoryHas, MemoryGet

\* What a point of the memory is.
IsMemoryPoint(p) ==
    \E name \in Outputs("memory"), v \in Nat :
       p = Point(name, None, v) /\ (name = "memory_used_percent" => v \in 0 .. 100)

\* Of a map whose memory keys have numbers.
LEMMA MemoryPointsShape ==
  ASSUME NEW map, \A k \in DOMAIN map \cap MemoryKeys : map[k] \in Nat, NEW p \in MemoryPoints(map)
  PROVE  IsMemoryPoint(p)
  <1> DEFINE Has(name) == MemoryHas(map, name)
             Get(name) == MemoryGet(map, name)
             Names == {"memory_total", "memory_free", "memory_available",
                       "memory_swap_total", "memory_swap_free"}
  <1>1. \A name \in Names : Has(name) => Get(name) \in Nat
    BY DEF MemoryHas, MemoryGet, MemoryKeys
  <1>2. Has("memory_total") /\ Get("memory_total") \in Nat
    BY <1>1, MemoryParts
  <1>3. \A name \in {"memory_total", "memory_used", "memory_used_percent",
                     "memory_swap_total", "memory_swap_used"} : name \in Outputs("memory")
    BY DEF Outputs
  <1>4. CASE p = Point("memory_total", None, Get("memory_total"))
    BY <1>2, <1>3, <1>4 DEF IsMemoryPoint
  <1>5. CASE p \in MemoryUsed(map)
    <2> DEFINE left == IF Has("memory_available") THEN Get("memory_available")
                       ELSE Get("memory_free")
               total == Get("memory_total")
               used == Used(total, left)
    <2>1. /\ Has("memory_available") \/ Has("memory_free")
          /\ \/ p = Point("memory_used", None, used)
             \/ p = Point("memory_used_percent", None, Percent(used, total)) /\ HasSize(total)
      BY <1>5 DEF MemoryUsed
    <2>2. left \in Nat
      BY <1>1, <2>1
    <2> HIDE DEF left, Has, Get, total
    <2>3. used \in 0 .. total /\ total \in Nat
      BY <1>2, <2>2, UsedBounds DEF total
    <2> HIDE DEF used
    <2>4. CASE p = Point("memory_used", None, used)
      <3>1. used \in Nat
        BY <2>3
      <3> QED BY <1>3, <2>4, <3>1 DEF IsMemoryPoint
    <2>5. CASE p = Point("memory_used_percent", None, Percent(used, total)) /\ HasSize(total)
      <3>1. Percent(used, total) \in 0 .. 100
        BY <2>3, <2>5, PercentBounds
      <3>2. Percent(used, total) \in Nat
        BY <3>1
      <3> QED BY <1>3, <2>5, <3>1, <3>2 DEF IsMemoryPoint
    <2> QED BY <2>1, <2>4, <2>5
  <1>6. CASE p \in MemorySwap(map)
    <2> DEFINE total == Get("memory_swap_total")
               free == Get("memory_swap_free")
               used == Used(total, free)
    <2>1. /\ Has("memory_swap_total") /\ Has("memory_swap_free")
          /\ p = Point("memory_swap_total", None, total) \/ p = Point("memory_swap_used", None, used)
      BY <1>6 DEF MemorySwap
    <2>2. total \in Nat /\ free \in Nat
      BY <1>1, <2>1
    <2> HIDE DEF Has, Get, total, free
    <2>3. used \in 0 .. total
      BY <2>2, UsedBounds
    <2> HIDE DEF used
    <2>4. used \in Nat
      BY <2>2, <2>3
    <2> QED BY <1>3, <2>1, <2>2, <2>4 DEF IsMemoryPoint
  <1> QED BY <1>2, <1>4, <1>5, <1>6, MemoryParts

\* They depend on the memory's keys alone.
LEMMA MemoryAgrees ==
  ASSUME NEW m1, NEW m2,
         \A k \in MemoryKeys : /\ k \in DOMAIN m1 <=> k \in DOMAIN m2
                               /\ k \in DOMAIN m1 => m1[k] = m2[k]
  PROVE  MemoryPoints(m1) = MemoryPoints(m2)
  <1>1. \A name \in {"memory_total", "memory_free", "memory_available",
                     "memory_swap_total", "memory_swap_free"} :
           /\ MemoryHas(m1, name) <=> MemoryHas(m2, name)
           /\ MemoryHas(m1, name) => MemoryGet(m1, name) = MemoryGet(m2, name)
    BY DEF MemoryHas, MemoryGet, MemoryKeys
  <1>2. MemorySwap(m1) = MemorySwap(m2)
    BY <1>1 DEF MemorySwap
  <1>3. MemoryHas(m1, "memory_total") => MemoryUsed(m1) = MemoryUsed(m2)
    <2> SUFFICES ASSUME MemoryHas(m1, "memory_total") PROVE MemoryUsed(m1) = MemoryUsed(m2)
      OBVIOUS
    <2>1. MemoryGet(m1, "memory_total") = MemoryGet(m2, "memory_total")
      BY <1>1
    <2>2. CASE MemoryHas(m1, "memory_available")
      <3>1. /\ MemoryGet(m1, "memory_available") = MemoryGet(m2, "memory_available")
            /\ MemoryHas(m2, "memory_available")
        BY <1>1, <2>2
      <3> QED BY <2>1, <2>2, <3>1, Zenon DEF MemoryUsed
    <2>3. CASE ~MemoryHas(m1, "memory_available") /\ MemoryHas(m1, "memory_free")
      <3>1. /\ MemoryGet(m1, "memory_free") = MemoryGet(m2, "memory_free")
            /\ ~MemoryHas(m2, "memory_available") /\ MemoryHas(m2, "memory_free")
        BY <1>1, <2>3
      <3> QED BY <2>1, <2>3, <3>1, Zenon DEF MemoryUsed
    <2>4. CASE ~MemoryHas(m1, "memory_available") /\ ~MemoryHas(m1, "memory_free")
      <3>1. ~MemoryHas(m2, "memory_available") /\ ~MemoryHas(m2, "memory_free")
        BY <1>1, <2>4
      <3> QED BY <2>4, <3>1, Zenon DEF MemoryUsed
    <2> QED BY <2>2, <2>3, <2>4
  <1>4. CASE MemoryHas(m1, "memory_total")
    <2>1. /\ MemoryHas(m2, "memory_total")
          /\ MemoryGet(m1, "memory_total") = MemoryGet(m2, "memory_total")
      BY <1>1, <1>4
    <2> QED BY <1>2, <1>3, <1>4, <2>1, MemoryParts
  <1>5. CASE ~MemoryHas(m1, "memory_total")
    <2>1. ~MemoryHas(m2, "memory_total")
      BY <1>1, <1>5
    <2> QED BY <1>5, <2>1, MemoryParts
  <1> QED BY <1>4, <1>5

\* The disks' points of one reported mount.
IsDiskPoint(p, path, usage) ==
    \/ p = Point("disk_total", path, usage.total)
    \/ p = Point("disk_used", path, Used(usage.total, usage.free))
    \/ /\ p = Point("disk_used_percent", path, Percent(Used(usage.total, usage.free), usage.total))
       /\ HasSize(usage.total)

\* Every reported mount has its points, and nothing else does.
LEMMA DiskPointsShape ==
  ASSUME NEW fs, NEW s, IsDisk(s, fs), \A p \in Reported(fs) : p \in Text
  PROVE  /\ \A p \in DiskPoints(Extend(<<>>, s)) : \E path \in Reported(fs) :
              IsDiskPoint(p, path, fs.usage[path])
         /\ \A path \in Reported(fs) :
              Point("disk_total", path, fs.usage[path].total) \in DiskPoints(Extend(<<>>, s))
  <1> DEFINE map == Extend(<<>>, s)
             T(p) == WithInstance("disk_total", p)
             F(p) == WithInstance("disk_free", p)
             D(p) == [instance |-> p, value |-> fs.usage[p].total]
             Of(d) == LET free == map[WithInstance("disk_free", d.instance)]
                          used == Used(d.value, free)
                      IN  {Point("disk_total", d.instance, d.value),
                           Point("disk_used", d.instance, used)}
                          \cup {Point("disk_used_percent", d.instance, Percent(used, t)) :
                                  t \in {x \in {d.value} : HasSize(x)}}
             Has == {e \in ForField(map, "disk_total") :
                       WithInstance("disk_free", e.instance) \in DOMAIN map}
  <1>1. /\ \A k \in DOMAIN map : \E p \in Reported(fs) : k = T(p) \/ k = F(p)
        /\ \A p \in Reported(fs) :
              /\ T(p) \in DOMAIN map /\ F(p) \in DOMAIN map
              /\ map[T(p)] = fs.usage[p].total /\ map[F(p)] = fs.usage[p].free
    BY DiskMap
  <1>2. DiskPoints(map) = UNION {Of(d) : d \in Has}
    BY Zenon DEF DiskPoints
  <1> HIDE DEF map
  <1>3. \A p \in Reported(fs) : /\ T(p).name = "disk_total" /\ T(p).rest # <<>> /\ Tail(T(p).rest) = p
                                /\ F(p).name = "disk_free"
    BY InstanceKeys
  <1> HIDE DEF T
  <1>4. \A p \in Reported(fs) : D(p) \in Has
    <2> SUFFICES ASSUME NEW p \in Reported(fs) PROVE D(p) \in Has
      OBVIOUS
    <2>1. D(p) \in ForField(map, "disk_total")
      <3>1. T(p) \in {j \in DOMAIN map : j.name = "disk_total" /\ j.rest # <<>>}
        BY <1>1, <1>3
      <3>2. D(p) = [instance |-> Tail(T(p).rest), value |-> map[T(p)]]
        BY <1>1, <1>3
      <3> HIDE DEF D
      <3> QED BY <3>1, <3>2 DEF ForField
    <2>2. D(p).instance = p
      OBVIOUS
    <2> QED BY <1>1, <2>1, <2>2
  <1>5. \A d \in Has : \E p \in Reported(fs) : d = D(p)
    <2> SUFFICES ASSUME NEW d \in Has PROVE \E p \in Reported(fs) : d = D(p)
      OBVIOUS
    <2>1. PICK k \in DOMAIN map : /\ k.name = "disk_total"
                                  /\ d = [instance |-> Tail(k.rest), value |-> map[k]]
      BY DEF ForField
    <2>2. PICK p \in Reported(fs) : k = T(p) \/ k = F(p)
      BY <1>1
    <2>3. k = T(p)
      BY <1>3, <2>1, <2>2
    <2> QED BY <1>1, <1>3, <2>1, <2>3
  <1> HIDE DEF Has
  <1>6. \A path \in Reported(fs) : \A p : p \in Of(D(path)) => IsDiskPoint(p, path, fs.usage[path])
    <2> SUFFICES ASSUME NEW path \in Reported(fs), NEW p, p \in Of(D(path))
                 PROVE  IsDiskPoint(p, path, fs.usage[path])
      OBVIOUS
    <2> DEFINE total == fs.usage[path].total
               free == fs.usage[path].free
    <2>1. /\ D(path).instance = path /\ D(path).value = total
          /\ map[WithInstance("disk_free", path)] = free
      BY <1>1
    <2>2. \/ p = Point("disk_total", path, total)
          \/ p = Point("disk_used", path, Used(total, free))
          \/ p = Point("disk_used_percent", path, Percent(Used(total, free), total)) /\ HasSize(total)
      <3> HIDE DEF D, total, free
      <3> QED BY <2>1
    <2> QED BY <2>2 DEF IsDiskPoint
  <1>7. \A path \in Reported(fs) : Point("disk_total", path, fs.usage[path].total) \in Of(D(path))
    OBVIOUS
  <1> HIDE DEF Of, D
  <1>8. \A p \in DiskPoints(map) : \E path \in Reported(fs) : IsDiskPoint(p, path, fs.usage[path])
    BY <1>2, <1>5, <1>6
  <1>9. \A path \in Reported(fs) : Point("disk_total", path, fs.usage[path].total) \in DiskPoints(map)
    BY <1>2, <1>4, <1>7
  <1> QED BY <1>8, <1>9 DEF map

\* A reported reading's point, and that it is the last of its name.
IsTemperaturePoint(p, chips, r) ==
    /\ p = Point("temperature_celsius", SensorName(chips, r), r[2].millidegrees \div 1000)
    /\ \A q \in Reports(chips) :
          SensorName(chips, q) = SensorName(chips, r) => Number(q) <= Number(r)

\* Every name that is reported has a point, and nothing else does.
LEMMA TemperaturePointsShape ==
  ASSUME NEW chips \in Hwmon, NEW s, IsTemperature(s, chips)
  PROVE  /\ \A p \in TemperaturePoints(Extend(<<>>, s)) : \E r \in Reports(chips) :
              IsTemperaturePoint(p, chips, r)
         /\ \A r \in Reports(chips) : \E p \in TemperaturePoints(Extend(<<>>, s)) :
              p.name = "temperature_celsius" /\ p.instance = SensorName(chips, r)
  <1> DEFINE map == Extend(<<>>, s)
             T(r) == WithInstance("temperature_celsius", SensorName(chips, r))
             Latest(r) == \A q \in Reports(chips) :
                           SensorName(chips, q) = SensorName(chips, r) => Number(q) <= Number(r)
  <1>1. /\ \A k \in DOMAIN map : \E r \in Reports(chips) :
              k = T(r) /\ map[k] = r[2].millidegrees \div 1000 /\ Latest(r)
        /\ \A r \in Reports(chips) : T(r) \in DOMAIN map
    BY TemperatureMap
  <1> HIDE DEF map
  <1>2. \A r \in Reports(chips) :
           /\ T(r).name = "temperature_celsius" /\ T(r).rest # <<>>
           /\ Tail(T(r).rest) = SensorName(chips, r)
    <2> TAKE r \in Reports(chips)
    <2>1. SensorName(chips, r) \in Text
      BY ReadableShape DEF Reports
    <2> HIDE DEF Latest
    <2> QED BY <2>1, InstanceKeys, Zenon
  <1> HIDE DEF T, Latest
  <1>3. ASSUME NEW p \in TemperaturePoints(map)
        PROVE  \E r \in Reports(chips) : IsTemperaturePoint(p, chips, r)
    <2>1. PICK k \in DOMAIN map : p = Point("temperature_celsius", Tail(k.rest), map[k])
      <3>1. PICK e \in ForField(map, "temperature_celsius") :
               p = Point("temperature_celsius", e.instance, e.value)
        BY DEF TemperaturePoints
      <3>2. PICK k \in DOMAIN map : e = [instance |-> Tail(k.rest), value |-> map[k]]
        BY DEF ForField
      <3> QED BY <3>1, <3>2
    <2>2. PICK r \in Reports(chips) : k = T(r) /\ map[k] = r[2].millidegrees \div 1000 /\ Latest(r)
      BY <1>1
    <2>3. p = Point("temperature_celsius", SensorName(chips, r), r[2].millidegrees \div 1000)
      <3>1. Tail(T(r).rest) = SensorName(chips, r)
        BY <1>2, Zenon
      <3>2. k = T(r) /\ map[k] = r[2].millidegrees \div 1000
        BY <2>2, Zenon
      <3>3. Tail(k.rest) = SensorName(chips, r)
        BY <3>1, <3>2, Zenon
      <3>4. p = Point("temperature_celsius", Tail(k.rest), r[2].millidegrees \div 1000)
        BY <2>1, <3>2
      <3> DEFINE tail == Tail(k.rest)
                 sensor == SensorName(chips, r)
                 degrees == r[2].millidegrees \div 1000
      <3>5. p = Point("temperature_celsius", tail, degrees) /\ tail = sensor
        BY <3>3, <3>4
      <3> HIDE DEF tail, sensor, degrees
      <3>6. p = Point("temperature_celsius", sensor, degrees)
        BY <3>5
      <3> QED BY <3>6 DEF sensor, degrees
    <2> QED BY <2>2, <2>3 DEF IsTemperaturePoint, Latest
  <1>4. ASSUME NEW r \in Reports(chips)
        PROVE  \E p \in TemperaturePoints(map) :
                 p.name = "temperature_celsius" /\ p.instance = SensorName(chips, r)
    <2> DEFINE e == [instance |-> Tail(T(r).rest), value |-> map[T(r)]]
               p == Point("temperature_celsius", e.instance, e.value)
    <2>1. e \in ForField(map, "temperature_celsius")
      <3>1. T(r) \in {j \in DOMAIN map : j.name = "temperature_celsius" /\ j.rest # <<>>}
        BY <1>1, <1>2
      <3> QED BY <3>1 DEF ForField
    <2>2. p.name = "temperature_celsius" /\ p.instance = e.instance
      BY DEF Point
    <2>3. p \in TemperaturePoints(map)
      <3> HIDE DEF e
      <3> QED BY <2>1 DEF TemperaturePoints
    <2>4. e.instance = SensorName(chips, r)
      BY <1>2
    <2> HIDE DEF p
    <2> QED BY <2>2, <2>3, <2>4
  <1> QED BY <1>3, <1>4 DEF map

\* The names of a category's keys, and maps that agree on those.
Own(m) == CASE m = "memory" -> {"memory_total", "memory_free", "memory_buffers", "memory_cached",
                                "memory_swap_total", "memory_swap_free", "memory_available"}
            [] m = "disk" -> {"disk_total", "disk_free"}
            [] m = "temperature" -> {"temperature_celsius"}
Agree(m1, m2, names) ==
    \A k \in DOMAIN m1 \cup DOMAIN m2 :
       k.name \in names => k \in DOMAIN m1 /\ k \in DOMAIN m2 /\ m1[k] = m2[k]

\* A field is the same in maps that agree on it.
LEMMA FieldAgrees ==
  ASSUME NEW m1, NEW m2, NEW names, NEW name \in names, Agree(m1, m2, names)
  PROVE  ForField(m1, name) = ForField(m2, name)
  <1> DEFINE K(m) == {j \in DOMAIN m : j.name = name /\ j.rest # <<>>}
             e(m, k) == [instance |-> Tail(k.rest), value |-> m[k]]
  <1>1. K(m1) = K(m2) /\ \A k \in K(m1) : m1[k] = m2[k]
    BY DEF Agree
  <1>2. ForField(m1, name) = {e(m1, k) : k \in K(m1)} /\ ForField(m2, name) = {e(m2, k) : k \in K(m2)}
    BY Zenon DEF ForField
  <1> HIDE DEF K
  <1> QED BY <1>1, <1>2

\* The points of a category depend on its own keys alone.
LEMMA PointsAgree ==
  ASSUME NEW m1, NEW m2
  PROVE  /\ Agree(m1, m2, Own("memory")) => MemoryPoints(m1) = MemoryPoints(m2)
         /\ Agree(m1, m2, Own("disk")) => DiskPoints(m1) = DiskPoints(m2)
         /\ Agree(m1, m2, Own("temperature")) => TemperaturePoints(m1) = TemperaturePoints(m2)
  <1>1. ASSUME Agree(m1, m2, Own("memory")) PROVE MemoryPoints(m1) = MemoryPoints(m2)
    <2>1. \A k \in MemoryKeys : k.name \in Own("memory")
      BY DEF MemoryKeys, Own, Plain
    <2>2. \A k \in MemoryKeys : /\ k \in DOMAIN m1 <=> k \in DOMAIN m2
                                /\ k \in DOMAIN m1 => m1[k] = m2[k]
      BY <1>1, <2>1 DEF Agree
    <2> QED BY <2>2, MemoryAgrees
  <1>2. ASSUME Agree(m1, m2, Own("disk")) PROVE DiskPoints(m1) = DiskPoints(m2)
    <2> DEFINE F(d) == WithInstance("disk_free", d.instance)
               Of(m, d) == LET free == m[WithInstance("disk_free", d.instance)]
                               used == Used(d.value, free)
                           IN  {Point("disk_total", d.instance, d.value),
                                Point("disk_used", d.instance, used)}
                               \cup {Point("disk_used_percent", d.instance, Percent(used, t)) :
                                       t \in {x \in {d.value} : HasSize(x)}}
               Has(m) == {e \in ForField(m, "disk_total") : F(e) \in DOMAIN m}
    <2>1. DiskPoints(m1) = UNION {Of(m1, d) : d \in Has(m1)}
      BY Zenon DEF DiskPoints
    <2>2. DiskPoints(m2) = UNION {Of(m2, d) : d \in Has(m2)}
      BY Zenon DEF DiskPoints
    <2>3. ForField(m1, "disk_total") = ForField(m2, "disk_total")
      <3> DEFINE names == Own("disk")
                 name == "disk_total"
      <3>1. name \in names
        BY DEF Own
      <3> HIDE DEF names, name
      <3>2. ForField(m1, name) = ForField(m2, name)
        BY <1>2, <3>1, FieldAgrees DEF names
      <3> QED BY <3>2 DEF name
    <2>4. \A d : F(d).name \in Own("disk")
      BY DEF WithInstance, Own
    <2>5. \A d : (F(d) \in DOMAIN m1 <=> F(d) \in DOMAIN m2)
                 /\ (F(d) \in DOMAIN m1 => m1[F(d)] = m2[F(d)])
      <3> HIDE DEF F
      <3> QED BY <1>2, <2>4 DEF Agree
    <2>6. Has(m1) = Has(m2)
      <3> HIDE DEF F
      <3> QED BY <2>3, <2>5
    <2>7. \A d \in Has(m1) : Of(m1, d) = Of(m2, d)
      <3> SUFFICES ASSUME NEW d \in Has(m1) PROVE Of(m1, d) = Of(m2, d)
        OBVIOUS
      <3>1. m1[WithInstance("disk_free", d.instance)] = m2[WithInstance("disk_free", d.instance)]
        BY <2>5
      <3> QED BY <3>1, Zenon
    <2> HIDE DEF Of, Has
    <2>8. {Of(m1, d) : d \in Has(m1)} = {Of(m2, d) : d \in Has(m2)}
      BY <2>6, <2>7
    <2> QED BY <2>1, <2>2, <2>8
  <1>3. ASSUME Agree(m1, m2, Own("temperature"))
        PROVE  TemperaturePoints(m1) = TemperaturePoints(m2)
    <2>1. ForField(m1, "temperature_celsius") = ForField(m2, "temperature_celsius")
      <3> DEFINE names == Own("temperature")
                 name == "temperature_celsius"
      <3>1. name \in names
        BY DEF Own
      <3> HIDE DEF names, name
      <3>2. ForField(m1, name) = ForField(m2, name)
        BY <1>3, <3>1, FieldAgrees DEF names
      <3> QED BY <3>2 DEF name
    <2> QED BY <2>1, Zenon DEF TemperaturePoints
  <1> QED BY <1>1, <1>2, <1>3

-----------------------------------------------------------------------------
(* The invariant.                                                          *)

\* What a category may be shown, the pairs it makes of it, and the map it
\* gives alone.
Source(m)   == CASE m = "memory" -> Meminfo [] m = "disk" -> Filesystems [] m = "temperature" -> Hwmon
Pairs(m, x) == CASE m = "memory"      -> MemoryPairs(x)
                 [] m = "disk"        -> DiskPairs(x)
                 [] m = "temperature" -> TemperaturePairs(x)
Given(m)    == IF WasRead(m) THEN Extend(<<>>, Pairs(m, seen[m])) ELSE <<>>

\* The points each category that was read gives alone.
Alone(m) ==
    CASE m = "memory"      -> MemoryPoints(Extend(<<>>, MemoryPairs(seen[m])))
      [] m = "disk"        -> DiskPoints(Extend(<<>>, DiskPairs(seen[m])))
      [] m = "temperature" -> TemperaturePoints(Extend(<<>>, TemperaturePairs(seen[m])))
AlonePoints == UNION {Alone(m) : m \in {c \in Metric : WasRead(c)}}

\* The configuration is one, and each category was shown something of its own.
Shown ==
    /\ phase \in {"off", "idle", "collecting"}
    /\ config \in Config \cup {None} /\ (phase # "off" => config \in Config)
    /\ seen = [m \in Metric |-> seen[m]]
    /\ \A m \in Metric : seen[m] \in Source(m) \cup {None, Failed}

\* While a request is answered, the enabled categories that are not still to
\* be collected were asked, and the answer so far has of each category what
\* that one gives alone.
Answering ==
    phase = "collecting" =>
       /\ todo \subseteq config.enabled /\ points = {}
       /\ \A m \in Metric : seen[m] # None <=> m \in config.enabled \ todo
       /\ \A m \in Metric : Agree(wire, Given(m), Own(m))

\* Between requests the points are those the categories give alone; there are
\* none before the first.
Answered == /\ phase = "idle" => points = AlonePoints
            /\ phase = "off" => points = {} /\ seen = Nothing

IInv == Shown /\ Answering /\ Answered

\* The pairs depend on the configuration alone.
LEMMA PairsFrame ==
  ASSUME config' = config, NEW m, NEW x
  PROVE  Pairs(m, x)' = Pairs(m, x)
  <1>1. DiskPairs(x)' = DiskPairs(x)
    <2> DEFINE F(mounts) == FlattenSeq([i \in DOMAIN mounts |->
                 LET usage == Statvfs(x, mounts[i])
                 IN  IF usage = None THEN <<>>
                     ELSE << Pair(WithInstance("disk_total", mounts[i]), usage.total),
                             Pair(WithInstance("disk_free", mounts[i]), usage.free) >>])
    <2>1. DiskPairs(x) = F(IF config.mounts # None THEN config.mounts
                           ELSE SelectMounts(ProcMounts(x.table)))
      BY Zenon DEF DiskPairs
    <2>2. DiskPairs(x)' = F(IF config'.mounts # None THEN config'.mounts
                            ELSE SelectMounts(ProcMounts(x.table)))
      BY Zenon DEF DiskPairs
    <2> HIDE DEF F
    <2> QED BY <2>1, <2>2
  <1>2. TemperaturePairs(x)' = TemperaturePairs(x)
    <2> DEFINE F(c) == LET sensors == InOrder({r \in Readable(x) :
                                         \/ c.sensors = None
                                         \/ SensorInstance(x, r[1], r[2]) \in c.sensors})
                       IN  [i \in DOMAIN sensors |->
                              Pair(WithInstance("temperature_celsius",
                                                SensorInstance(x, sensors[i][1], sensors[i][2])),
                                   sensors[i][2].millidegrees \div 1000)]
    <2>1. TemperaturePairs(x) = F(config)
      BY Zenon DEF TemperaturePairs, Allowed
    <2>2. TemperaturePairs(x)' = F(config')
      BY Zenon DEF TemperaturePairs, Allowed
    <2> HIDE DEF F
    <2> QED BY <2>1, <2>2
  <1> QED BY <1>1, <1>2 DEF Pairs

\* Each category's pairs have keys of its own.
LEMMA PairsShape ==
  ASSUME config \in Config, NEW m \in Metric, NEW x \in Source(m)
  PROVE  IsPairs(Pairs(m, x)) /\ \A k \in Keys(Pairs(m, x)) : k.name \in Own(m)
  <1>1. CASE m = "memory"
    <2>1. IsMemory(Pairs(m, x))
      BY <1>1, MemoryPairsShape DEF Source, Pairs
    <2>2. \A k \in MemoryKeys : k.name \in Own("memory")
      BY DEF MemoryKeys, Own, Plain
    <2> QED BY <1>1, <2>1, <2>2 DEF IsMemory, Keys
  <1>2. CASE m = "disk"
    <2>1. IsDisk(Pairs(m, x), x) /\ \A p \in Reported(x) : p \in Text
      BY <1>2, DiskPairsShape DEF Source, Pairs
    <2>2. \A p : /\ Pair(WithInstance("disk_total", p), x.usage[p].total).key.name = "disk_total"
                 /\ Pair(WithInstance("disk_free", p), x.usage[p].free).key.name = "disk_free"
      BY DEF Pair, WithInstance
    <2>3. Own(m) = {"disk_total", "disk_free"}
      BY <1>2 DEF Own
    <2> QED BY <2>1, <2>2, <2>3 DEF IsDisk, Keys
  <1>3. CASE m = "temperature"
    <2>1. IsTemperature(Pairs(m, x), x)
      BY <1>3, TemperaturePairsShape DEF Source, Pairs
    <2>2. \A r : Reading(x, r).key.name = "temperature_celsius"
      BY DEF Reading, Pair, WithInstance
    <2>3. Own(m) = {"temperature_celsius"}
      BY <1>3 DEF Own
    <2> QED BY <2>1, <2>2, <2>3 DEF IsTemperature, Keys
  <1> QED BY <1>1, <1>2, <1>3 DEF Metric

\* No name is of two categories.
LEMMA OwnApart ==
  ASSUME NEW m \in Metric, NEW n \in Metric, m # n, NEW name \in Own(m)
  PROVE  name \notin Own(n)
  BY DEF Metric, Own

\* The next category is one of those to collect.
LEMMA TurnIs ==
  ASSUME NEW ms \in SUBSET Metric, ms # {}
  PROVE  Turn(ms) \in ms
  <1> DEFINE P(m) == \A i, j \in DOMAIN METRICS : METRICS[i] = m /\ METRICS[j] \in ms => i <= j
  <1>1. /\ DOMAIN METRICS = 1 .. 3 /\ METRICS[1] = "memory" /\ METRICS[2] = "disk"
        /\ METRICS[3] = "temperature"
    BY DEF METRICS
  <1>2. \A i \in 1 .. 3 : i = 1 \/ i = 2 \/ i = 3
    OBVIOUS
  <1>3. "memory" \in ms => P("memory")
    BY <1>1, <1>2
  <1>4. "memory" \notin ms /\ "disk" \in ms => P("disk")
    BY <1>1, <1>2
  <1>5. "memory" \notin ms /\ "disk" \notin ms /\ "temperature" \in ms => P("temperature")
    BY <1>1, <1>2
  <1>6. \E m \in ms : P(m)
    <2> HIDE DEF P
    <2> QED BY <1>3, <1>4, <1>5 DEF Metric
  <1>7. Turn(ms) = CHOOSE m \in ms : P(m)
    BY Zenon DEF Turn
  <1> HIDE DEF P
  <1> QED BY <1>6, <1>7

\* A category that was not asked gives nothing, which has no points.
LEMMA NoPoints ==
  /\ MemoryPoints(<<>>) = {} /\ DiskPoints(<<>>) = {} /\ TemperaturePoints(<<>>) = {}
  <1> DEFINE e == <<>>
  <1>1. DOMAIN e = {}
    OBVIOUS
  <1> HIDE DEF e
  <1>2. MemoryPoints(e) = {}
    BY <1>1, MemoryParts DEF MemoryHas
  <1>3. \A name : ForField(e, name) = {}
    BY <1>1 DEF ForField
  <1>4. DiskPoints(e) = {}
    <2>1. {d \in ForField(e, "disk_total") : WithInstance("disk_free", d.instance) \in DOMAIN e} = {}
      BY <1>3
    <2> QED BY <2>1 DEF DiskPoints
  <1>5. TemperaturePoints(e) = {}
    BY <1>3 DEF TemperaturePoints
  <1> QED BY <1>2, <1>4, <1>5 DEF e

\* Maps without keys agree.
LEMMA AgreeNone == \A names : Agree(<<>>, <<>>, names)
  BY EmptyMap DEF Agree

\* Nothing was read of categories that were not asked.
LEMMA NothingRead ==
  ASSUME seen = Nothing
  PROVE  /\ \A m \in Metric : seen[m] = None /\ ~WasRead(m) /\ Given(m) = <<>>
         /\ AlonePoints = {}
  <1>1. \A m \in Metric : seen[m] = None
    BY DEF Nothing
  <1>2. \A m \in Metric : ~WasRead(m)
    BY <1>1 DEF WasRead
  <1> QED BY <1>1, <1>2 DEF Given, AlonePoints

-----------------------------------------------------------------------------
(* The steps.                                                              *)

\* Nothing runs at first, and nothing was shown.
LEMMA InitIInv == Init => IInv
  <1> SUFFICES ASSUME Init PROVE IInv
    OBVIOUS
  <1>1. Shown
    <2>1. seen = [m \in Metric |-> seen[m]] /\ \A m \in Metric : seen[m] = None
      BY DEF Init, Nothing
    <2> QED BY <2>1 DEF Init, Shown
  <1>2. Answering /\ Answered
    BY DEF Init, Answering, Answered
  <1> QED BY <1>1, <1>2 DEF IInv

\* A start finds no points and nothing shown, and leaves it so.
LEMMA StartStep ==
  ASSUME IInv, NEW c \in Config, Start(c)
  PROVE  IInv'
  <1>1. /\ phase' = "idle" /\ config' = c /\ seen' = seen /\ points' = points
        /\ points = {} /\ seen = Nothing
    BY DEF Start, IInv, Answered
  <1>2. Shown'
    BY <1>1 DEF IInv, Shown
  <1>3. Answering' /\ Answered'
    <2>1. AlonePoints' = {}
      BY <1>1 DEF AlonePoints, WasRead, Nothing
    <2> QED BY <1>1, <2>1 DEF Answering, Answered
  <1> QED BY <1>2, <1>3 DEF IInv

\* An end forgets both.
LEMMA StopStep ==
  ASSUME IInv, Stop
  PROVE  IInv'
  <1>1. phase' = "off" /\ config' = None /\ seen' = Nothing /\ points' = {}
    BY DEF Stop
  <1>2. Shown'
    BY <1>1 DEF Shown, Nothing
  <1> QED BY <1>1, <1>2 DEF IInv, Answering, Answered

\* A request begins with an empty answer, or is refused with no points.
LEMMA ScrapeStep ==
  ASSUME IInv, NEW t \in Presented, Scrape(t)
  PROVE  IInv'
  <1>1. /\ phase = "idle" /\ config' = config /\ seen' = Nothing /\ points' = {} /\ wire' = <<>>
        /\ phase' \in {"idle", "collecting"}
        /\ phase' = "collecting" => todo' = config.enabled
    BY DEF Scrape
  <1>2. config \in Config
    BY <1>1 DEF IInv, Shown
  <1>3. Shown'
    BY <1>1, <1>2 DEF Shown, Nothing
  <1>4. \A m \in Metric : seen'[m] = None
    BY <1>1 DEF Nothing
  <1>5. \A m \in Metric : ~WasRead(m)' /\ Given(m)' = <<>>
    <2>1. \A m \in Metric : ~WasRead(m)'
      BY <1>4 DEF WasRead
    <2> QED BY <2>1 DEF Given
  <1>6. AlonePoints' = {}
    BY <1>5 DEF AlonePoints
  <1>7. Answering'
    <2>1. \A m \in Metric : Agree(wire, Given(m), Own(m))'
      <3> SUFFICES ASSUME NEW m \in Metric PROVE Agree(wire, Given(m), Own(m))'
        OBVIOUS
      <3>1. wire' = <<>> /\ Given(m)' = <<>>
        BY <1>1, <1>5
      <3>2. Agree(wire', Given(m)', Own(m))
        BY <3>1, AgreeNone
      <3> QED BY <3>2 DEF Agree
    <2>2. config.enabled \in SUBSET Metric
      BY <1>2, CollectorAssumption
    <2> QED BY <1>1, <1>4, <2>1, <2>2 DEF Answering
  <1> QED BY <1>1, <1>3, <1>6, <1>7 DEF IInv, Answered

\* One turn: its category's keys are now what it gives alone, and the others
\* are left as they were.
LEMMA CollectStep ==
  ASSUME IInv, NEW c \in Metric, NEW x \in Source(c), CollectOne(c, x, Pairs(c, x))
  PROVE  IInv'
  <1> DEFINE s == Pairs(c, x)
  <1>1. /\ phase = "collecting" /\ todo # {} /\ Turn(todo) = c /\ wire' = Extend(wire, s)
        /\ seen' = [seen EXCEPT ![c] = x] /\ todo' = todo \ {c}
        /\ phase' = phase /\ config' = config /\ points' = points
    BY DEF CollectOne
  <1>2. /\ config \in Config /\ todo \in SUBSET config.enabled /\ points = {}
        /\ \A m \in Metric : seen[m] # None <=> m \in config.enabled \ todo
        /\ \A m \in Metric : Agree(wire, Given(m), Own(m))
        /\ seen = [m \in Metric |-> seen[m]]
        /\ \A m \in Metric : seen[m] \in Source(m) \cup {None, Failed}
    BY <1>1 DEF IInv, Shown, Answering
  <1>3. config.enabled \in SUBSET Metric /\ c \in todo
    <2>1. config.enabled \in SUBSET Metric
      BY <1>2, CollectorAssumption
    <2> QED BY <1>1, <1>2, <2>1, TurnIs
  <1>4. seen[c] = None /\ x # None /\ x # Failed
    <2>1. x \in Meminfo \cup Filesystems \cup Hwmon
      BY DEF Source, Metric
    <2> QED BY <1>2, <1>3, <2>1, CollectorAssumption
  <1>5. seen'[c] = x /\ \A m \in Metric : m # c => seen'[m] = seen[m]
    BY <1>1, <1>2
  <1>6. IsPairs(s) /\ \A k \in Keys(s) : k.name \in Own(c)
    BY <1>2, PairsShape
  <1> HIDE DEF s
  <1>7. Shown'
    <2>1. seen' = [m \in Metric |-> seen'[m]]
      BY <1>1, <1>2
    <2>2. \A m \in Metric : seen'[m] \in Source(m) \cup {None, Failed}
      BY <1>2, <1>5
    <2>3. \A m \in Metric : Source(m)' = Source(m)
      BY DEF Source
    <2> QED BY <1>1, <1>2, <2>1, <2>2, <2>3 DEF Shown
  <1>8. \A m \in Metric : seen'[m] # None <=> m \in config.enabled \ todo'
    BY <1>1, <1>2, <1>3, <1>4, <1>5
  <1>9. /\ DOMAIN wire' = DOMAIN wire \cup Keys(s)
        /\ \A k \in DOMAIN wire \ Keys(s) : wire'[k] = wire[k]
    BY <1>1, <1>6, ExtendShape
  <1>10. ASSUME NEW m \in Metric, m # c
         PROVE  Agree(wire, Given(m), Own(m))'
    <2>1. Given(m)' = Given(m)
      <3>1. WasRead(m)' <=> WasRead(m)
        BY <1>5, <1>10 DEF WasRead
      <3>2. Pairs(m, seen[m])' = Pairs(m, seen[m])
        <4>1. \A z : Pairs(m, z)' = Pairs(m, z)
          BY <1>1, PairsFrame
        <4> QED BY <1>5, <1>10, <4>1
      <3> QED BY <3>1, <3>2 DEF Given
    <2>2. Agree(wire, Given(m), Own(m))
      BY <1>2
    <2>3. \A k \in Keys(s) : k.name \notin Own(m)
      BY <1>6, <1>10, OwnApart
    <2>4. Agree(wire', Given(m), Own(m))
      <3> DEFINE g == Given(m)
      <3> HIDE DEF g
      <3>1. Agree(wire, g, Own(m))
        BY <2>2 DEF g
      <3>2. Agree(wire', g, Own(m))
        BY <1>9, <2>3, <3>1 DEF Agree
      <3> QED BY <3>2 DEF g
    <2> QED BY <2>1, <2>4 DEF Agree
  <1>11. Agree(wire, Given(c), Own(c))'
    <2> DEFINE e == Extend(<<>>, s)
    <2>1. Given(c)' = e
      <3>1. WasRead(c)'
        BY <1>4, <1>5 DEF WasRead
      <3>2. Pairs(c, x)' = Pairs(c, x)
        BY <1>1, PairsFrame
      <3>3. Pairs(c, seen[c])' = Pairs(c, x)'
        BY <1>5 DEF Pairs
      <3> QED BY <3>1, <3>2, <3>3 DEF Given, s
    <2>2. \A k \in DOMAIN wire : k.name \notin Own(c)
      <3>1. Given(c) = <<>>
        BY <1>4 DEF Given, WasRead
      <3>2. Agree(wire, <<>>, Own(c))
        BY <1>2, <3>1
      <3>3. \A k \in DOMAIN wire : k.name \in Own(c) => k \in DOMAIN <<>>
        BY <3>2 DEF Agree
      <3> QED BY <3>3, EmptyMap
    <2>3. DOMAIN e = Keys(s)
      BY <1>6, ExtendNone DEF IsMap
    <2>4. \A k \in Keys(s) : wire'[k] = e[k]
      BY <1>1, <1>6, ExtendSame
    <2> HIDE DEF e
    <2>5. Agree(wire', e, Own(c))
      BY <1>9, <2>2, <2>3, <2>4 DEF Agree
    <2> QED BY <2>1, <2>5 DEF Agree
  <1>12. Answering'
    BY <1>1, <1>2, <1>8, <1>10, <1>11 DEF Answering
  <1> QED BY <1>1, <1>7, <1>12 DEF IInv, Answered

\* A category that fails gives nothing.
LEMMA FailStep ==
  ASSUME IInv, CollectFails
  PROVE  IInv'
  <1> DEFINE c == Turn(todo)
  <1>1. /\ phase = "collecting" /\ todo # {} /\ wire' = wire
        /\ seen' = [seen EXCEPT ![c] = Failed] /\ todo' = todo \ {c}
        /\ phase' = phase /\ config' = config /\ points' = points
    BY DEF CollectFails, AfterFailure
  <1>2. /\ config \in Config /\ todo \in SUBSET config.enabled /\ points = {}
        /\ \A m \in Metric : seen[m] # None <=> m \in config.enabled \ todo
        /\ \A m \in Metric : Agree(wire, Given(m), Own(m))
        /\ seen = [m \in Metric |-> seen[m]]
        /\ \A m \in Metric : seen[m] \in Source(m) \cup {None, Failed}
    BY <1>1 DEF IInv, Shown, Answering
  <1>3. config.enabled \in SUBSET Metric /\ c \in todo /\ c \in Metric
    <2>1. config.enabled \in SUBSET Metric
      BY <1>2, CollectorAssumption
    <2> QED BY <1>1, <1>2, <2>1, TurnIs
  <1> HIDE DEF c
  <1>4. seen[c] = None /\ Failed # None
    BY <1>2, <1>3, CollectorAssumption
  <1>5. seen'[c] = Failed /\ \A m \in Metric : m # c => seen'[m] = seen[m]
    BY <1>1, <1>2, <1>3
  <1>6. Shown'
    <2>1. seen' = [m \in Metric |-> seen'[m]]
      BY <1>1, <1>2
    <2>2. \A m \in Metric : seen'[m] \in Source(m) \cup {None, Failed}
      BY <1>2, <1>5
    <2>3. \A m \in Metric : Source(m)' = Source(m)
      BY DEF Source
    <2> QED BY <1>1, <1>2, <2>1, <2>2, <2>3 DEF Shown
  <1>7. \A m \in Metric : seen'[m] # None <=> m \in config.enabled \ todo'
    BY <1>1, <1>2, <1>3, <1>4, <1>5
  <1>8. ASSUME NEW m \in Metric
        PROVE  Agree(wire, Given(m), Own(m))'
    <2>1. Given(m)' = Given(m)
      <3>1. CASE m = c
        <4>1. ~WasRead(m) /\ ~WasRead(m)'
          BY <1>4, <1>5, <3>1 DEF WasRead
        <4> QED BY <4>1 DEF Given
      <3>2. CASE m # c
        <4>1. WasRead(m)' <=> WasRead(m)
          BY <1>5, <3>2 DEF WasRead
        <4>2. Pairs(m, seen[m])' = Pairs(m, seen[m])
          <5>1. \A z : Pairs(m, z)' = Pairs(m, z)
            BY <1>1, PairsFrame
          <5> QED BY <1>5, <3>2, <5>1
        <4> QED BY <4>1, <4>2 DEF Given
      <3> QED BY <3>1, <3>2
    <2>2. Agree(wire, Given(m), Own(m))
      BY <1>2
    <2> QED BY <1>1, <2>1, <2>2 DEF Agree
  <1>9. Answering'
    BY <1>1, <1>2, <1>7, <1>8 DEF Answering
  <1> QED BY <1>1, <1>6, <1>9 DEF IInv, Answered

\* The answer's points are those the categories give alone.
LEMMA RespondStep ==
  ASSUME IInv, Respond
  PROVE  IInv'
  <1>1. /\ phase = "collecting" /\ points' = Process(wire) /\ phase' = "idle"
        /\ config' = config /\ seen' = seen
    BY DEF Respond
  <1>2. config \in Config /\ \A m \in Metric : Agree(wire, Given(m), Own(m))
    BY <1>1 DEF IInv, Shown, Answering
  <1>3. Shown'
    <2>1. \A m \in Metric : Source(m)' = Source(m)
      BY DEF Source
    <2> QED BY <1>1, <1>2, <2>1 DEF IInv, Shown
  <1>4. "memory" \in Metric /\ "disk" \in Metric /\ "temperature" \in Metric
    BY DEF Metric
  <1>5. /\ MemoryPoints(wire) = MemoryPoints(Given("memory"))
        /\ DiskPoints(wire) = DiskPoints(Given("disk"))
        /\ TemperaturePoints(wire) = TemperaturePoints(Given("temperature"))
    BY <1>2, <1>4, PointsAgree
  <1> DEFINE Of(m) == IF WasRead(m) THEN Alone(m) ELSE {}
  <1>6. MemoryPoints(Given("memory")) = Of("memory")
    BY NoPoints DEF Given, Pairs, Alone
  <1>7. DiskPoints(Given("disk")) = Of("disk")
    BY NoPoints DEF Given, Pairs, Alone
  <1>8. TemperaturePoints(Given("temperature")) = Of("temperature")
    BY NoPoints DEF Given, Pairs, Alone
  <1>9. Process(wire) = Of("memory") \cup Of("disk") \cup Of("temperature")
    BY <1>5, <1>6, <1>7, <1>8 DEF Process
  <1>10. AlonePoints = Of("memory") \cup Of("disk") \cup Of("temperature")
    <2>1. \A p : p \in AlonePoints <=> \E m \in Metric : WasRead(m) /\ p \in Alone(m)
      BY DEF AlonePoints
    <2>2. \A m \in Metric : m = "memory" \/ m = "disk" \/ m = "temperature"
      BY DEF Metric
    <2> HIDE DEF Metric
    <2> QED BY <1>4, <2>1, <2>2
  <1>11. AlonePoints' = AlonePoints
    <2>1. \A m \in Metric : Alone(m)' = Alone(m)
      <3> SUFFICES ASSUME NEW m \in Metric PROVE Alone(m)' = Alone(m)
        OBVIOUS
      <3>1. \A n : \A z : Pairs(n, z)' = Pairs(n, z)
        BY <1>1, PairsFrame
      <3>2. CASE m = "memory"
        BY <1>1, <3>2 DEF Alone
      <3>3. CASE m = "disk"
        <4>1. DiskPairs(seen[m])' = DiskPairs(seen[m])
          <5>1. \A z : DiskPairs(z)' = DiskPairs(z)
            BY <3>1 DEF Pairs
          <5> QED BY <1>1, <5>1
        <4> QED BY <3>3, <4>1 DEF Alone
      <3>4. CASE m = "temperature"
        <4>1. TemperaturePairs(seen[m])' = TemperaturePairs(seen[m])
          <5>1. \A z : TemperaturePairs(z)' = TemperaturePairs(z)
            BY <3>1 DEF Pairs
          <5> QED BY <1>1, <5>1
        <4> QED BY <3>4, <4>1 DEF Alone
      <3> QED BY <3>2, <3>3, <3>4 DEF Metric
    <2> QED BY <1>1, <2>1 DEF AlonePoints, WasRead
  <1> QED BY <1>1, <1>3, <1>9, <1>10, <1>11 DEF IInv, Answering, Answered

-----------------------------------------------------------------------------
(* What the invariant implies.                                             *)

\* A point is one of memory, of a reported mount or of a reported reading,
\* of a category that was read.
OfMemory(p)      == WasRead("memory") /\ IsMemoryPoint(p)
OfDisk(p)        == /\ WasRead("disk")
                    /\ \E path \in Reported(seen["disk"]) :
                          IsDiskPoint(p, path, seen["disk"].usage[path])
OfTemperature(p) == /\ WasRead("temperature")
                    /\ \E r \in Reports(seen["temperature"]) :
                          IsTemperaturePoint(p, seen["temperature"], r)

\* What a category that was read was shown.
LEMMA WasShown ==
  ASSUME IInv, NEW m \in Metric, WasRead(m)
  PROVE  config \in Config /\ seen[m] \in Source(m)
  <1>1. seen[m] \in Source(m)
    BY DEF IInv, Shown, WasRead
  <1>2. phase # "off"
    BY DEF IInv, Answered, WasRead, Nothing
  <1> QED BY <1>1, <1>2 DEF IInv, Shown

\* Every point is one of these.
LEMMA PointKinds ==
  ASSUME IInv, NEW p \in points
  PROVE  OfMemory(p) \/ OfDisk(p) \/ OfTemperature(p)
  <1>1. phase = "idle" /\ points = AlonePoints
    BY DEF IInv, Shown, Answering, Answered
  <1>2. PICK m \in Metric : WasRead(m) /\ p \in Alone(m)
    BY <1>1 DEF AlonePoints
  <1>3. config \in Config /\ seen[m] \in Source(m)
    BY <1>2, WasShown
  <1>4. CASE m = "memory"
    <2>1. IsMemory(MemoryPairs(seen[m]))
      BY <1>3, <1>4, MemoryPairsShape DEF Source
    <2> DEFINE map == Extend(<<>>, MemoryPairs(seen[m]))
    <2>2. \A k \in DOMAIN map \cap MemoryKeys : map[k] \in Nat
      BY <2>1, MemoryMap
    <2>3. p \in MemoryPoints(map)
      BY <1>2, <1>4 DEF Alone
    <2> HIDE DEF map
    <2> QED BY <1>2, <1>4, <2>2, <2>3, MemoryPointsShape DEF OfMemory
  <1>5. CASE m = "disk"
    <2>1. /\ IsDisk(DiskPairs(seen[m]), seen[m])
          /\ \A path \in Reported(seen[m]) : path \in Text
      BY <1>3, <1>5, DiskPairsShape DEF Source
    <2>2. p \in DiskPoints(Extend(<<>>, DiskPairs(seen[m])))
      BY <1>2, <1>5 DEF Alone
    <2> QED BY <1>2, <1>5, <2>1, <2>2, DiskPointsShape DEF OfDisk
  <1>6. CASE m = "temperature"
    <2>1. seen[m] \in Hwmon /\ IsTemperature(TemperaturePairs(seen[m]), seen[m])
      BY <1>3, <1>6, TemperaturePairsShape DEF Source
    <2>2. p \in TemperaturePoints(Extend(<<>>, TemperaturePairs(seen[m])))
      BY <1>2, <1>6 DEF Alone
    <2> QED BY <1>2, <1>6, <2>1, <2>2, TemperaturePointsShape DEF OfTemperature
  <1> QED BY <1>4, <1>5, <1>6 DEF Metric

\* Every mount and every name that is reported has a point.
LEMMA PointsThere ==
  ASSUME IInv, phase = "idle"
  PROVE  /\ WasRead("disk") => \A path \in Reported(seen["disk"]) :
              Point("disk_total", path, seen["disk"].usage[path].total) \in points
         /\ WasRead("temperature") => \A r \in Reports(seen["temperature"]) : \E p \in points :
              p.name = "temperature_celsius" /\ p.instance = SensorName(seen["temperature"], r)
  <1>1. points = AlonePoints /\ "disk" \in Metric /\ "temperature" \in Metric
    BY DEF IInv, Answered, Metric
  <1>2. \A m \in Metric : WasRead(m) => Alone(m) \subseteq points
    BY <1>1 DEF AlonePoints
  <1>3. ASSUME WasRead("disk"), NEW path \in Reported(seen["disk"])
        PROVE  Point("disk_total", path, seen["disk"].usage[path].total) \in points
    <2> DEFINE fs == seen["disk"]
    <2>1. fs \in Filesystems /\ config \in Config
      BY <1>1, <1>3, WasShown DEF Source
    <2>2. IsDisk(DiskPairs(fs), fs) /\ \A q \in Reported(fs) : q \in Text
      BY <2>1, DiskPairsShape
    <2>3. Point("disk_total", path, fs.usage[path].total) \in DiskPoints(Extend(<<>>, DiskPairs(fs)))
      BY <1>3, <2>2, DiskPointsShape
    <2>4. Alone("disk") = DiskPoints(Extend(<<>>, DiskPairs(fs)))
      BY DEF Alone
    <2> QED BY <1>1, <1>2, <1>3, <2>3, <2>4
  <1>4. ASSUME WasRead("temperature"), NEW r \in Reports(seen["temperature"])
        PROVE  \E p \in points : p.name = "temperature_celsius"
                                 /\ p.instance = SensorName(seen["temperature"], r)
    <2> DEFINE chips == seen["temperature"]
               all == TemperaturePoints(Extend(<<>>, TemperaturePairs(chips)))
    <2>1. chips \in Hwmon
      BY <1>1, <1>4, WasShown DEF Source
    <2>2. IsTemperature(TemperaturePairs(chips), chips)
      BY <2>1, TemperaturePairsShape
    <2>3. \E p \in all : p.name = "temperature_celsius" /\ p.instance = SensorName(chips, r)
      BY <1>4, <2>1, <2>2, TemperaturePointsShape
    <2>4. Alone("temperature") = all
      BY DEF Alone
    <2> HIDE DEF all
    <2> QED BY <1>1, <1>2, <1>4, <2>3, <2>4
  <1> QED BY <1>3, <1>4

\* Of the disks' points: what is reported, and its numbers.
LEMMA OfDiskShape ==
  ASSUME IInv, NEW p, OfDisk(p)
  PROVE  \E path \in Reported(seen["disk"]) :
            /\ path \in Text /\ seen["disk"].usage[path] \in Usage
            /\ IsDiskPoint(p, path, seen["disk"].usage[path])
  <1>1. WasRead("disk") /\ "disk" \in Metric
    BY DEF OfDisk, Metric
  <1>2. seen["disk"] \in Filesystems /\ config \in Config
    BY <1>1, WasShown DEF Source
  <1> QED BY <1>2, DiskPairsShape DEF OfDisk

\* Of the sensors' points.
LEMMA OfTemperatureShape ==
  ASSUME IInv, NEW p, OfTemperature(p)
  PROVE  \E r \in Reports(seen["temperature"]) :
            /\ IsTemperaturePoint(p, seen["temperature"], r)
            /\ SensorName(seen["temperature"], r) \in Text /\ r[2].millidegrees \in Int
            /\ r \in Readable(seen["temperature"])
  <1>1. WasRead("temperature") /\ "temperature" \in Metric
    BY DEF OfTemperature, Metric
  <1>2. seen["temperature"] \in Hwmon
    BY <1>1, WasShown DEF Source
  <1> QED BY <1>2, ReadableShape DEF OfTemperature, Reports

\* Points are typed.
LEMMA InvType == IInv => TypeOK
  <1> SUFFICES ASSUME IInv PROVE TypeOK
    OBVIOUS
  <1>1. ASSUME NEW p \in points
        PROVE  \E m \in Metric : p.name \in Outputs(m) /\ (p.instance # None <=> Instanced(m))
    <2>1. CASE OfMemory(p)
      <3>1. p.name \in Outputs("memory") /\ p.instance = None
        BY <2>1 DEF OfMemory, IsMemoryPoint, Point
      <3> QED BY <3>1 DEF Metric, Instanced
    <2>2. CASE OfDisk(p)
      <3>1. PICK path \in Text : IsDiskPoint(p, path, seen["disk"].usage[path])
        BY <2>2, OfDiskShape
      <3>2. p.name \in {"disk_total", "disk_used", "disk_used_percent"} /\ p.instance = path
        BY <3>1 DEF IsDiskPoint, Point
      <3>3. p.instance # None
        BY <3>2, CollectorAssumption
      <3> QED BY <3>2, <3>3 DEF Metric, Instanced, Outputs
    <2>3. CASE OfTemperature(p)
      <3>1. p.name = "temperature_celsius" /\ p.instance \in Text
        BY <2>3, OfTemperatureShape DEF IsTemperaturePoint, Point
      <3>2. p.instance # None
        BY <3>1, CollectorAssumption
      <3> QED BY <3>1, <3>2 DEF Metric, Instanced, Outputs
    <2> QED BY <2>1, <2>2, <2>3, PointKinds
  <1> QED BY <1>1 DEF TypeOK, IInv, Shown

\* Categories are independent.
LEMMA InvIndependent == IInv => CategoriesIndependent
  <1> SUFFICES ASSUME IInv PROVE CategoriesIndependent
    OBVIOUS
  <1>1. phase = "collecting" /\ todo = {} =>
          \A m \in Metric : m \in config.enabled <=> seen[m] # None
    BY DEF IInv, Answering
  <1>2. phase = "idle" => points = AlonePoints
    BY DEF IInv, Answered
  <1> QED BY <1>1, <1>2, Zenon DEF CategoriesIndependent, AlonePoints, Alone

\* Points can be stored.
LEMMA InvStorable == IInv => PointsStorable
  <1> SUFFICES ASSUME IInv, NEW p \in points
               PROVE  /\ p.value # NaN
                      /\ p.name \in {"memory_used_percent", "disk_used_percent"} =>
                           p.value \in 0 .. 100
                      /\ p.name = "disk_used" =>
                           \E t \in PointsOf("disk_total") :
                              t.instance = p.instance /\ p.value \in 0 .. t.value
    BY DEF PointsStorable
  <1>1. \A v \in Int : v # NaN
    BY CollectorAssumption
  <1>2. CASE OfMemory(p)
    <2>1. PICK name \in Outputs("memory"), v \in Nat :
            p = Point(name, None, v) /\ (name = "memory_used_percent" => v \in 0 .. 100)
      BY <1>2 DEF OfMemory, IsMemoryPoint
    <2>2. p.name = name /\ p.value = v
      BY <2>1 DEF Point
    <2>3. name # "disk_used_percent" /\ name # "disk_used"
      BY DEF Outputs
    <2> QED BY <1>1, <2>1, <2>2, <2>3
  <1>3. CASE OfDisk(p)
    <2>1. PICK path \in Reported(seen["disk"]) :
            /\ path \in Text /\ seen["disk"].usage[path] \in Usage
            /\ IsDiskPoint(p, path, seen["disk"].usage[path])
      BY <1>3, OfDiskShape
    <2> DEFINE total == seen["disk"].usage[path].total
               free == seen["disk"].usage[path].free
               used == Used(total, free)
               t == Point("disk_total", path, total)
    <2>2. total \in Nat /\ free \in Nat
      BY <2>1 DEF Usage
    <2>3. t \in points
      <3>1. phase = "idle" /\ WasRead("disk")
        BY <1>3 DEF IInv, Shown, Answering, Answered, OfDisk
      <3> QED BY <2>1, <3>1, PointsThere
    <2>4. \/ p = Point("disk_total", path, total) \/ p = Point("disk_used", path, used)
          \/ p = Point("disk_used_percent", path, Percent(used, total)) /\ HasSize(total)
      BY <2>1 DEF IsDiskPoint
    <2>5. t.name = "disk_total" /\ t.instance = path /\ t.value = total
      BY DEF Point
    <2> HIDE DEF total, free, t
    <2>6. used \in 0 .. total
      BY <2>2, UsedBounds
    <2> HIDE DEF used
    <2>7. CASE p = Point("disk_total", path, total)
      <3>1. p.name = "disk_total" /\ p.value = total
        BY <2>7 DEF Point
      <3> QED BY <1>1, <2>2, <3>1
    <2>8. CASE p = Point("disk_used", path, used)
      <3>1. p.name = "disk_used" /\ p.value = used /\ p.instance = path
        BY <2>8 DEF Point
      <3>2. t \in PointsOf("disk_total")
        BY <2>3, <2>5 DEF PointsOf
      <3>3. used # NaN
        BY <1>1, <2>6
      <3> QED BY <2>5, <2>6, <3>1, <3>2, <3>3
    <2>9. CASE p = Point("disk_used_percent", path, Percent(used, total)) /\ HasSize(total)
      <3>1. p.name = "disk_used_percent" /\ p.value = Percent(used, total)
        BY <2>9 DEF Point
      <3>2. Percent(used, total) \in 0 .. 100
        BY <2>2, <2>6, <2>9, PercentBounds
      <3>3. Percent(used, total) # NaN
        BY <1>1, <3>2
      <3> QED BY <3>1, <3>2, <3>3
    <2> QED BY <2>4, <2>7, <2>8, <2>9
  <1>4. CASE OfTemperature(p)
    <2>1. PICK r : /\ IsTemperaturePoint(p, seen["temperature"], r)
                   /\ r[2].millidegrees \in Int
      BY <1>4, OfTemperatureShape
    <2>2. p.name = "temperature_celsius" /\ p.value = r[2].millidegrees \div 1000
      BY <2>1 DEF IsTemperaturePoint, Point
    <2>3. r[2].millidegrees \div 1000 \in Int
      BY <2>1
    <2> QED BY <1>1, <2>2, <2>3
  <1> QED BY <1>2, <1>3, <1>4, PointKinds

\* Each local device is reported once, at its first mount.
LEMMA InvDisks == IInv => DisksOnce
  <1> DEFINE fs == seen["disk"]
             table == fs.table
  <1> SUFFICES ASSUME IInv, phase = "idle", WasRead("disk"), config.mounts = None,
                      \A i \in DOMAIN table : LegibleRow(table[i])
               PROVE  {p.instance : p \in PointsOf("disk_total")}
                        = LocalMounts(table) \cap DOMAIN fs.usage
    BY Zenon DEF DisksOnce
  <1>1. fs \in Filesystems
    BY WasShown DEF Source, Metric
  <1>2. Reported(fs) = LocalMounts(table) \cap DOMAIN fs.usage
    <2>1. table \in Seq(Mount)
      BY <1>1, CollectorAssumption
    <2>2. MountsOf(fs) = SelectMounts(ProcMounts(table))
      BY DEF MountsOf
    <2> HIDE DEF fs
    <2>3. ToSet(SelectMounts(ProcMounts(table))) = LocalMounts(table)
      <3> HIDE DEF table
      <3> QED BY <2>1, TableMounts, Zenon
    <2> QED BY <2>2, <2>3 DEF Reported
  <1>3. ASSUME NEW p \in PointsOf("disk_total") PROVE p.instance \in Reported(fs)
    <2>1. p \in points /\ p.name = "disk_total"
      BY DEF PointsOf
    <2>2. ~OfMemory(p)
      <3>1. "disk_total" \notin Outputs("memory")
        BY DEF Outputs
      <3> QED BY <2>1, <3>1 DEF OfMemory, IsMemoryPoint, Point
    <2>3. ~OfTemperature(p)
      BY <2>1 DEF OfTemperature, IsTemperaturePoint, Point
    <2>4. OfDisk(p)
      BY <2>1, <2>2, <2>3, PointKinds
    <2>5. PICK path \in Reported(fs) : IsDiskPoint(p, path, fs.usage[path])
      BY <2>4 DEF OfDisk
    <2>6. p.instance = path
      BY <2>5 DEF IsDiskPoint, Point
    <2> QED BY <2>6
  <1>4. ASSUME NEW path \in Reported(fs) PROVE \E p \in PointsOf("disk_total") : p.instance = path
    <2> DEFINE p == Point("disk_total", path, fs.usage[path].total)
    <2>1. p \in points
      BY PointsThere
    <2>2. p.name = "disk_total" /\ p.instance = path
      BY DEF Point
    <2> HIDE DEF p
    <2> QED BY <2>1, <2>2 DEF PointsOf
  <1>5. {p.instance : p \in PointsOf("disk_total")} = Reported(fs)
    BY <1>3, <1>4
  <1> QED BY <1>2, <1>5

\* Sensors of different chips are told apart, and those of different labels.
LEMMA InvSensors == IInv => SensorsApart
  <1> DEFINE chips == seen["temperature"]
             Read == Readable(chips)
             Name(r) == SensorName(chips, r)
             Told(r) == Point("temperature_celsius", Name(r), r[2].millidegrees \div 1000)
             Single(r) == \A q \in Read : q[1] = r[1] /\ Label(q[2]) = Label(r[2]) => q = r
  <1> SUFFICES ASSUME IInv, phase = "idle", WasRead("temperature")
               PROVE  /\ \A q, r \in Read : Name(q) = Name(r) => q[1] = r[1]
                      /\ \A r \in Read :
                           Single(r) /\ Allowed(Name(r)) =>
                             {p \in PointsOf("temperature_celsius") : p.instance = Name(r)}
                               = {Told(r)}
                      /\ PointsOf("temperature_celsius")
                           \subseteq {Told(r) : r \in {q \in Read : Allowed(Name(q))}}
    BY Zenon DEF SensorsApart, SensorName
  <1>1. chips \in Hwmon
    BY WasShown DEF Source, Metric
  <1>2. \A q, r \in Read : Name(q) = Name(r) => q[1] = r[1] /\ Label(q[2]) = Label(r[2])
    BY <1>1, ReadableShape
  <1>3. ASSUME NEW p \in PointsOf("temperature_celsius")
        PROVE  \E r \in Reports(chips) : p = Told(r)
    <2>1. p \in points /\ p.name = "temperature_celsius"
      BY DEF PointsOf
    <2>2. ~OfMemory(p)
      <3>1. "temperature_celsius" \notin Outputs("memory")
        BY DEF Outputs
      <3> QED BY <2>1, <3>1 DEF OfMemory, IsMemoryPoint, Point
    <2>3. ~OfDisk(p)
      BY <2>1 DEF OfDisk, IsDiskPoint, Point
    <2>4. OfTemperature(p)
      BY <2>1, <2>2, <2>3, PointKinds
    <2> QED BY <2>4 DEF OfTemperature, IsTemperaturePoint
  <1>4. Reports(chips) = {q \in Read : Allowed(Name(q))}
    BY DEF Reports
  <1>5. ASSUME NEW r \in Read, Single(r), Allowed(Name(r))
        PROVE  {p \in PointsOf("temperature_celsius") : p.instance = Name(r)} = {Told(r)}
    <2>1. ASSUME NEW p \in PointsOf("temperature_celsius"), p.instance = Name(r)
          PROVE  p = Told(r)
      <3>1. PICK q \in Reports(chips) : p = Told(q)
        BY <1>3
      <3>2. q \in Read /\ Name(q) = Name(r)
        BY <1>4, <2>1, <3>1 DEF Point
      <3>3. q = r
        BY <1>2, <1>5, <3>2
      <3> QED BY <3>1, <3>3
    <2>2. r \in Reports(chips)
      BY <1>4, <1>5
    <2>3. PICK p \in points : p.name = "temperature_celsius" /\ p.instance = Name(r)
      BY <2>2, PointsThere
    <2>4. p \in PointsOf("temperature_celsius")
      BY <2>3 DEF PointsOf
    <2> HIDE DEF Told, Name
    <2> QED BY <2>1, <2>3, <2>4
  <1>6. PointsOf("temperature_celsius") \subseteq {Told(r) : r \in {q \in Read : Allowed(Name(q))}}
    <2> HIDE DEF Told, Name, Read
    <2> QED BY <1>3, <1>4
  <1> QED BY <1>2, <1>5, <1>6

-----------------------------------------------------------------------------
(* The theorems.                                                           *)

\* No step, nor the lack of one, breaks the invariant.
LEMMA StepIInv == IInv /\ [Next]_vars => IInv'
  <1> SUFFICES ASSUME IInv, [Next]_vars PROVE IInv'
    OBVIOUS
  <1> USE DEF Metric
  <1>1. ASSUME NEW c \in Config, Start(c) PROVE IInv'
    BY <1>1, StartStep
  <1>2. CASE Stop
    BY <1>2, StopStep
  <1>3. ASSUME NEW t \in Presented, Scrape(t) PROVE IInv'
    BY <1>3, ScrapeStep
  <1>4. CASE CollectMemory
    <2>1. PICK x \in Meminfo : CollectOne("memory", x, MemoryPairs(x))
      BY <1>4 DEF CollectMemory
    <2>2. x \in Source("memory") /\ MemoryPairs(x) = Pairs("memory", x)
      BY DEF Source, Pairs
    <2> QED BY <2>1, <2>2, CollectStep
  <1>5. CASE CollectDisk
    <2>1. PICK x \in Filesystems : CollectOne("disk", x, DiskPairs(x))
      BY <1>5 DEF CollectDisk
    <2>2. x \in Source("disk") /\ DiskPairs(x) = Pairs("disk", x)
      BY DEF Source, Pairs
    <2> QED BY <2>1, <2>2, CollectStep
  <1>6. CASE CollectTemperature
    <2>1. PICK x \in Hwmon : CollectOne("temperature", x, TemperaturePairs(x))
      BY <1>6 DEF CollectTemperature
    <2>2. x \in Source("temperature") /\ TemperaturePairs(x) = Pairs("temperature", x)
      BY DEF Source, Pairs
    <2> QED BY <2>1, <2>2, CollectStep
  <1>7. CASE CollectFails
    BY <1>7, FailStep
  <1>8. CASE Respond
    BY <1>8, RespondStep
  <1>9. CASE UNCHANGED vars
    <2>1. /\ phase' = phase /\ config' = config /\ todo' = todo /\ wire' = wire
          /\ points' = points /\ seen' = seen
      BY <1>9 DEF vars
    <2>2. \A m, z : Pairs(m, z)' = Pairs(m, z)
      BY <2>1, PairsFrame
    <2>3. \A m \in Metric : Given(m)' = Given(m)
      BY <2>1, <2>2 DEF Given, WasRead
    <2>4. \A m \in Metric : Alone(m)' = Alone(m)
      <3>1. \A z : /\ DiskPairs(z)' = DiskPairs(z)
                   /\ TemperaturePairs(z)' = TemperaturePairs(z)
        BY <2>2 DEF Pairs
      <3> QED BY <2>1, <3>1 DEF Alone
    <2>5. AlonePoints' = AlonePoints
      BY <2>1, <2>4 DEF AlonePoints, WasRead
    <2>6. Shown' /\ Answered'
      <3>1. \A m \in Metric : Source(m)' = Source(m)
        BY DEF Source
      <3> QED BY <2>1, <2>5, <3>1 DEF IInv, Shown, Answered
    <2>7. Answering'
      <3>1. ASSUME NEW m \in Metric, Agree(wire, Given(m), Own(m))
            PROVE  Agree(wire, Given(m), Own(m))'
        BY <2>1, <2>3, <3>1 DEF Agree
      <3> QED BY <2>1, <3>1 DEF IInv, Answering
    <2> QED BY <2>6, <2>7 DEF IInv
  <1> QED BY <1>1, <1>2, <1>3, <1>4, <1>5, <1>6, <1>7, <1>8, <1>9 DEF Next

\* The answer has at every moment what each category that was read gives
\* alone, and the points of the last are those, whatever is shown and fails.
THEOREM Invariant == Spec => []IInv
  <1>1. Init => IInv
    BY InitIInv
  <1>2. IInv /\ [Next]_vars => IInv'
    BY StepIInv
  <1> QED BY <1>1, <1>2, PTL DEF Spec

\* Every point is of a series its category declares, with an instance where
\* that is declared.
THEOREM TypeCorrect == Spec => []TypeOK
  BY Invariant, InvType, PTL

\* The failure of a category takes no other with it.
THEOREM Independence == Spec => []CategoriesIndependent
  BY Invariant, InvIndependent, PTL

\* The store takes every point.
THEOREM Storability == Spec => []PointsStorable
  BY Invariant, InvStorable, PTL

\* On the text of any mount table whose fields are not empty and have neither
\* form feed nor carriage return, every local device that can be read is
\* reported once, at its first mount and under the path it has, split at the
\* blanks and unescaped though the text is.
THEOREM DisksReportedOnce == Spec => []DisksOnce
  BY Invariant, InvDisks, PTL

\* No sensor of a chip is shown as one of another, each that shares its label
\* with no other sensor of its chip has one point, with its own reading, and
\* every point is a sensor's reading.  Of those of one chip that share a label
\* one only may be shown.
THEOREM SensorsToldApart == Spec => []SensorsApart
  BY Invariant, InvSensors, PTL
=============================================================================

----------------------------- MODULE LoopProofs -----------------------------
(***************************************************************************)
(* What the proofs about loops and recursive functions share.  The library *)
(* states induction with an operator as a parameter, which the provers     *)
(* cannot instantiate; so a claim about every turn of a loop is proved by  *)
(* the least turn at which it fails.                                       *)
(***************************************************************************)
EXTENDS SequencesExt, SequenceTheorems, WellFoundedInduction, TLAPS

\* A set of numbers that is not empty has a least one.
LEMMA Least ==
    ASSUME NEW T \in SUBSET Nat, T # {}
    PROVE  \E m \in T : \A t \in T : m <= t
<1> DEFINE R == {ss \in Nat \X Nat : ss[1] < ss[2]}
<1>1. IsWellFoundedOn(R, Nat)
  BY NatLessThanWellFounded, Zenon DEF OpToRel
<1>2. PICK m \in T : \A t \in T : ~(<<t, m>> \in R)
  <2> HIDE DEF R
  <2> QED BY <1>1, WFMin
<1>3. ASSUME NEW t \in T PROVE m <= t
  <2>1. <<t, m>> \in Nat \X Nat
    OBVIOUS
  <2> QED BY <1>2, <2>1
<1> QED BY <1>3

-----------------------------------------------------------------------------
(* Iteration and joining.                                                  *)

\* f iterates the steps st from a.
Iterates(f, a, n, st) == f[0] = a /\ \A i \in 1 .. n : f[i] = st[i][f[i - 1]]

\* The steps of a set can be iterated from every element of it.
LEMMA Iterate ==
  ASSUME NEW A, NEW a \in A, NEW n \in Nat, NEW st \in [1 .. n -> [A -> A]]
  PROVE  \E f \in [0 .. n -> A] : Iterates(f, a, n, st)
  <1> DEFINE P(k) == \E f \in [0 .. k -> A] :
                        f[0] = a /\ \A i \in 1 .. k : f[i] = st[i][f[i - 1]]
             T == {k \in 0 .. n : ~P(k)}
  <1>1. P(0)
    <2> DEFINE f == [i \in 0 .. 0 |-> a]
    <2>1. f \in [0 .. 0 -> A] /\ f[0] = a /\ \A i \in 1 .. 0 : FALSE
      OBVIOUS
    <2> HIDE DEF f
    <2> QED BY <2>1
  <1>2. ASSUME NEW m \in 1 .. n, P(m - 1) PROVE P(m)
    <2>1. PICK g \in [0 .. m - 1 -> A] :
             g[0] = a /\ \A i \in 1 .. m - 1 : g[i] = st[i][g[i - 1]]
      BY <1>2
    <2> DEFINE x == st[m][g[m - 1]]
               f == [i \in 0 .. m |-> IF i < m THEN g[i] ELSE x]
    <2>2. m - 1 \in 0 .. m - 1 /\ m \in Nat
      OBVIOUS
    <2>3. x \in A
      BY <2>1, <2>2
    <2>4. /\ DOMAIN f = 0 .. m /\ f[m] = x
          /\ \A i \in 0 .. m - 1 : f[i] = g[i]
      BY <2>2
    <2>5. f \in [0 .. m -> A]
      BY <2>1, <2>2, <2>3
    <2> HIDE DEF f
    <2>6. ASSUME NEW i \in 1 .. m PROVE f[i] = st[i][f[i - 1]]
      <3>1. i - 1 \in 0 .. m - 1 /\ f[i - 1] = g[i - 1]
        BY <2>2, <2>4
      <3>2. CASE i = m
        BY <2>4, <3>1, <3>2
      <3>3. CASE i # m
        <4>1. i \in 1 .. m - 1 /\ i \in 0 .. m - 1
          BY <2>2, <3>3
        <4> QED BY <2>1, <2>4, <3>1, <4>1
      <3> QED BY <3>2, <3>3
    <2>7. f[0] = a
      BY <2>1, <2>2, <2>4
    <2> QED BY <2>5, <2>6, <2>7
  <1> HIDE DEF P
  <1>3. T = {}
    <2>1. SUFFICES ASSUME T # {} PROVE FALSE
      OBVIOUS
    <2>2. T \in SUBSET Nat
      OBVIOUS
    <2>3. PICK m \in T : \A t \in T : m <= t
      <3> HIDE DEF T
      <3> QED BY <2>1, <2>2, Least
    <2>4. m \in 1 .. n /\ ~(m <= m - 1) /\ m - 1 \in 0 .. n
      BY <1>1, <2>3
    <2>5. P(m - 1)
      BY <2>3, <2>4
    <2> QED BY <1>2, <2>3, <2>4, <2>5
  <1>4. P(n)
    BY <1>3
  <1> QED BY <1>4 DEF P, Iterates

\* FlattenSeq is the last of the joins of the first sequences.
LEMMA FlattenJoins ==
  ASSUME NEW S, NEW s \in Seq(Seq(S))
  PROVE  \E f \in [0 .. Len(s) -> Seq(S)] :
            /\ f[0] = <<>> /\ \A i \in 1 .. Len(s) : f[i] = f[i - 1] \o s[i]
            /\ FlattenSeq(s) = f[Len(s)]
  <1> DEFINE st == [i \in 1 .. Len(s) |-> [x \in Seq(S) |-> x \o s[i]]]
  <1>1. Len(s) \in Nat /\ <<>> \in Seq(S) /\ \A i \in 1 .. Len(s) : s[i] \in Seq(S)
    BY LenProperties
  <1>2. st \in [1 .. Len(s) -> [Seq(S) -> Seq(S)]]
    <2>1. \A i \in 1 .. Len(s), x \in Seq(S) : x \o s[i] \in Seq(S)
      BY <1>1, ConcatProperties
    <2> QED BY <2>1
  <1>3. \A i \in 1 .. Len(s), x \in Seq(S) : st[i][x] = x \o s[i]
    OBVIOUS
  <1> HIDE DEF st
  <1>4. PICK f \in [0 .. Len(s) -> Seq(S)] :
           f[0] = <<>> /\ \A i \in 1 .. Len(s) : f[i] = st[i][f[i - 1]]
    <2> DEFINE n == Len(s)
               A == Seq(S)
               a == <<>>
    <2>1. n \in Nat /\ a \in A /\ st \in [1 .. n -> [A -> A]]
      BY <1>1, <1>2
    <2> HIDE DEF n, A, a
    <2>2. \E f \in [0 .. n -> A] : Iterates(f, a, n, st)
      BY <2>1, Iterate
    <2> QED BY <2>2 DEF n, A, a, Iterates
  <1>5. ASSUME NEW i \in 1 .. Len(s)
        PROVE  f[i] = f[i - 1] \o s[i] /\ f[i - 1] \in Seq(S)
    <2>1. i - 1 \in 0 .. Len(s)
      BY <1>1
    <2> QED BY <1>3, <1>4, <2>1
  <1>6. FlattenSeq(s) = f[Len(s)]
    <2>1. CASE Len(s) = 0
      <3>1. s = <<>>
        BY <2>1, EmptySeq
      <3> QED BY <1>4, <2>1, <3>1 DEF FlattenSeq
    <2>2. CASE Len(s) # 0
      <3> DEFINE R(g) == [i \in 1 .. Len(s) |-> IF i = 1 THEN s[i] ELSE g[i - 1] \o s[i]]
                 h == CHOOSE g : g = R(g)
                 fl == [i \in 1 .. Len(s) |-> f[i]]
      <3>1. FlattenSeq(s) = h[Len(s)]
        BY <2>2 DEF FlattenSeq
      <3>2. fl = R(fl)
        <4>1. ASSUME NEW i \in 1 .. Len(s)
              PROVE  fl[i] = IF i = 1 THEN s[i] ELSE fl[i - 1] \o s[i]
          <5>1. CASE i = 1
            <6>1. 1 \in 1 .. Len(s) /\ s[1] \in Seq(S) /\ 1 - 1 = 0
              BY <1>1, <5>1
            <6>2. f[1] = <<>> \o s[1]
              BY <1>4, <1>5, <6>1
            <6>3. f[1] = s[1]
              BY <6>1, <6>2, ConcatEmptySeq
            <6> QED BY <5>1, <6>3
          <5>2. CASE i # 1
            <6>1. i - 1 \in 1 .. Len(s)
              BY <1>1, <5>2
            <6> QED BY <1>5, <5>2, <6>1
          <5> QED BY <5>1, <5>2
        <4>2. fl = [i \in 1 .. Len(s) |-> fl[i]]
          OBVIOUS
        <4> HIDE DEF fl
        <4> QED BY <4>1, <4>2
      <3>3. h = R(h)
        <4> HIDE DEF R, fl
        <4> QED BY <3>2
      <3> HIDE DEF h
      <3> DEFINE T == {i \in 1 .. Len(s) : h[i] # f[i]}
      <3>4. T = {}
        <4>1. SUFFICES ASSUME T # {} PROVE FALSE
          OBVIOUS
        <4>2. T \in SUBSET Nat
          BY <1>1
        <4>3. PICK m \in T : \A t \in T : m <= t
          BY <4>1, <4>2, Least, Zenon
        <4>4. m \in 1 .. Len(s) /\ h[m] # f[m]
          BY <4>3
        <4>5. h[m] = IF m = 1 THEN s[m] ELSE h[m - 1] \o s[m]
          BY <3>3, <4>4
        <4>6. fl[m] = IF m = 1 THEN s[m] ELSE fl[m - 1] \o s[m]
          BY <3>2, <4>4
        <4>7. fl[m] = f[m]
          BY <4>4
        <4>8. ASSUME m # 1 PROVE h[m - 1] = fl[m - 1]
          <5>1. m \in Nat /\ ~(m <= m - 1) /\ m - 1 \in 1 .. Len(s)
            BY <1>1, <4>4, <4>8
          <5>2. m - 1 \notin T
            BY <4>3, <5>1
          <5> QED BY <5>1, <5>2
        <4> HIDE DEF fl
        <4> QED BY <4>4, <4>5, <4>6, <4>7, <4>8
      <3>5. Len(s) \in 1 .. Len(s)
        BY <1>1, <2>2
      <3> QED BY <3>1, <3>4, <3>5
    <2> QED BY <2>1, <2>2
  <1> QED BY <1>4, <1>5, <1>6

\* Where each of the sequences begins in what FlattenSeq makes of them, what
\* stands there, and that nothing else does.
Laid(off, s) ==
    /\ off \in [0 .. Len(s) -> Nat]
    /\ off[0] = 0 /\ off[Len(s)] = Len(FlattenSeq(s))
    /\ \A m \in 0 .. Len(s) : \A k \in 0 .. m : off[k] <= off[m]
    /\ \A k \in 1 .. Len(s) :
          /\ off[k] = off[k - 1] + Len(s[k])
          /\ \A i \in 1 .. Len(s[k]) :
                /\ off[k - 1] + i \in 1 .. Len(FlattenSeq(s))
                /\ FlattenSeq(s)[off[k - 1] + i] = s[k][i]
    /\ \A j \in 1 .. Len(FlattenSeq(s)) : \E k \in 1 .. Len(s) :
          \E i \in 1 .. Len(s[k]) : j = off[k - 1] + i

\* Every sequence of sequences is laid out so.
LEMMA Flat ==
  ASSUME NEW S, NEW s \in Seq(Seq(S))
  PROVE  FlattenSeq(s) \in Seq(S) /\ \E off : Laid(off, s)
  <1> DEFINE n == Len(s)
             fs == FlattenSeq(s)
  <1>1. PICK f \in [0 .. n -> Seq(S)] :
            /\ f[0] = <<>> /\ \A i \in 1 .. n : f[i] = f[i - 1] \o s[i]
            /\ fs = f[n]
    BY FlattenJoins
  <1>2. n \in Nat /\ \A k \in 1 .. n : s[k] \in Seq(S) /\ Len(s[k]) \in Nat
    BY LenProperties
  <1> HIDE DEF n, fs
  <1>3. n \in 0 .. n /\ fs \in Seq(S)
    BY <1>1, <1>2
  <1> DEFINE off == [k \in 0 .. n |-> Len(f[k])]
  <1>4. off \in [0 .. n -> Nat] /\ \A k \in 0 .. n : off[k] = Len(f[k])
    BY <1>1, LenProperties
  <1>5. off[0] = 0 /\ off[n] = Len(fs)
    BY <1>1, <1>2, <1>3, <1>4, EmptySeq
  <1> HIDE DEF off
  <1>6. ASSUME NEW k \in 1 .. n
        PROVE  /\ k - 1 \in 0 .. n /\ off[k - 1] \in Nat /\ off[k] \in Nat
               /\ off[k] = off[k - 1] + Len(s[k])
               /\ \A i \in 1 .. off[k - 1] : f[k][i] = f[k - 1][i]
               /\ \A i \in 1 .. Len(s[k]) : f[k][off[k - 1] + i] = s[k][i]
    <2>1. k - 1 \in 0 .. n /\ k \in 0 .. n
      BY <1>2
    <2> DEFINE a == f[k - 1]
               b == s[k]
    <2>2. /\ a \in Seq(S) /\ b \in Seq(S) /\ f[k] = a \o b
          /\ off[k - 1] = Len(a) /\ off[k] = Len(a \o b)
      BY <1>1, <1>2, <1>4, <2>1
    <2>3. Len(a) \in Nat /\ Len(b) \in Nat
      BY <2>2, LenProperties
    <2> HIDE DEF a, b
    <2>4. /\ Len(a \o b) = Len(a) + Len(b)
          /\ \A i \in 1 .. Len(a) + Len(b) :
                (a \o b)[i] = IF i <= Len(a) THEN a[i] ELSE b[i - Len(a)]
      BY <2>2, ConcatProperties
    <2>5. \A i \in 1 .. Len(a) : (a \o b)[i] = a[i]
      BY <2>3, <2>4
    <2>6. ASSUME NEW i \in 1 .. Len(b) PROVE (a \o b)[Len(a) + i] = b[i]
      <3>1. /\ Len(a) + i \in 1 .. Len(a) + Len(b) /\ ~(Len(a) + i <= Len(a))
            /\ (Len(a) + i) - Len(a) = i
        BY <2>3
      <3> QED BY <2>4, <3>1
    <2>7. /\ off[k - 1] \in Nat /\ off[k] \in Nat
          /\ off[k] = off[k - 1] + Len(b)
          /\ \A i \in 1 .. off[k - 1] : f[k][i] = a[i]
          /\ \A i \in 1 .. Len(b) : f[k][off[k - 1] + i] = b[i]
      BY <2>2, <2>3, <2>4, <2>5, <2>6
    <2> QED
      BY <2>1, <2>7 DEF a, b
  <1> DEFINE Q(m) == \A k \in 0 .. m : /\ off[k] <= off[m]
                                       /\ \A i \in 1 .. off[k] : f[m][i] = f[k][i]
  <1>7. \A m \in 0 .. n : Q(m)
    <2> DEFINE T == {m \in 0 .. n : ~Q(m)}
    <2>1. SUFFICES ASSUME T # {} PROVE FALSE
      OBVIOUS
    <2>2. T \in SUBSET Nat
      OBVIOUS
    <2>3. PICK m \in T : \A t \in T : m <= t
      <3> HIDE DEF T
      <3> QED BY <2>1, <2>2, Least
    <2>4. Q(0)
      <3>1. \A k \in 0 .. 0 : k = 0
        OBVIOUS
      <3> QED BY <1>4, <1>5, <3>1
    <2>5. m \in 1 .. n /\ m - 1 \in 0 .. n /\ ~(m <= m - 1) /\ ~Q(m)
      <3> HIDE DEF Q
      <3> QED BY <1>2, <2>3, <2>4
    <2>6. Q(m - 1)
      <3> HIDE DEF Q
      <3> QED BY <2>3, <2>5
    <2>7. ASSUME NEW k \in 0 .. m
          PROVE  off[k] <= off[m] /\ \A i \in 1 .. off[k] : f[m][i] = f[k][i]
      <3>1. /\ off[m - 1] \in Nat /\ off[m] \in Nat /\ Len(s[m]) \in Nat
            /\ off[m] = off[m - 1] + Len(s[m])
            /\ \A i \in 1 .. off[m - 1] : f[m][i] = f[m - 1][i]
        BY <1>2, <1>6, <2>5
      <3>2. CASE k = m
        BY <3>1, <3>2
      <3>3. CASE k # m
        <4> HIDE DEF Q
        <4>1. k \in 0 .. m - 1 /\ k \in 0 .. n
          <5>1. m \in Nat /\ k \in Nat /\ k <= m /\ n \in Nat /\ m <= n
            BY <1>2, <2>5
          <5> QED BY <3>3, <5>1
        <4>2. off[k] \in Nat /\ off[k] <= off[m - 1]
              /\ \A i \in 1 .. off[k] : f[m - 1][i] = f[k][i]
          BY <1>4, <2>6, <4>1 DEF Q
        <4>3. off[k] <= off[m] /\ \A i \in 1 .. off[k] : i \in 1 .. off[m - 1]
          BY <3>1, <4>2
        <4> QED BY <3>1, <4>2, <4>3
      <3> QED BY <3>2, <3>3
    <2> QED BY <2>5, <2>7
  <1>8. ASSUME NEW k \in 1 .. n, NEW i \in 1 .. Len(s[k])
        PROVE  off[k - 1] + i \in 1 .. Len(fs) /\ fs[off[k - 1] + i] = s[k][i]
    <2>1. k \in 0 .. n /\ Len(s[k]) \in Nat /\ Q(n)
      BY <1>2, <1>3, <1>7
    <2>2. k \in 0 .. n /\ \A j \in 1 .. off[k] : fs[j] = f[k][j]
      BY <1>1, <2>1
    <2>3. off[k - 1] + i \in 1 .. off[k]
      <3>1. off[k] = off[k - 1] + Len(s[k]) /\ off[k - 1] \in Nat
        BY <1>6, Zenon
      <3> HIDE DEF Q
      <3> QED BY <2>1, <3>1
    <2>4. off[k] <= off[n] /\ off[k] \in Nat /\ off[n] \in Nat
      BY <1>3, <1>4, <2>1
    <2>5. off[k - 1] + i \in 1 .. Len(fs)
      <3> HIDE DEF Q
      <3> QED BY <1>5, <2>3, <2>4
    <2> QED BY <1>6, <2>2, <2>3, <2>5
  <1>9. ASSUME NEW j \in 1 .. Len(fs)
        PROVE  \E k \in 1 .. n : \E i \in 1 .. Len(s[k]) : j = off[k - 1] + i
    <2> DEFINE T == {k \in 0 .. n : j <= off[k]}
    <2>1. Len(fs) \in Nat /\ n \in T /\ T \in SUBSET Nat
      BY <1>3, <1>5, LenProperties
    <2>2. PICK k \in T : \A t \in T : k <= t
      <3> HIDE DEF T
      <3> QED BY <2>1, Least
    <2>3. k \in 1 .. n /\ j <= off[k]
      BY <1>5, <2>1, <2>2
    <2>4. ~(k <= k - 1) /\ k - 1 \in 0 .. n /\ ~(j <= off[k - 1])
      BY <1>6, <2>2, <2>3
    <2>5. off[k] = off[k - 1] + Len(s[k]) /\ off[k - 1] \in Nat /\ Len(s[k]) \in Nat
      BY <1>2, <1>6, <2>3
    <2> HIDE DEF T, Q
    <2>6. j - off[k - 1] \in 1 .. Len(s[k]) /\ j = off[k - 1] + (j - off[k - 1])
      <3>1. j \in Int /\ j <= off[k] /\ ~(j <= off[k - 1])
        BY <2>1, <2>3, <2>4
      <3> QED BY <2>5, <3>1
    <2> QED BY <2>3, <2>6
  <1>10. \A k \in 1 .. n :
            /\ off[k] = off[k - 1] + Len(s[k])
            /\ \A i \in 1 .. Len(s[k]) :
                  off[k - 1] + i \in 1 .. Len(fs) /\ fs[off[k - 1] + i] = s[k][i]
    BY <1>6, <1>8
  <1>11. \A j \in 1 .. Len(fs) : \E k \in 1 .. n : \E i \in 1 .. Len(s[k]) :
            j = off[k - 1] + i
    BY <1>9
  <1>12. \A m \in 0 .. n : \A k \in 0 .. m : off[k] <= off[m]
    BY <1>7
  <1>13. Laid(off, s)
    BY <1>4, <1>5, <1>10, <1>11, <1>12, Zenon DEF n, fs, Laid
  <1> QED
    BY <1>3, <1>13 DEF fs

-----------------------------------------------------------------------------
(* FoldLeft with a step that is a function of the value so far and the      *)
(* next element: it goes through the sequence from the first element on.    *)

\* Some of the numbers up to n, if there are any, have a greatest one.
LEMMA Greatest ==
    ASSUME NEW n \in Nat, NEW T \in SUBSET (1 .. n), T # {}
    PROVE  /\ Max(T) \in T /\ \A t \in T : t <= Max(T)
           /\ T \ {Max(T)} \in SUBSET (1 .. Max(T) - 1)
           /\ Max(T) \in 1 .. n /\ Max(T) - 1 \in 0 .. n
<1> DEFINE D == {n - t : t \in T}
<1>1. D \in SUBSET Nat /\ D # {}
  <2>1. \A t \in T : n - t \in Nat
    OBVIOUS
  <2> QED BY <2>1
<1>2. PICK d \in D : \A e \in D : d <= e
  <2> HIDE DEF D
  <2> QED BY <1>1, Least
<1>3. PICK m \in T : d = n - m
  OBVIOUS
<1>4. \A t \in T : m >= t
  <2>1. \A t \in T : n - m <= n - t /\ t \in Nat /\ m \in Nat
    BY <1>2, <1>3
  <2> QED BY <2>1
<1>5. Max(T) \in T /\ \A t \in T : Max(T) >= t
  BY <1>4 DEF Max
<1> DEFINE x == Max(T)
<1>6. x \in 1 .. n /\ \A t \in T : t \in 1 .. n /\ x >= t
  BY <1>5
<1> HIDE DEF x
<1>7. /\ \A t \in T : t <= x
      /\ T \ {x} \in SUBSET (1 .. x - 1)
      /\ x - 1 \in 0 .. n
  <2>1. \A t \in T : t <= x
    BY <1>6
  <2>2. \A t \in T \ {x} : t \in 1 .. x - 1
    BY <1>6
  <2> QED BY <1>6, <2>1, <2>2
<1> QED BY <1>5, <1>6, <1>7 DEF x

\* The first positions without the last of them.
LEMMA FirstPositions ==
    ASSUME NEW n \in Nat, NEW i \in 1 .. n
    PROVE  /\ (1 .. i) # {} /\ 1 .. i \in SUBSET (1 .. n) /\ Max(1 .. i) = i
           /\ (1 .. i) \ {Max(1 .. i)} = 1 .. i - 1
           /\ i \in 0 .. n /\ i - 1 \in 0 .. n
<1>1. i \in 1 .. i /\ \A t \in 1 .. i : t \in 1 .. n /\ i >= t
  OBVIOUS
<1>2. Max(1 .. i) \in 1 .. i /\ \A t \in 1 .. i : Max(1 .. i) >= t
  BY <1>1 DEF Max
<1> DEFINE m == Max(1 .. i)
<1>3. m \in 1 .. i /\ m >= i
  BY <1>1, <1>2
<1> HIDE DEF m
<1>4. m = i
  BY <1>3
<1>5. (1 .. i) \ {i} = 1 .. i - 1
  OBVIOUS
<1> QED BY <1>1, <1>4, <1>5 DEF m

\* FoldLeft is defined on the sets of positions, each without its greatest
\* one.
IsFold(g, F, base, s) ==
    \A t \in SUBSET (1 .. Len(s)) :
       g[t] = IF t = {} THEN base ELSE F[<<g[t \ {Max(t)}], s[Max(t)]>>]

\* Such a function exists.
LEMMA FoldExists ==
    ASSUME NEW S, NEW E, NEW base \in S, NEW F \in [S \X E -> S], NEW s \in Seq(E)
    PROVE  \E g \in [SUBSET (1 .. Len(s)) -> S] : IsFold(g, F, base, s)
<1> DEFINE n == Len(s)
           P(k) == \E g \in [SUBSET (1 .. k) -> S] : \A t \in SUBSET (1 .. k) :
                      g[t] = IF t = {} THEN base ELSE F[<<g[t \ {Max(t)}], s[Max(t)]>>]
           T == {k \in 0 .. n : ~P(k)}
<1>1. n \in Nat /\ \A i \in 1 .. n : s[i] \in E
  OBVIOUS
<1> HIDE DEF n
<1>2. P(0)
  <2> DEFINE g == [t \in SUBSET (1 .. 0) |-> base]
  <2>1. \A t \in SUBSET (1 .. 0) : t = {}
    OBVIOUS
  <2>2. g \in [SUBSET (1 .. 0) -> S] /\ \A t \in SUBSET (1 .. 0) : g[t] = base
    OBVIOUS
  <2> HIDE DEF g
  <2> QED BY <2>1, <2>2
<1>3. ASSUME NEW k \in 1 .. n, P(k - 1) PROVE P(k)
  <2>1. PICK g \in [SUBSET (1 .. k - 1) -> S] : \A t \in SUBSET (1 .. k - 1) :
           g[t] = IF t = {} THEN base ELSE F[<<g[t \ {Max(t)}], s[Max(t)]>>]
    BY <1>3
  <2> DEFINE h == [t \in SUBSET (1 .. k) |->
                     IF k \in t THEN F[<<g[t \ {k}], s[k]>>] ELSE g[t]]
  <2>2. k \in Nat /\ k \in 1 .. n /\ s[k] \in E
    BY <1>1
  <2>3. \A t \in SUBSET (1 .. k) : t \ {k} \in SUBSET (1 .. k - 1)
    BY <2>2
  <2>4. \A t \in SUBSET (1 .. k) : k \notin t => t \in SUBSET (1 .. k - 1)
    BY <2>3
  <2>5. \A t \in SUBSET (1 .. k) : F[<<g[t \ {k}], s[k]>>] \in S
    BY <2>1, <2>2, <2>3
  <2>6. /\ h \in [SUBSET (1 .. k) -> S]
        /\ \A t \in SUBSET (1 .. k) :
              h[t] = IF k \in t THEN F[<<g[t \ {k}], s[k]>>] ELSE g[t]
    BY <2>1, <2>4, <2>5
  <2> HIDE DEF h
  <2>7. ASSUME NEW t \in SUBSET (1 .. k)
        PROVE  h[t] = IF t = {} THEN base ELSE F[<<h[t \ {Max(t)}], s[Max(t)]>>]
    <3>1. CASE t = {}
      BY <2>1, <2>4, <2>6, <3>1
    <3>2. CASE t # {}
      <4> DEFINE m == Max(t)
      <4>1. m \in t /\ (\A u \in t : u <= m) /\ m \in 1 .. k
        BY <2>2, <3>2, Greatest
      <4> HIDE DEF m
      <4>2. k \notin t \ {m} /\ t \ {m} \in SUBSET (1 .. k)
        BY <2>2, <4>1
      <4>3. h[t \ {m}] = g[t \ {m}]
        BY <2>6, <4>2
      <4>4. CASE k \in t
        <5>1. m = k
          BY <2>2, <4>1, <4>4
        <5> QED BY <2>6, <3>2, <4>3, <4>4, <5>1 DEF m
      <4>5. CASE k \notin t
        <5>1. t \in SUBSET (1 .. k - 1)
          BY <2>4, <4>5
        <5>2. g[t] = F[<<g[t \ {m}], s[m]>>]
          BY <2>1, <3>2, <5>1 DEF m
        <5> QED BY <2>6, <3>2, <4>3, <4>5, <5>2 DEF m
      <4> QED BY <4>4, <4>5
    <3> QED BY <3>1, <3>2
  <2> QED BY <2>6, <2>7
<1> HIDE DEF P
<1>4. T = {}
  <2>1. SUFFICES ASSUME T # {} PROVE FALSE
    OBVIOUS
  <2>2. T \in SUBSET Nat
    OBVIOUS
  <2>3. PICK m \in T : \A t \in T : m <= t
    <3> HIDE DEF T
    <3> QED BY <2>1, <2>2, Least
  <2>4. m \in 1 .. n /\ ~(m <= m - 1) /\ m - 1 \in 0 .. n
    BY <1>1, <1>2, <2>3
  <2>5. P(m - 1)
    BY <2>3, <2>4
  <2> QED BY <1>3, <2>3, <2>4, <2>5
<1>5. P(n)
  BY <1>1, <1>4
<1> QED BY <1>5 DEF P, n, IsFold

\* Two functions on sets of positions, of which each value follows in the
\* same way from one on a smaller set, are the same on the first k.
LEMMA FoldSame ==
    ASSUME NEW n \in Nat, NEW f, NEW g, f[{}] = g[{}],
           \A t \in SUBSET (1 .. n) :
              t # {} /\ f[t \ {Max(t)}] = g[t \ {Max(t)}] => f[t] = g[t]
    PROVE  f[1 .. n] = g[1 .. n]
<1> DEFINE T == {k \in 0 .. n : f[1 .. k] # g[1 .. k]}
<1>1. T = {}
  <2>1. SUFFICES ASSUME T # {} PROVE FALSE
    OBVIOUS
  <2>2. T \in SUBSET Nat
    OBVIOUS
  <2>3. PICK m \in T : \A t \in T : m <= t
    <3> HIDE DEF T
    <3> QED BY <2>1, <2>2, Least
  <2>4. 1 .. 0 = {}
    OBVIOUS
  <2>5. m # 0
    BY <2>3, <2>4
  <2>6. m \in 1 .. n /\ m - 1 \in 0 .. n /\ ~(m <= m - 1)
    BY <2>3, <2>5
  <2>7. f[1 .. m - 1] = g[1 .. m - 1]
    BY <2>3, <2>6
  <2>8. (1 .. m) # {} /\ 1 .. m \in SUBSET (1 .. n) /\ (1 .. m) \ {Max(1 .. m)} = 1 .. m - 1
    BY <2>6, FirstPositions
  <2>9. f[1 .. m] = g[1 .. m]
    BY <2>7, <2>8
  <2> QED BY <2>3, <2>9
<1> QED BY <1>1

\* The values of such a loop, one after the other, and the last of them.
IsRun(f, F, base, s) ==
    /\ DOMAIN f = 0 .. Len(s) /\ f[0] = base
    /\ \A i \in 1 .. Len(s) : f[i] = F[<<f[i - 1], s[i]>>]
Result(F, base, s) == CHOOSE v : \E f : IsRun(f, F, base, s) /\ v = f[Len(s)]

\* There is but one.
LEMMA ResultIs ==
    ASSUME NEW F, NEW base, NEW s, Len(s) \in Nat, NEW f, IsRun(f, F, base, s)
    PROVE  Result(F, base, s) = f[Len(s)]
<1> DEFINE n == Len(s)
<1>1. ASSUME NEW h, IsRun(h, F, base, s) PROVE h[n] = f[n]
  <2> DEFINE T == {k \in 0 .. n : h[k] # f[k]}
  <2>1. T = {}
    <3>1. SUFFICES ASSUME T # {} PROVE FALSE
      OBVIOUS
    <3>2. T \in SUBSET Nat
      OBVIOUS
    <3>3. PICK m \in T : \A t \in T : m <= t
      <4> HIDE DEF T
      <4> QED BY <3>1, <3>2, Least
    <3>4. m \in 1 .. n /\ m - 1 \in 0 .. n /\ ~(m <= m - 1)
      BY <1>1, <3>3 DEF IsRun
    <3>5. h[m - 1] = f[m - 1]
      BY <3>3, <3>4
    <3> QED BY <1>1, <3>3, <3>4, <3>5 DEF IsRun
  <2> QED BY <2>1
<1>2. \E h : IsRun(h, F, base, s) /\ f[n] = h[n]
  OBVIOUS
<1>3. \A v : (\E h : IsRun(h, F, base, s) /\ v = h[n]) => v = f[n]
  BY <1>1
<1> HIDE DEF n
<1> QED BY <1>2, <1>3 DEF Result, n

\* What FoldLeft's function gives is the result of the loop.
LEMMA FoldResult ==
    ASSUME NEW F, NEW base, NEW s, Len(s) \in Nat, NEW g,
           IsFold(g, F, base, s)
    PROVE  g[1 .. Len(s)] = Result(F, base, s)
<1> DEFINE n == Len(s)
           f == [i \in 0 .. n |-> g[1 .. i]]
<1>1. f[0] = base
  <2>1. 1 .. 0 = {} /\ {} \in SUBSET (1 .. n) /\ 0 \in 0 .. n
    OBVIOUS
  <2> QED BY <2>1 DEF IsFold
<1>2. ASSUME NEW i \in 1 .. n PROVE f[i] = F[<<f[i - 1], s[i]>>]
  <2>1. /\ (1 .. i) # {} /\ 1 .. i \in SUBSET (1 .. n) /\ Max(1 .. i) = i
        /\ (1 .. i) \ {Max(1 .. i)} = 1 .. i - 1
        /\ i \in 0 .. n /\ i - 1 \in 0 .. n
    BY FirstPositions
  <2> QED BY <2>1 DEF IsFold
<1>3. IsRun(f, F, base, s)
  <2>1. DOMAIN f = 0 .. n
    OBVIOUS
  <2> HIDE DEF f
  <2> QED BY <1>1, <1>2, <2>1 DEF IsRun
<1>4. f[n] = g[1 .. n]
  OBVIOUS
<1> HIDE DEF f
<1> QED BY <1>3, <1>4, ResultIs

\* The result of nothing is the base.
LEMMA ResultNone ==
    ASSUME NEW F, NEW base
    PROVE  Result(F, base, <<>>) = base
<1> DEFINE h == [i \in 0 .. 0 |-> base]
<1>1. Len(<<>>) = 0 /\ IsRun(h, F, base, <<>>) /\ h[0] = base
  BY DEF IsRun
<1> HIDE DEF h
<1> QED BY <1>1, ResultIs

\* Such a loop always has a run.
LEMMA RunExists ==
    ASSUME NEW S, NEW E, NEW base \in S, NEW F \in [S \X E -> S], NEW s \in Seq(E)
    PROVE  \E f \in [0 .. Len(s) -> S] : IsRun(f, F, base, s)
<1> DEFINE n == Len(s)
<1>1. n \in Nat /\ \A i \in 1 .. n : s[i] \in E
  OBVIOUS
<1>2. \E f \in [0 .. n -> S] : IsRun(f, F, base, s)
  <2> DEFINE P(k) == \E f \in [0 .. k -> S] :
                        f[0] = base /\ \A i \in 1 .. k : f[i] = F[<<f[i - 1], s[i]>>]
             T == {k \in 0 .. n : ~P(k)}
  <2> HIDE DEF n
  <2>1. P(0)
    <3> DEFINE h == [i \in 0 .. 0 |-> base]
    <3>1. h \in [0 .. 0 -> S] /\ h[0] = base /\ 1 .. 0 = {}
      OBVIOUS
    <3> HIDE DEF h
    <3> QED BY <3>1
  <2>2. ASSUME NEW k \in 1 .. n, P(k - 1) PROVE P(k)
    <3>1. PICK f \in [0 .. k - 1 -> S] :
             f[0] = base /\ \A i \in 1 .. k - 1 : f[i] = F[<<f[i - 1], s[i]>>]
      BY <2>2
    <3> DEFINE h == [i \in 0 .. k |-> IF i = k THEN F[<<f[k - 1], s[k]>>] ELSE f[i]]
    <3>2. k \in Nat /\ k # 0 /\ k - 1 \in 0 .. k - 1 /\ s[k] \in E
      BY <1>1
    <3>3. F[<<f[k - 1], s[k]>>] \in S
      BY <3>1, <3>2
    <3>4. /\ h \in [0 .. k -> S] /\ h[k] = F[<<f[k - 1], s[k]>>]
          /\ \A i \in 0 .. k - 1 : h[i] = f[i]
      BY <3>1, <3>2, <3>3
    <3> HIDE DEF h
    <3>5. \A i \in 1 .. k : h[i] = F[<<h[i - 1], s[i]>>]
      <4> TAKE i \in 1 .. k
      <4>1. i - 1 \in 0 .. k - 1 /\ (i # k => i \in 1 .. k - 1)
        BY <3>2
      <4>2. h[i - 1] = f[i - 1]
        BY <3>4, <4>1
      <4>3. CASE i = k
        BY <3>4, <4>2, <4>3, Zenon
      <4>4. CASE i # k
        <5>1. i \in 1 .. k - 1 /\ i \in 0 .. k - 1
          BY <3>2, <4>1, <4>4
        <5> QED BY <3>1, <3>4, <4>2, <5>1, Zenon
      <4> QED BY <4>3, <4>4
    <3>6. h[0] = base
      BY <3>1, <3>2, <3>4
    <3> QED BY <3>4, <3>5, <3>6
  <2> HIDE DEF P
  <2>3. T = {}
    <3>1. SUFFICES ASSUME T # {} PROVE FALSE
      OBVIOUS
    <3>2. T \in SUBSET Nat
      OBVIOUS
    <3>3. PICK m \in T : \A t \in T : m <= t
      <4> HIDE DEF T
      <4> QED BY <3>1, <3>2, Least
    <3>4. m \in 1 .. n /\ ~(m <= m - 1) /\ m - 1 \in 0 .. n
      BY <1>1, <2>1, <3>3
    <3>5. P(m - 1)
      BY <3>3, <3>4
    <3> QED BY <2>2, <3>3, <3>4, <3>5
  <2>4. P(n)
    BY <1>1, <2>3
  <2> QED BY <2>4 DEF P, IsRun, n
<1> QED BY <1>2

\* Its result is of the values' kind.
LEMMA ResultType ==
    ASSUME NEW S, NEW E, NEW base \in S, NEW F \in [S \X E -> S], NEW s \in Seq(E)
    PROVE  Result(F, base, s) \in S
<1>1. PICK f \in [0 .. Len(s) -> S] : IsRun(f, F, base, s)
  BY RunExists
<1>2. Len(s) \in Nat /\ Len(s) \in 0 .. Len(s)
  OBVIOUS
<1> QED BY <1>1, <1>2, ResultIs

\* (A name of its own, as the provers use a statement with Result on both
\* sides of an equation only where it is folded.)
OneMore(F, base, s, x) ==
    Result(F, base, Append(s, x)) = F[<<Result(F, base, s), x>>]

\* One more element is one more step.
LEMMA ResultMore ==
    ASSUME NEW S, NEW E, NEW base \in S, NEW F \in [S \X E -> S], NEW s \in Seq(E), NEW x \in E
    PROVE  OneMore(F, base, s, x)
<1> DEFINE n == Len(s)
<1>1. n \in Nat /\ \A i \in 1 .. n : s[i] \in E
  OBVIOUS
<1>2. PICK f \in [0 .. n -> S] : IsRun(f, F, base, s)
  BY RunExists
<1>3. Result(F, base, s) = f[n]
  BY <1>1, <1>2, ResultIs
<1> DEFINE u == Append(s, x)
           h == [i \in 0 .. n + 1 |-> IF i = n + 1 THEN F[<<f[n], x>>] ELSE f[i]]
<1>4. Len(u) = n + 1 /\ u[n + 1] = x /\ \A i \in 1 .. n : u[i] = s[i]
  OBVIOUS
<1>5. /\ DOMAIN h = 0 .. n + 1 /\ h[n + 1] = F[<<f[n], x>>]
      /\ \A i \in 0 .. n : h[i] = f[i]
  BY <1>1
<1> HIDE DEF u, h, n
<1>6. ASSUME NEW i \in 1 .. n + 1 PROVE h[i] = F[<<h[i - 1], u[i]>>]
  <2>1. CASE i = n + 1
    <3>1. i - 1 = n /\ n \in 0 .. n
      BY <1>1, <2>1
    <3> QED BY <1>4, <1>5, <2>1, <3>1
  <2>2. CASE i # n + 1
    <3>1. i \in 1 .. n /\ i \in 0 .. n /\ i - 1 \in 0 .. n
      BY <1>1, <2>2
    <3> QED BY <1>2, <1>4, <1>5, <3>1 DEF IsRun, n
  <2> QED BY <2>1, <2>2
<1>7. h[0] = base
  BY <1>1, <1>2, <1>5 DEF IsRun
<1>8. IsRun(h, F, base, u)
  BY <1>4, <1>5, <1>6, <1>7 DEF IsRun
<1>9. Result(F, base, u) = h[n + 1]
  BY <1>1, <1>4, <1>8, ResultIs
<1> QED BY <1>3, <1>5, <1>9 DEF u, OneMore
=============================================================================

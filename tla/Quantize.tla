------------------------------ MODULE Quantize ------------------------------
(***************************************************************************)
(* storage.rs quantize: a reading is rounded to the mantissa bits storage  *)
(* keeps, half to even, by arithmetic on its f64 bit pattern.  A pattern   *)
(* is a number: sign, exponent and mantissa fields, widest place first.    *)
(* The widths of the fields are parameters, so that a small instance has   *)
(* every kind of pattern: zero, subnormals, ties, the carry into the next  *)
(* exponent, the largest finite values, infinities and NaNs, either sign.  *)
(***************************************************************************)
EXTENDS Integers

CONSTANTS
    Half,        \* 1 << (DROPPED - 1)
    Mantissas,   \* patterns of the mantissa field
    Exponents    \* finite exponents; one more is reserved

ASSUME QuantizeAssumption ==
    /\ Half \in Nat \ {0}
    /\ Exponents \in Nat \ {0}
    /\ \E kept \in 1 .. Mantissas : Mantissas = kept * (2 * Half)

Coarse   == 2 * Half                  \* 1 << DROPPED
Infinity == Exponents * Mantissas     \* the first pattern that is not finite
SignBit  == Infinity + Mantissas
Bits     == 0 .. 2 * SignBit - 1      \* what to_bits can return

IsFinite(b) == b % SignBit < Infinity
IsNaN(b)    == b % SignBit > Infinity

\* & (u64::MAX << DROPPED)
RoundDown(b) == b - (b % Coarse)

\* Half, less one when the low kept bit is 0: an exact tie goes to even.
\* (Mutant first: ties go away from zero.)
BiasAway(b) == Half
Bias(b)     == Half - 1 + ((b \div Coarse) % 2)

\* The addition wraps; a carry out of the mantissa raises the exponent.
\* Where that reaches infinity the value is truncated instead.
Quantize(b) ==
    LET rounded == RoundDown((b + Bias(b)) % (2 * SignBit))
    IN  IF ~IsFinite(b)      THEN b
        ELSE IF IsFinite(rounded) THEN rounded
        ELSE RoundDown(b)

-----------------------------------------------------------------------------

\* What the last bit of a mantissa is worth at an exponent, in units of the
\* smallest subnormal: the lowest two exponents share it, then it doubles.
Ulp[e \in 0 .. Exponents] == IF e <= 1 THEN 1 ELSE 2 * Ulp[e - 1]

\* The magnitude of a finite pattern, in the same units.
Magnitude(b) ==
    LET exponent == (b % SignBit) \div Mantissas
        mantissa == b % Mantissas
    IN  IF exponent = 0 THEN mantissa
        ELSE (Mantissas + mantissa) * Ulp[exponent]

Distance(b, c) ==
    LET d == Magnitude(b) - Magnitude(c) IN IF d < 0 THEN -d ELSE d

\* Whether q is what the comments of storage.rs promise for the reading b
\* (storage.rs:51-61, 71-100): of the finite patterns of the kept precision
\* and of b's sign the one nearest to b, of two equally near the one whose
\* mantissa is even; so q is within one part in 2^(kept + 1) of a normal b.
Rounds(b, q) ==
    LET Kept == {c \in Bits : /\ IsFinite(c)
                              /\ c % Coarse = 0
                              /\ c \div SignBit = b \div SignBit}
    IN  IF ~IsFinite(b) THEN q = b ELSE
        /\ q \in Kept
        /\ \A c \in Kept \ {q} :
              \/ Distance(b, q) < Distance(b, c)
              \/ Distance(b, q) = Distance(b, c) /\ (q \div Coarse) % 2 = 0
        /\ Magnitude(b) >= Mantissas
             => Distance(b, q) * ((2 * Mantissas) \div Coarse) <= Magnitude(b)
=============================================================================

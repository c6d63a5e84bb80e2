------------------------------ MODULE Decimals ------------------------------
(***************************************************************************)
(* The fixed-point arithmetic of the contracts.  cosmwasm_std's Decimal is *)
(* an unsigned integer numerator over 10^18; every product and quotient is *)
(* rounded down.  The contracts fix DECIMAL_FRACTIONAL at 10^9, so that    *)
(* Decimal's denominator is its square; the models keep that relation and  *)
(* leave the size of DECIMAL_FRACTIONAL a parameter.                       *)
(***************************************************************************)
EXTENDS Integers

CONSTANT DECIMAL_FRACTIONAL

ASSUME FractionalAssumption == DECIMAL_FRACTIONAL \in Nat \ {0}

\* Decimal::one(): the numerator that stands for 1.
ONE == DECIMAL_FRACTIONAL * DECIMAL_FRACTIONAL

\* Decimal::from_ratio(a, b), which panics when b is zero: the callers guard.
from_ratio(a, b) == (a * ONE) \div b

\* Uint128 * Decimal, rounded down.
mul(a, r) == (a * r) \div ONE

\* math.rs: a / r.  r is first cut to 9 digits; a zero there panics.
decimal_division(a, r) ==
  mul(DECIMAL_FRACTIONAL, from_ratio(a, mul(DECIMAL_FRACTIONAL, r)))

\* What SignedInt::from_subtraction(a, b).0 holds: the distance, sign aside.
distance(a, b) == IF a >= b THEN a - b ELSE b - a

smaller(a, b) == IF a <= b THEN a ELSE b
=============================================================================

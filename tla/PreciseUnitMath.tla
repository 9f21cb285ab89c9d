--------------------------- MODULE PreciseUnitMath ---------------------------
(***************************************************************************)
(* contracts/lib/PreciseUnitMath.sol: fixed-point arithmetic whose results *)
(* are rounded in a stated direction.  PreciseUnit is the code's           *)
(* PRECISE_UNIT, 10^18 on chain and any positive number here.  Operators   *)
(* ending in Int are the int256 overloads.                                 *)
(***************************************************************************)
EXTENDS Integers, Revert

CONSTANT PreciseUnit

ASSUME PreciseUnitAssumption == PreciseUnit \in Nat \ {0}

abs(a) == IF a >= 0 THEN a ELSE -a

\* SignedSafeMath's div: Solidity divides towards zero.
truncDiv(a, b) == IF (a >= 0) <=> (b > 0) THEN abs(a) \div abs(b) ELSE -(abs(a) \div abs(b))

\* Solidity's a % b is zero exactly when |b| divides |a|.
dividesEvenly(a, b) == abs(a) % abs(b) = 0

\* The sign bit of a ^ b: set when exactly one of them is negative.
signsDiffer(a, b) == (a < 0) # (b < 0)
-----------------------------------------------------------------------------
preciseMul(a, b) == (a * b) \div PreciseUnit

preciseMulInt(a, b) == truncDiv(a * b, PreciseUnit)

preciseMulCeil(a, b) == IF a = 0 \/ b = 0 THEN 0 ELSE (a * b - 1) \div PreciseUnit + 1

\* The remaining divisions revert when b = 0; callers test that first.
preciseDiv(a, b) == (a * PreciseUnit) \div b

preciseDivInt(a, b) == truncDiv(a * PreciseUnit, b)

preciseDivCeil(a, b) == IF a > 0 THEN (a * PreciseUnit - 1) \div b + 1 ELSE 0

\* Away from zero.
preciseDivCeilInt(a, b) ==
    LET c == truncDiv(a * PreciseUnit, b)
    IN  IF dividesEvenly(a * PreciseUnit, b) THEN c ELSE IF signsDiffer(a, b) THEN c - 1 ELSE c + 1

divDown(a, b) ==
    truncDiv(a, b) - (IF signsDiffer(a, b) /\ ~dividesEvenly(a, b) THEN 1 ELSE 0)

conservativePreciseMul(a, b) == divDown(a * b, PreciseUnit)

conservativePreciseDiv(a, b) == divDown(a * PreciseUnit, b)

\* a <= b.add(range) && a >= b.sub(range): the subtraction is only evaluated,
\* and only reverts on b < range, when the first comparison holds.
approximatelyEquals(a, b, range) ==
    IF a > b + range THEN {FALSE} ELSE Require(b >= range, a >= b - range)
=============================================================================

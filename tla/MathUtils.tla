------------------------------ MODULE MathUtils ------------------------------
(***************************************************************************)
(* utils/common/mathUtils.ts: the fixed-point arithmetic the tests expect  *)
(* results with, on ethers' BigNumber.  A BigNumber has any sign and size; *)
(* its div drops the fraction and its mod is never negative.  A division   *)
(* by zero throws: callers pass a divisor other than zero unless the       *)
(* operator says what happens.                                             *)
(***************************************************************************)
EXTENDS Integers

CONSTANT PreciseUnit

\* BigNumber's div.
quotient(a, b) ==
    LET magnitude(x) == IF x < 0 THEN -x ELSE x
        q == magnitude(a) \div magnitude(b)
    IN  IF (a < 0) = (b < 0) THEN q ELSE -q

sameSign(a, b) == (a > 0 /\ b > 0) \/ (a < 0 /\ b < 0)

preciseMul(a, b) == quotient(a * b, PreciseUnit)

preciseMulCeil(a, b) == IF a = 0 \/ b = 0 THEN 0 ELSE quotient(a * b - 1, PreciseUnit) + 1

\* Away from zero.
preciseMulCeilInt(a, b) ==
    IF a = 0 \/ b = 0 THEN 0
    ELSE IF sameSign(a, b) THEN quotient(a * b - 1, PreciseUnit) + 1
    ELSE quotient(a * b + 1, PreciseUnit) - 1

preciseDiv(a, b) == quotient(a * PreciseUnit, b)

\* A zero divisor gives zero.
preciseDivCeil(a, b) == IF a = 0 \/ b = 0 THEN 0 ELSE quotient(a * PreciseUnit - 1, b) + 1

\* Away from zero.
preciseDivCeilInt(a, b) ==
    LET result == quotient(a * PreciseUnit, b)
    IN  IF result * b = a * PreciseUnit THEN result
        ELSE IF sameSign(a, b) THEN result + 1 ELSE result - 1

divDown(a, b) ==
    quotient(a, b) - (IF \/ a < 0 /\ b > 0 /\ a % b # 0
                         \/ a > 0 /\ b < 0 /\ a % (-b) # 0 THEN 1 ELSE 0)

min(valueOne, valueTwo) == IF valueOne < valueTwo THEN valueOne ELSE valueTwo
=============================================================================

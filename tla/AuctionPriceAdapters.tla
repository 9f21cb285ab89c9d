------------------------ MODULE AuctionPriceAdapters ------------------------
(***************************************************************************)
(* The four price curves of contracts/protocol/integration/auction-price:  *)
(* constant, linear, exponential and logarithmic.  A configuration is the  *)
(* decoded priceAdapterConfigData; slope is kept under scalingFactor.      *)
(*                                                                         *)
(* Machine integers keep their width: products are compared against        *)
(* MaxUint before they are made, and the conversion to int256 wraps.       *)
(* expWad and lnWad stand for solady's FixedPointMathLib.                  *)
(***************************************************************************)
EXTENDS PreciseUnitMath

CONSTANTS UintBits,   \* width of uint256, 256 on chain
          MaxExpArg,  \* MAX_EXP_ARG, 100e18 on chain
          expWad,     \* solady expWad, a function on the int256 range up to MaxExpArg
          lnWad       \* solady lnWad, a function on the positive int256 range

\* The sign bit of an int256.
SignBit == 2 ^ (UintBits - 1)

MaxUint == 2 * SignBit - 1

MaxLogArg == 2 ^ (UintBits - 2) - 1

Words == (-SignBit) .. (SignBit - 1)

\* int256(x): reads the top bit of a uint256 as the sign.
toInt(x) == IF x < SignBit THEN x ELSE x - 2 * SignBit

\* uint256(x) of an int256.
toUint(x) == IF x >= 0 THEN x ELSE x + 2 * SignBit

\* An argument up to MaxLogArg leaves room for WAD, which is what it is for.
ASSUME WordAssumption ==
    SignBit \in Nat \ {0} /\ MaxLogArg \in Nat /\ MaxLogArg + PreciseUnit < SignBit

\* The curves answer in their machine types: e^x is never negative.
ASSUME CurvesAssumption ==
    /\ MaxExpArg \in Nat
    /\ \A x \in Words : x <= MaxExpArg => expWad[x] \in 0 .. MaxUint
    /\ \A x \in Words : x > 0 => lnWad[x] \in Words

smaller(a, b) == IF a <= b THEN a ELSE b

larger(a, b) == IF a >= b THEN a ELSE b

PriceConfig ==
    [adapter : {"constant", "linear", "exponential", "logarithmic"},
     initialPrice : Nat, scalingFactor : Nat, timeCoefficient : Nat, bucketSize : Nat,
     isDecreasing : BOOLEAN, maxPrice : Nat, minPrice : Nat]
-----------------------------------------------------------------------------
areParamsValid(p) ==
    IF p.adapter = "constant" THEN p.initialPrice > 0
    ELSE /\ p.initialPrice > 0
         /\ p.scalingFactor > 0
         /\ p.adapter # "linear" => p.timeCoefficient > 0
         /\ p.bucketSize > 0
         /\ p.minPrice <= p.initialPrice /\ p.initialPrice <= p.maxPrice

getBoundaryPrice(p) == IF p.isDecreasing THEN p.minPrice ELSE p.maxPrice

\* The guard against a price below zero gives up the change.
boundedPriceIgnoresUnderflow(p, priceChange) ==
    IF p.isDecreasing
    THEN IF priceChange > p.initialPrice THEN p.initialPrice
         ELSE larger(p.initialPrice - priceChange, p.minPrice)
    ELSE smaller(p.initialPrice + priceChange, p.maxPrice)

\* A falling price is not held at its minimum.
boundedPriceUnbounded(p, priceChange) ==
    IF p.isDecreasing
    THEN IF priceChange > p.initialPrice THEN p.minPrice ELSE p.initialPrice - priceChange
    ELSE smaller(p.initialPrice + priceChange, p.maxPrice)

\* initialPrice moved by priceChange and held at the bound it moves towards.
boundedPrice(p, priceChange) ==
    IF p.isDecreasing
    THEN IF priceChange > p.initialPrice THEN p.minPrice
         ELSE larger(p.initialPrice - priceChange, p.minPrice)
    ELSE IF priceChange > MaxUint - p.initialPrice THEN p.maxPrice
         ELSE smaller(p.initialPrice + priceChange, p.maxPrice)

timeBucket(p, elapsed) == elapsed \div p.bucketSize

linearPrice(p, elapsed) ==
    LET bucket == timeBucket(p, elapsed)
    IN  IF bucket > MaxUint \div p.scalingFactor THEN {getBoundaryPrice(p)}
        ELSE {boundedPrice(p, bucket * p.scalingFactor)}

\* Checked multiplication instead of the guard against priceChange overflow.
exponentialPriceUnguarded(p, elapsed) ==
    LET bucket == timeBucket(p, elapsed)
        expArgument == toInt(p.timeCoefficient * bucket)
        scaled == p.scalingFactor * expWad[expArgument]
    IN  IF bucket > MaxUint \div p.timeCoefficient THEN {getBoundaryPrice(p)}
        ELSE IF expArgument > MaxExpArg THEN {getBoundaryPrice(p)}
        ELSE Require(scaled <= MaxUint /\ scaled >= PreciseUnit,
                     boundedPrice(p, scaled - PreciseUnit))

\* An argument of 2^(UintBits - 1) or more turns negative and passes both
\* guards; where expWad is 0 the next division reverts, and so does the
\* checked subtraction of WAD.
exponentialPrice(p, elapsed) ==
    LET bucket == timeBucket(p, elapsed)
        expArgument == toInt(p.timeCoefficient * bucket)
        expExpression == expWad[expArgument]
        scaled == p.scalingFactor * expExpression
    IN  IF bucket > MaxUint \div p.timeCoefficient THEN {getBoundaryPrice(p)}
        ELSE IF expArgument > MaxExpArg THEN {getBoundaryPrice(p)}
        ELSE IF expExpression = 0 THEN {}
        ELSE IF p.scalingFactor > MaxUint \div expExpression THEN {getBoundaryPrice(p)}
        ELSE Require(scaled >= PreciseUnit, boundedPrice(p, scaled - PreciseUnit))

\* lnWad reverts on an argument that is not positive.
logarithmicPrice(p, elapsed) ==
    LET bucket == timeBucket(p, elapsed)
        lnArgument == toInt(p.timeCoefficient * bucket)
        lnExpression == toUint(lnWad[lnArgument + PreciseUnit])
    IN  IF bucket > MaxUint \div p.timeCoefficient THEN {getBoundaryPrice(p)}
        ELSE IF lnArgument > MaxLogArg THEN {getBoundaryPrice(p)}
        ELSE IF lnArgument + PreciseUnit <= 0 THEN {}
        ELSE IF lnExpression > MaxUint \div p.scalingFactor THEN {getBoundaryPrice(p)}
        ELSE {boundedPrice(p, p.scalingFactor * lnExpression)}

\* getPrice of whichever adapter the component is auctioned with.
getPrice(p, elapsed) ==
    IF ~areParamsValid(p) THEN {}
    ELSE CASE p.adapter = "constant" -> {p.initialPrice}
           [] p.adapter = "linear" -> linearPrice(p, elapsed)
           [] p.adapter = "exponential" -> exponentialPrice(p, elapsed)
           [] p.adapter = "logarithmic" -> logarithmicPrice(p, elapsed)
=============================================================================

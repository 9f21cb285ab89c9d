------------------------ MODULE AuctionPricesProofs ------------------------
(***************************************************************************)
(* Proofs about AuctionPrices, for every width of the machine integers,    *)
(* every configuration and every moment: a price stays within its bounds,  *)
(* is quoted, and moves one way only.                                      *)
(***************************************************************************)
EXTENDS AuctionPrices, PositionProofs

\* The range of a machine word.
LEMMA WordFacts == MaxUint \in Nat /\ SignBit \in Nat \ {0} /\ SignBit <= MaxUint
BY WordAssumption DEF MaxUint

\* A guard that divides before it multiplies tests for overflow exactly.
LEMMA OverflowGuard ==
    ASSUME NEW a \in Nat, NEW b \in Nat \ {0}, NEW max \in Nat
    PROVE  a > max \div b <=> a * b > max
<1>. DEFINE q == max \div b
<1>1. q \in Nat /\ q * b <= max /\ max < (q + 1) * b
  BY DivisionBrackets
<1>. HIDE DEF q
<1>2. CASE a <= q
  <2>1. a * b <= q * b /\ a * b \in Nat /\ q * b \in Nat
    BY <1>1, <1>2
  <2>. QED  BY <1>1, <1>2, <2>1 DEF q
<1>3. CASE a > q
  <2>1. (q + 1) * b <= a * b /\ a * b \in Nat /\ (q + 1) * b \in Nat
    BY <1>1, <1>3
  <2>. QED  BY <1>1, <1>3, <2>1 DEF q
<1>. QED  BY <1>1, <1>2, <1>3

\* Later moments fall into later buckets.
LEMMA BucketsGrow ==
    ASSUME NEW p \in PriceConfig, p.bucketSize > 0, NEW time \in Nat, NEW later \in Nat, time <= later
    PROVE  /\ timeBucket(p, time) \in Nat /\ timeBucket(p, later) \in Nat
           /\ timeBucket(p, time) <= timeBucket(p, later)
<1>. DEFINE b == p.bucketSize
            q == time \div b
            r == later \div b
<1>1. b \in Nat \ {0}
  BY DEF PriceConfig
<1>2. q \in Nat /\ q * b <= time
  BY <1>1, DivisionBrackets
<1>3. r \in Nat /\ later < (r + 1) * b
  BY <1>1, DivisionBrackets
<1>. HIDE DEF q, r, b
<1>4. ~(q > r)
  <2>. SUFFICES ASSUME q > r PROVE FALSE
    OBVIOUS
  <2>1. (r + 1) * b <= q * b /\ (r + 1) * b \in Nat /\ q * b \in Nat
    BY <1>1, <1>2, <1>3
  <2>. QED  BY <1>2, <1>3, <2>1
<1>. QED  BY <1>2, <1>3, <1>4 DEF timeBucket, q, r, b
-----------------------------------------------------------------------------
(* Within bounds. *)

InBounds(p, price) == price \in Nat /\ p.minPrice <= price /\ price <= p.maxPrice

Curved(p) == p \in PriceConfig /\ areParamsValid(p) /\ p.adapter # "constant"

\* The parameters of a curve that the checks of areParamsValid settle.
LEMMA CurvedFacts ==
    ASSUME NEW p, Curved(p)
    PROVE  /\ p.initialPrice \in Nat /\ p.minPrice \in Nat /\ p.maxPrice \in Nat
           /\ p.minPrice <= p.initialPrice /\ p.initialPrice <= p.maxPrice
           /\ p.scalingFactor \in Nat \ {0} /\ p.bucketSize \in Nat \ {0}
           /\ p.timeCoefficient \in Nat
           /\ p.adapter # "linear" => p.timeCoefficient \in Nat \ {0}
           /\ p.isDecreasing \in BOOLEAN
           /\ p.adapter \in {"linear", "exponential", "logarithmic"}
BY DEF Curved, PriceConfig, areParamsValid

\* Whatever the change, the price it leads to is held between the bounds.
LEMMA BoundedPriceInBounds ==
    ASSUME NEW p, Curved(p), NEW change \in Nat
    PROVE  InBounds(p, boundedPrice(p, change)) /\ InBounds(p, getBoundaryPrice(p))
<1>1. /\ p.initialPrice \in Nat /\ p.minPrice \in Nat /\ p.maxPrice \in Nat
      /\ p.minPrice <= p.initialPrice /\ p.initialPrice <= p.maxPrice
      /\ p.isDecreasing \in BOOLEAN
  BY CurvedFacts
<1>2. InBounds(p, getBoundaryPrice(p))
  BY <1>1 DEF InBounds, getBoundaryPrice
<1>3. ASSUME p.isDecreasing PROVE InBounds(p, boundedPrice(p, change))
  BY <1>1, <1>3 DEF InBounds, boundedPrice, larger
<1>4. ASSUME ~p.isDecreasing PROVE InBounds(p, boundedPrice(p, change))
  BY <1>1, <1>4, WordFacts DEF InBounds, boundedPrice, smaller
<1>. QED  BY <1>2, <1>3, <1>4

\* The larger the change, the nearer the price is to its bound.
Towards(p, before, after) == IF p.isDecreasing THEN after <= before ELSE after >= before

\* A larger change leads at least as far.
LEMMA LargerChangeMoves ==
    ASSUME NEW p, Curved(p), NEW change \in Nat, NEW farther \in Nat, change <= farther
    PROVE  Towards(p, boundedPrice(p, change), boundedPrice(p, farther))
<1>1. /\ p.initialPrice \in Nat /\ p.minPrice \in Nat /\ p.maxPrice \in Nat
      /\ p.minPrice <= p.initialPrice /\ p.initialPrice <= p.maxPrice
      /\ p.isDecreasing \in BOOLEAN
  BY CurvedFacts
<1>2. CASE p.isDecreasing
  BY <1>1, <1>2 DEF Towards, boundedPrice, larger
<1>3. CASE ~p.isDecreasing
  BY <1>1, <1>3, WordFacts DEF Towards, boundedPrice, smaller
<1>. QED  BY <1>1, <1>2, <1>3

\* What an adapter can quote: nothing, the bound, or initialPrice moved.
AtBound(quote, p) == quote = {getBoundaryPrice(p)}

Changed(quote, p, change) == change \in Nat /\ quote = {boundedPrice(p, change)}

\* What a curve answers for the bucket and for its own argument: e is the
\* value of expWad there, l that of lnWad read as unsigned.
exponentialQuote(p, x, e) ==
    IF x > MaxUint THEN {getBoundaryPrice(p)}
    ELSE IF toInt(x) > MaxExpArg THEN {getBoundaryPrice(p)}
    ELSE IF e = 0 THEN {}
    ELSE IF p.scalingFactor * e > MaxUint THEN {getBoundaryPrice(p)}
    ELSE IF p.scalingFactor * e >= PreciseUnit
         THEN {boundedPrice(p, p.scalingFactor * e - PreciseUnit)} ELSE {}

logarithmicQuote(p, x, l) ==
    IF x > MaxUint THEN {getBoundaryPrice(p)}
    ELSE IF toInt(x) > MaxLogArg THEN {getBoundaryPrice(p)}
    ELSE IF toInt(x) + PreciseUnit <= 0 THEN {}
    ELSE IF p.scalingFactor * l > MaxUint THEN {getBoundaryPrice(p)}
    ELSE {boundedPrice(p, p.scalingFactor * l)}

\* The linear curve: the bound once the product overflows, else the price changed
\* by the product.
LEMMA LinearForm ==
    ASSUME NEW p, Curved(p), p.adapter = "linear", NEW time \in Nat
    PROVE  LET bucket == timeBucket(p, time)
           IN  /\ bucket \in Nat /\ p.scalingFactor * bucket \in Nat
               /\ getPrice(p, time) = IF p.scalingFactor * bucket > MaxUint THEN {getBoundaryPrice(p)}
                                      ELSE {boundedPrice(p, p.scalingFactor * bucket)}
<1>. DEFINE bucket == timeBucket(p, time)
            s == p.scalingFactor
<1>1. s \in Nat \ {0} /\ p.bucketSize > 0 /\ p \in PriceConfig /\ areParamsValid(p)
  BY CurvedFacts DEF Curved
<1>2. bucket \in Nat
  BY <1>1, BucketsGrow
<1>3. getPrice(p, time) = linearPrice(p, time)
  BY <1>1 DEF getPrice
<1>4. linearPrice(p, time) = IF bucket > MaxUint \div s THEN {getBoundaryPrice(p)}
                             ELSE {boundedPrice(p, bucket * s)}
  BY DEF linearPrice
<1>. HIDE DEF bucket, s
<1>5. bucket > MaxUint \div s <=> bucket * s > MaxUint
  BY <1>1, <1>2, OverflowGuard, WordFacts
<1>6. bucket * s = s * bucket /\ s * bucket \in Nat
  BY <1>1, <1>2
<1>. QED  BY <1>2, <1>3, <1>4, <1>5, <1>6 DEF bucket, s

\* A word the conversion can make of an argument that passed its guard.
LEMMA ArgumentIsWord ==
    ASSUME NEW x \in Nat, ~(x > MaxUint)
    PROVE  toInt(x) \in Words /\ toInt(x) \in Int /\ (x < SignBit => toInt(x) = x)
BY WordFacts DEF toInt, Words, MaxUint

\* The exponential curve, its argument and its quote apart.
LEMMA ExponentialForm ==
    ASSUME NEW p, Curved(p), p.adapter = "exponential", NEW time \in Nat
    PROVE  LET x == p.timeCoefficient * timeBucket(p, time)
               e == expWad[toInt(x)]
           IN  /\ x \in Nat
               /\ ~(x > MaxUint) /\ ~(toInt(x) > MaxExpArg) => e \in Nat
               /\ getPrice(p, time) = exponentialQuote(p, x, e)
<1>. DEFINE bucket == timeBucket(p, time)
            k == p.timeCoefficient
            s == p.scalingFactor
            x == k * bucket
            e == expWad[toInt(x)]
<1>1. /\ s \in Nat \ {0} /\ p.bucketSize > 0 /\ p \in PriceConfig /\ areParamsValid(p)
      /\ k \in Nat \ {0}
  BY CurvedFacts DEF Curved
<1>2. bucket \in Nat
  BY <1>1, BucketsGrow
<1>3. getPrice(p, time) = exponentialPrice(p, time)
  BY <1>1 DEF getPrice
<1>4. exponentialPrice(p, time) =
          IF bucket > MaxUint \div k THEN {getBoundaryPrice(p)}
          ELSE IF toInt(x) > MaxExpArg THEN {getBoundaryPrice(p)}
          ELSE IF e = 0 THEN {}
          ELSE IF s > MaxUint \div e THEN {getBoundaryPrice(p)}
          ELSE IF s * e >= PreciseUnit THEN {boundedPrice(p, s * e - PreciseUnit)} ELSE {}
  BY DEF exponentialPrice, Require
<1>. HIDE DEF bucket, k, s
<1>5. bucket > MaxUint \div k <=> bucket * k > MaxUint
  BY <1>1, <1>2, OverflowGuard, WordFacts
<1>6. bucket * k = x /\ x \in Nat
  BY <1>1, <1>2
<1>. HIDE DEF x
<1>7. ~(x > MaxUint) /\ ~(toInt(x) > MaxExpArg) => e \in Nat
  <2>. SUFFICES ASSUME ~(x > MaxUint), ~(toInt(x) > MaxExpArg) PROVE e \in Nat
    OBVIOUS
  <2>1. toInt(x) \in Words /\ toInt(x) \in Int
    BY <1>6, ArgumentIsWord
  <2>2. toInt(x) <= MaxExpArg
    BY <2>1, CurvesAssumption
  <2>3. e \in 0 .. MaxUint
    BY <2>1, <2>2, CurvesAssumption
  <2>. QED  BY <2>3, WordFacts
<1>. HIDE DEF e
<1>8. e \in Nat /\ e # 0 => (s > MaxUint \div e <=> s * e > MaxUint)
  BY <1>1, OverflowGuard, WordFacts
<1>9. getPrice(p, time) =
          IF x > MaxUint THEN {getBoundaryPrice(p)}
          ELSE IF toInt(x) > MaxExpArg THEN {getBoundaryPrice(p)}
          ELSE IF e = 0 THEN {}
          ELSE IF s * e > MaxUint THEN {getBoundaryPrice(p)}
          ELSE IF s * e >= PreciseUnit THEN {boundedPrice(p, s * e - PreciseUnit)} ELSE {}
  BY <1>3, <1>4, <1>5, <1>6, <1>7, <1>8
<1>10. getPrice(p, time) = exponentialQuote(p, x, e)
  BY <1>9 DEF exponentialQuote, s
<1>. QED  BY <1>6, <1>7, <1>10 DEF x, e, k, bucket

\* The logarithmic curve, its argument and its quote apart.
LEMMA LogarithmicForm ==
    ASSUME NEW p, Curved(p), p.adapter = "logarithmic", NEW time \in Nat
    PROVE  LET x == p.timeCoefficient * timeBucket(p, time)
               l == toUint(lnWad[toInt(x) + PreciseUnit])
           IN  /\ x \in Nat
               /\ ~(x > MaxUint) /\ ~(toInt(x) > MaxLogArg) /\ ~(toInt(x) + PreciseUnit <= 0)
                      => l \in Nat
               /\ getPrice(p, time) = logarithmicQuote(p, x, l)
<1>. DEFINE bucket == timeBucket(p, time)
            k == p.timeCoefficient
            s == p.scalingFactor
            x == k * bucket
            y == toInt(x) + PreciseUnit
            l == toUint(lnWad[y])
<1>1. /\ s \in Nat \ {0} /\ p.bucketSize > 0 /\ p \in PriceConfig /\ areParamsValid(p)
      /\ k \in Nat \ {0}
  BY CurvedFacts DEF Curved
<1>2. bucket \in Nat
  BY <1>1, BucketsGrow
<1>3. getPrice(p, time) = logarithmicPrice(p, time)
  BY <1>1 DEF getPrice
<1>4. logarithmicPrice(p, time) =
          IF bucket > MaxUint \div k THEN {getBoundaryPrice(p)}
          ELSE IF toInt(x) > MaxLogArg THEN {getBoundaryPrice(p)}
          ELSE IF y <= 0 THEN {}
          ELSE IF l > MaxUint \div s THEN {getBoundaryPrice(p)}
          ELSE {boundedPrice(p, s * l)}
  BY DEF logarithmicPrice
<1>. HIDE DEF bucket, k, s
<1>5. bucket > MaxUint \div k <=> bucket * k > MaxUint
  BY <1>1, <1>2, OverflowGuard, WordFacts
<1>6. bucket * k = x /\ x \in Nat
  BY <1>1, <1>2
<1>. HIDE DEF x
<1>7. ~(x > MaxUint) /\ ~(toInt(x) > MaxLogArg) /\ ~(y <= 0) => l \in Nat
  <2>. SUFFICES ASSUME ~(x > MaxUint), ~(toInt(x) > MaxLogArg), ~(y <= 0) PROVE l \in Nat
    OBVIOUS
  <2>1. toInt(x) \in Words /\ toInt(x) \in Int
    BY <1>6, ArgumentIsWord
  <2>2. y \in Words /\ y > 0
    BY <2>1, WordAssumption, PreciseUnitAssumption DEF Words
  <2>. HIDE DEF y
  <2>3. lnWad[y] \in Words
    BY <2>2, CurvesAssumption
  <2>. QED  BY <2>3, WordAssumption DEF Words, toUint
<1>. HIDE DEF l
<1>8. l \in Nat => (l > MaxUint \div s <=> l * s > MaxUint)
  BY <1>1, OverflowGuard, WordFacts
<1>9. l \in Nat => l * s = s * l
  BY <1>1
<1>. HIDE DEF y
<1>10. getPrice(p, time) =
          IF x > MaxUint THEN {getBoundaryPrice(p)}
          ELSE IF toInt(x) > MaxLogArg THEN {getBoundaryPrice(p)}
          ELSE IF y <= 0 THEN {}
          ELSE IF s * l > MaxUint THEN {getBoundaryPrice(p)}
          ELSE {boundedPrice(p, s * l)}
  BY <1>3, <1>4, <1>5, <1>6, <1>7, <1>8, <1>9
<1>11. getPrice(p, time) = logarithmicQuote(p, x, l)
  BY <1>10 DEF logarithmicQuote, s, y
<1>. QED  BY <1>6, <1>7, <1>11 DEF x, l, k, bucket, y

\* Whatever a curve quotes is the bound or initialPrice moved by a change,
\* also where the argument has wrapped around.
LEMMA CurveForm ==
    ASSUME NEW p, Curved(p), NEW time \in Nat
    PROVE  \/ getPrice(p, time) = {}
           \/ AtBound(getPrice(p, time), p)
           \/ \E change \in Nat : Changed(getPrice(p, time), p, change)
<1>1. p.adapter \in {"linear", "exponential", "logarithmic"} /\ p.scalingFactor \in Nat
  BY CurvedFacts
<1>2. CASE p.adapter = "linear"
  BY <1>2, LinearForm DEF AtBound, Changed
<1>3. CASE p.adapter = "exponential"
  <2>. DEFINE x == p.timeCoefficient * timeBucket(p, time)
              e == expWad[toInt(x)]
              scaled == p.scalingFactor * e
  <2>1. /\ ~(x > MaxUint) /\ ~(toInt(x) > MaxExpArg) => e \in Nat
        /\ getPrice(p, time) = exponentialQuote(p, x, e)
    BY <1>3, ExponentialForm
  <2>. HIDE DEF x, e
  <2>2. e \in Nat => scaled \in Nat
    BY <1>1
  <2>. HIDE DEF scaled
  <2>3. scaled \in Nat /\ scaled >= PreciseUnit => scaled - PreciseUnit \in Nat
    BY PreciseUnitAssumption
  <2>. QED  BY <2>1, <2>2, <2>3 DEF exponentialQuote, scaled, AtBound, Changed
<1>4. CASE p.adapter = "logarithmic"
  <2>. DEFINE x == p.timeCoefficient * timeBucket(p, time)
              l == toUint(lnWad[toInt(x) + PreciseUnit])
              scaled == p.scalingFactor * l
  <2>1. /\ ~(x > MaxUint) /\ ~(toInt(x) > MaxLogArg) /\ ~(toInt(x) + PreciseUnit <= 0) => l \in Nat
        /\ getPrice(p, time) = logarithmicQuote(p, x, l)
    BY <1>4, LogarithmicForm
  <2>. HIDE DEF x, l
  <2>2. l \in Nat => scaled \in Nat
    BY <1>1
  <2>. HIDE DEF scaled
  <2>. QED  BY <2>1, <2>2 DEF logarithmicQuote, scaled, AtBound, Changed
<1>. QED  BY <1>1, <1>2, <1>3, <1>4

\* Every form of every curve quotes within the bounds.
LEMMA CurveInBounds ==
    ASSUME NEW p, Curved(p), NEW time \in Nat, NEW price \in getPrice(p, time)
    PROVE  InBounds(p, price)
<1>1. CASE AtBound(getPrice(p, time), p)
  <2>1. InBounds(p, getBoundaryPrice(p))
    BY BoundedPriceInBounds
  <2>. QED  BY <1>1, <2>1 DEF AtBound
<1>2. ASSUME NEW change \in Nat, Changed(getPrice(p, time), p, change) PROVE InBounds(p, price)
  <2>1. InBounds(p, boundedPrice(p, change))
    BY BoundedPriceInBounds
  <2>. QED  BY <1>2, <2>1 DEF Changed
<1>. QED  BY <1>1, <1>2, CurveForm
-----------------------------------------------------------------------------
(* Over time. *)

Fits(p, time) ==
    p.adapter \in {"exponential", "logarithmic"} =>
        p.timeCoefficient * timeBucket(p, time) < SignBit

\* Between two moments, the later of which fits, a curve either has reached
\* its bound or moves its initialPrice by no less than before.
Onward(p, time, later) ==
    \/ AtBound(getPrice(p, later), p)
    \/ \E change \in Nat, farther \in Nat :
           /\ change <= farther
           /\ Changed(getPrice(p, time), p, change)
           /\ Changed(getPrice(p, later), p, farther)

\* The argument grows with the bucket.
LEMMA ArgumentsGrow ==
    ASSUME NEW p, Curved(p), NEW time \in Nat, NEW later \in Nat, time <= later, NEW k \in Nat
    PROVE  /\ k * timeBucket(p, time) \in Nat /\ k * timeBucket(p, later) \in Nat
           /\ k * timeBucket(p, time) <= k * timeBucket(p, later)
<1>. DEFINE b == timeBucket(p, time)
            c == timeBucket(p, later)
<1>1. b \in Nat /\ c \in Nat /\ b <= c
  BY BucketsGrow, CurvedFacts DEF Curved
<1>. HIDE DEF b, c
<1>2. k * b \in Nat /\ k * c \in Nat /\ k * b <= k * c
  BY <1>1
<1>. QED  BY <1>2 DEF b, c

\* The linear curve never turns back.
LEMMA LinearOnward ==
    ASSUME NEW p, Curved(p), p.adapter = "linear",
           NEW time \in Nat, NEW later \in Nat, time <= later
    PROVE  Onward(p, time, later)
<1>. DEFINE x == p.scalingFactor * timeBucket(p, time)
            y == p.scalingFactor * timeBucket(p, later)
<1>1. x \in Nat /\ y \in Nat /\ x <= y
  BY ArgumentsGrow, CurvedFacts
<1>2. getPrice(p, time) = IF x > MaxUint THEN {getBoundaryPrice(p)} ELSE {boundedPrice(p, x)}
  BY LinearForm
<1>3. getPrice(p, later) = IF y > MaxUint THEN {getBoundaryPrice(p)} ELSE {boundedPrice(p, y)}
  BY LinearForm
<1>. HIDE DEF x, y
<1>4. CASE y > MaxUint
  BY <1>3, <1>4 DEF Onward, AtBound
<1>5. CASE ~(y > MaxUint)
  <2>1. ~(x > MaxUint)
    BY <1>1, <1>5, WordFacts
  <2>2. Changed(getPrice(p, time), p, x) /\ Changed(getPrice(p, later), p, y)
    BY <1>1, <1>2, <1>3, <1>5, <2>1 DEF Changed
  <2>. QED  BY <1>1, <2>2 DEF Onward
<1>. QED  BY <1>4, <1>5

\* Nor does the exponential one, as long as its argument fits.
LEMMA ExponentialOnward ==
    ASSUME NEW p, Curved(p), p.adapter = "exponential",
           NEW time \in Nat, NEW later \in Nat, time <= later, Fits(p, later)
    PROVE  Onward(p, time, later)
<1>. DEFINE x == p.timeCoefficient * timeBucket(p, time)
            y == p.timeCoefficient * timeBucket(p, later)
            s == p.scalingFactor
            d == expWad[toInt(x)]
            e == expWad[toInt(y)]
<1>1. x \in Nat /\ y \in Nat /\ x <= y /\ s \in Nat \ {0}
  BY ArgumentsGrow, CurvedFacts
<1>2. y < SignBit
  BY DEF Fits
<1>3. getPrice(p, time) = exponentialQuote(p, x, d) /\ getPrice(p, later) = exponentialQuote(p, y, e)
  BY ExponentialForm
<1>. HIDE DEF x, y
<1>4. ~(x > MaxUint) /\ ~(y > MaxUint) /\ toInt(x) = x /\ toInt(y) = y /\ x \in Words /\ y \in Words
  BY <1>1, <1>2, WordFacts, ArgumentIsWord DEF Words
<1>5. CASE y > MaxExpArg
  BY <1>3, <1>4, <1>5 DEF exponentialQuote, Onward, AtBound
<1>6. CASE ~(y > MaxExpArg)
  <2>1. ~(x > MaxExpArg) /\ x <= MaxExpArg /\ y <= MaxExpArg
    BY <1>1, <1>6, CurvesAssumption
  <2>2. d = expWad[x] /\ e = expWad[y] /\ d \in 0 .. MaxUint /\ e \in 0 .. MaxUint
    BY <1>4, <2>1, CurvesAssumption
  <2>3. PreciseUnit <= d /\ d <= e
    <3>1. 0 \in Words
      BY WordFacts DEF Words
    <3>2. expWad[0] <= expWad[x] /\ expWad[x] <= expWad[y]
      BY <1>1, <1>4, <2>1, <3>1, PricesAssumption
    <3>. QED  BY <2>2, <3>2, PricesAssumption
  <2>4. d \in Nat \ {0} /\ e \in Nat \ {0}
    BY <2>2, <2>3, WordFacts, PreciseUnitAssumption
  <2>. HIDE DEF d, e, s
  <2>5. s * d \in Nat /\ s * e \in Nat /\ s * d <= s * e /\ d <= s * d
    BY <1>1, <2>3, <2>4
  <2>. DEFINE v == s * d
              w == s * e
  <2>6. getPrice(p, time) = IF v > MaxUint THEN {getBoundaryPrice(p)}
                            ELSE IF v >= PreciseUnit THEN {boundedPrice(p, v - PreciseUnit)} ELSE {}
    BY <1>3, <1>4, <2>1, <2>4 DEF exponentialQuote, s
  <2>7. getPrice(p, later) = IF w > MaxUint THEN {getBoundaryPrice(p)}
                             ELSE IF w >= PreciseUnit THEN {boundedPrice(p, w - PreciseUnit)} ELSE {}
    BY <1>3, <1>4, <1>6, <2>4 DEF exponentialQuote, s
  <2>8. v \in Nat /\ w \in Nat /\ v <= w /\ PreciseUnit <= v
    BY <2>3, <2>4, <2>5, PreciseUnitAssumption
  <2>. HIDE DEF v, w
  <2>9. CASE w > MaxUint
    BY <2>7, <2>9 DEF Onward, AtBound
  <2>10. CASE ~(w > MaxUint)
    <3>1. ~(v > MaxUint) /\ v >= PreciseUnit /\ w >= PreciseUnit
      BY <2>8, <2>10, WordFacts, PreciseUnitAssumption
    <3>2. /\ v - PreciseUnit \in Nat /\ w - PreciseUnit \in Nat
          /\ v - PreciseUnit <= w - PreciseUnit
      BY <2>8, <3>1, PreciseUnitAssumption
    <3>3. /\ Changed(getPrice(p, time), p, v - PreciseUnit)
          /\ Changed(getPrice(p, later), p, w - PreciseUnit)
      BY <2>6, <2>7, <2>10, <3>1, <3>2 DEF Changed
    <3>. QED  BY <3>2, <3>3 DEF Onward
  <2>. QED  BY <2>9, <2>10
<1>. QED  BY <1>5, <1>6

\* Nor the logarithmic one.
LEMMA LogarithmicOnward ==
    ASSUME NEW p, Curved(p), p.adapter = "logarithmic",
           NEW time \in Nat, NEW later \in Nat, time <= later, Fits(p, later)
    PROVE  Onward(p, time, later)
<1>. DEFINE x == p.timeCoefficient * timeBucket(p, time)
            y == p.timeCoefficient * timeBucket(p, later)
            s == p.scalingFactor
            d == toUint(lnWad[toInt(x) + PreciseUnit])
            e == toUint(lnWad[toInt(y) + PreciseUnit])
<1>1. x \in Nat /\ y \in Nat /\ x <= y /\ s \in Nat \ {0}
  BY ArgumentsGrow, CurvedFacts
<1>2. y < SignBit
  BY DEF Fits
<1>3. getPrice(p, time) = logarithmicQuote(p, x, d) /\ getPrice(p, later) = logarithmicQuote(p, y, e)
  BY LogarithmicForm
<1>. HIDE DEF x, y
<1>4. ~(x > MaxUint) /\ ~(y > MaxUint) /\ toInt(x) = x /\ toInt(y) = y /\ x \in Words /\ y \in Words
  BY <1>1, <1>2, WordFacts, ArgumentIsWord DEF Words
<1>5. CASE y > MaxLogArg
  BY <1>3, <1>4, <1>5 DEF logarithmicQuote, Onward, AtBound
<1>6. CASE ~(y > MaxLogArg)
  <2>. DEFINE i == x + PreciseUnit
              j == y + PreciseUnit
  <2>1. /\ ~(x > MaxLogArg) /\ i \in Words /\ j \in Words /\ PreciseUnit \in Words
        /\ 0 < PreciseUnit /\ PreciseUnit <= i /\ i <= j /\ i > 0 /\ j > 0
        /\ ~(i <= 0) /\ ~(j <= 0)
    BY <1>1, <1>4, <1>6, WordAssumption, PreciseUnitAssumption DEF Words
  <2>2. d = toUint(lnWad[i]) /\ e = toUint(lnWad[j])
    BY <1>4
  <2>3. ~(toInt(x) + PreciseUnit <= 0) /\ ~(toInt(y) + PreciseUnit <= 0)
    BY <1>4, <2>1
  <2>. HIDE DEF i, j, d, e, s
  <2>4. lnWad[i] \in Words /\ lnWad[j] \in Words
    BY <2>1, CurvesAssumption
  <2>5. lnWad[PreciseUnit] <= lnWad[i]
    BY <2>1, PricesAssumption
  <2>6. lnWad[i] <= lnWad[j]
    BY <2>1, PricesAssumption DEF Words
  <2>7. d \in Nat /\ e \in Nat /\ d <= e
    BY <2>2, <2>4, <2>5, <2>6, PricesAssumption, WordFacts DEF toUint, Words
  <2>. DEFINE v == s * d
              w == s * e
  <2>8. v \in Nat /\ w \in Nat /\ v <= w
    BY <1>1, <2>7
  <2>9. getPrice(p, time) = IF v > MaxUint THEN {getBoundaryPrice(p)} ELSE {boundedPrice(p, v)}
    BY <1>3, <1>4, <2>1, <2>3 DEF logarithmicQuote, s
  <2>10. getPrice(p, later) = IF w > MaxUint THEN {getBoundaryPrice(p)} ELSE {boundedPrice(p, w)}
    BY <1>3, <1>4, <1>6, <2>3 DEF logarithmicQuote, s
  <2>. HIDE DEF v, w
  <2>11. CASE w > MaxUint
    BY <2>10, <2>11 DEF Onward, AtBound
  <2>12. CASE ~(w > MaxUint)
    <3>1. ~(v > MaxUint)
      BY <2>8, <2>12, WordFacts
    <3>2. Changed(getPrice(p, time), p, v) /\ Changed(getPrice(p, later), p, w)
      BY <2>8, <2>9, <2>10, <2>12, <3>1 DEF Changed
    <3>. QED  BY <2>8, <3>2 DEF Onward
  <2>. QED  BY <2>11, <2>12
<1>. QED  BY <1>5, <1>6

\* So no curve does.
LEMMA CurveOnward ==
    ASSUME NEW p, Curved(p), NEW time \in Nat, NEW later \in Nat, time <= later, Fits(p, later)
    PROVE  Onward(p, time, later)
BY CurvedFacts, LinearOnward, ExponentialOnward, LogarithmicOnward

\* A later quote is never farther from the bound.
LEMMA CurveMovesOneWay ==
    ASSUME NEW p, Curved(p), NEW time \in Nat, NEW later \in Nat, time <= later, Fits(p, later),
           NEW before \in getPrice(p, time), NEW after \in getPrice(p, later)
    PROVE  Towards(p, before, after)
<1>1. InBounds(p, before)
  BY CurveInBounds
<1>2. CASE AtBound(getPrice(p, later), p)
  <2>1. after = getBoundaryPrice(p)
    BY <1>2 DEF AtBound
  <2>2. p.minPrice \in Nat /\ p.maxPrice \in Nat
    BY CurvedFacts
  <2>. QED  BY <1>1, <2>1, <2>2 DEF InBounds, getBoundaryPrice, Towards
<1>3. ASSUME NEW change \in Nat, NEW farther \in Nat, change <= farther,
             Changed(getPrice(p, time), p, change), Changed(getPrice(p, later), p, farther)
      PROVE  Towards(p, before, after)
  <2>1. before = boundedPrice(p, change) /\ after = boundedPrice(p, farther)
    BY <1>3 DEF Changed
  <2>. QED  BY <1>3, <2>1, LargerChangeMoves
<1>. QED  BY <1>2, <1>3, CurveOnward DEF Onward

\* A configuration that the checks let through and a moment that fits always
\* get an answer.
LEMMA CurveQuoted ==
    ASSUME NEW p, Curved(p), NEW time \in Nat, Fits(p, time)
    PROVE  getPrice(p, time) # {}
<1>1. Onward(p, time, time)
  BY CurveOnward
<1>. QED  BY <1>1 DEF Onward, AtBound, Changed
-----------------------------------------------------------------------------
(* The specification. *)

PriceInv == config \in PriceConfig /\ areParamsValid(config) /\ elapsed \in Nat

\* A running auction keeps the configuration that was validated.
LEMMA PriceInvHolds == Spec => []PriceInv
<1>1. Init => PriceInv
  BY PricesAssumption DEF Init, PriceInv
<1>2. PriceInv /\ [Next]_vars => PriceInv'
  BY DEF PriceInv, Next, Tick, vars
<1>. QED  BY <1>1, <1>2, PTL DEF Spec

\* Every price any curve quotes lies between minPrice and maxPrice, whatever
\* overflows or wraps around on the way.
THEOREM PricesWithinBounds == Spec => []PriceWithinBounds
<1>1. PriceInv => PriceWithinBounds
  BY CurveInBounds DEF PriceInv, PriceWithinBounds, Curved, InBounds
<1>. QED  BY <1>1, PriceInvHolds, PTL

\* An auction started with a valid configuration has a price for as long as
\* the argument of its curve fits an int256: getPrice does not revert.
THEOREM PricesQuoted == Spec => []PriceQuoted
<1>1. PriceInv => PriceQuoted
  <2>. SUFFICES ASSUME PriceInv, ArgumentFits PROVE getPrice(config, elapsed) # {}
    BY DEF PriceQuoted
  <2>1. CASE config.adapter = "constant"
    BY <2>1 DEF PriceInv, getPrice
  <2>2. CASE config.adapter # "constant"
    BY <2>2, CurveQuoted DEF PriceInv, Curved, ArgumentFits, Fits
  <2>. QED  BY <2>1, <2>2
<1>. QED  BY <1>1, PriceInvHolds, PTL

\* Waiting never takes back what a bidder could already have: a falling price
\* only falls and a rising one only rises, across every overflow guard.
THEOREM PricesMoveOneWay == Spec => PriceMovesOneWay
<1>. DEFINE Body ==
    ArgumentFits' =>
        \A before \in getPrice(config, elapsed), after \in getPrice(config, elapsed') :
            IF config.isDecreasing THEN after <= before ELSE after >= before
<1>1. PriceInv /\ [Next]_vars => [Body]_vars
  <2>. SUFFICES ASSUME PriceInv, Tick, ArgumentFits',
                       NEW before \in getPrice(config, elapsed),
                       NEW after \in getPrice(config, elapsed')
                PROVE  Towards(config, before, after)
    BY DEF Next, Towards
  <2>1. /\ config' = config /\ elapsed \in Nat /\ elapsed' \in Nat /\ elapsed <= elapsed'
        /\ config \in PriceConfig /\ areParamsValid(config)
    BY DEF PriceInv, Tick
  <2>2. CASE config.adapter = "constant"
    <3>1. getPrice(config, elapsed) = {config.initialPrice}
      BY <2>1, <2>2 DEF getPrice
    <3>2. getPrice(config, elapsed') = {config.initialPrice}
      BY <2>1, <2>2 DEF getPrice
    <3>. QED  BY <2>1, <3>1, <3>2 DEF Towards, PriceConfig
  <2>3. CASE config.adapter # "constant"
    <3>1. Curved(config)
      BY <2>1, <2>3 DEF Curved
    <3>2. Fits(config, elapsed')
      BY <2>1 DEF ArgumentFits, Fits
    <3>. QED  BY <2>1, <3>1, <3>2, CurveMovesOneWay
  <2>. QED  BY <2>2, <2>3
<1>. QED  BY <1>1, PriceInvHolds, PTL DEF Spec, PriceMovesOneWay
=============================================================================

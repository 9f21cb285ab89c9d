------------------------- MODULE IndexSystemProofs -------------------------
(***************************************************************************)
(* Proofs about IndexSystem: the SetToken with its issuance, streaming fee *)
(* and auction modules, for all tokens, accounts, prices, fees and         *)
(* quantities, and for every PreciseUnit.                                  *)
(***************************************************************************)
EXTENDS IndexSystem, PositionProofs

(* What each transaction does to the set. *)

\* What the lemmas about BasicIssuanceModule ask of the constants.
LEMMA IsIssuance == IssuanceModule \in Modules
BY ModulesAssumption

\* The fee's share of the old supply, and the multiplier that is left: neither
\* rounding lets multiplier times supply grow.
LEMMA FeeShrinksClaims ==
    ASSUME NEW m \in Nat, NEW n \in Nat, NEW f \in Nat, f < PreciseUnit,
           NEW newM \in Nat, NEW minted \in Nat,
           newM * PreciseUnit <= m * (PreciseUnit - f),
           minted * (PreciseUnit - f) <= f * n
    PROVE  newM * (n + minted) <= m * n /\ newM <= m
<1>. DEFINE U == PreciseUnit
            k == U - f
<1>0. U \in Nat \ {0} /\ k \in Nat \ {0} /\ f + k = U /\ f \in Nat /\ k <= U
  BY PreciseUnitAssumption
<1>1. newM * U <= m * k /\ minted * k <= f * n
  OBVIOUS
<1>. HIDE DEF U, k
<1>2. (n + minted) * k <= n * U
  <2>1. (n + minted) * k = n * k + minted * k /\ n * U = n * f + n * k
    BY <1>0
  <2>2. n * f = f * n /\ f * n \in Nat /\ n * k \in Nat /\ minted * k \in Nat
    BY <1>0
  <2>. QED  BY <1>0, <1>1, <2>1, <2>2
<1>. DEFINE a == newM * U
            b == m * k
            c == (n + minted) * k
            d == n * U
            x == newM * (n + minted)
            y == m * n
            z == U * k
<1>3. a \in Nat /\ b \in Nat /\ c \in Nat /\ d \in Nat /\ a <= b /\ c <= d
  BY <1>0, <1>1, <1>2
<1>4. a * c = x * z /\ b * d = y * z /\ x \in Nat /\ y \in Nat /\ z \in Nat \ {0}
  <2>1. a * c = x * z
    BY <1>0
  <2>2. b * d = y * z
    BY <1>0
  <2>. QED  BY <1>0, <2>1, <2>2
<1>. HIDE DEF a, b, c, d, x, y, z
<1>5. a * c <= b * d
  <2>1. a * c <= b * c
    BY <1>3
  <2>2. b * c <= b * d
    BY <1>3
  <2>3. a * c \in Nat /\ b * c \in Nat /\ b * d \in Nat
    BY <1>3
  <2>. QED  BY <2>1, <2>2, <2>3
<1>6. x <= y
  BY <1>4, <1>5
<1>7. newM <= m
  <2>1. m * k <= m * U
    BY <1>0
  <2>2. newM * U <= m * U
    BY <1>0, <1>1, <2>1
  <2>. QED  BY <1>0, <2>2
<1>. QED  BY <1>6, <1>7 DEF x, y

\* accrueFee: nothing changes at a rate of zero; otherwise the fee is minted
\* and the multiplier scaled down, and balances and units stay.
LEMMA AccrueEffect ==
    ASSUME NEW s, Inv(s), NEW f \in FeeState, NEW time \in Nat,
           f.lastStreamingFeeTimestamp <= time,
           NEW t \in accrue(s, f, time), t # s
    PROVE  LET inflation == calculateStreamingFee(f, time)
               minted == calculateStreamingFeeInflation(s, inflation)
           IN  /\ Inv(t) /\ privileged(s, StreamingModule)
               /\ inflation \in Nat /\ inflation < PreciseUnit
               /\ minted \in Nat /\ minted * (PreciseUnit - inflation) <= inflation * s.totalSupply
               /\ t.totalSupply = s.totalSupply + minted
               /\ t.positionMultiplier \in Nat
               /\ t.positionMultiplier * PreciseUnit
                      <= s.positionMultiplier * (PreciseUnit - inflation)
               /\ s.positionMultiplier * (PreciseUnit - inflation)
                      < (t.positionMultiplier + 1) * PreciseUnit
               /\ t.virtualUnit = s.virtualUnit /\ t.held = s.held
               /\ t.moduleStates = s.moduleStates /\ t.isLocked = s.isLocked
               /\ t.locker = s.locker
<1>. DEFINE inflation == calculateStreamingFee(f, time)
            minted == calculateStreamingFeeInflation(s, inflation)
            newMultiplier == preciseMulInt(s.positionMultiplier, PreciseUnit - inflation)
            b == [s EXCEPT !.totalSupply = s.totalSupply + minted]
<1>0. /\ s \in SetTokenState /\ s.totalSupply \in Nat /\ s.positionMultiplier \in Nat
      /\ StreamingModule \in Modules
  BY ModulesAssumption DEF Inv, SetTokenState
<1>1. inflation \in Nat
  <2>. DEFINE x == (time - f.lastStreamingFeeTimestamp) * f.streamingFeePercentage
  <2>0. x \in Nat
    <3>1. time - f.lastStreamingFeeTimestamp \in Nat /\ f.streamingFeePercentage \in Nat
      BY DEF FeeState
    <3>. QED  BY <3>1
  <2>. HIDE DEF x
  <2>1. x \div OneYear \in Nat
    BY <2>0, Euclid, OneYearAssumption
  <2>. QED  BY <2>1 DEF calculateStreamingFee, x
<1>2. PICK r : /\ inflation < PreciseUnit
               /\ r \in mint(s, StreamingModule, minted)
               /\ t \in editMultiplierForFee(r, inflation)
  <2>1. t \in IF inflation >= PreciseUnit THEN {}
              ELSE UNION {editMultiplierForFee(r, inflation) : r \in mintManagerAndProtocolFee(s, minted)}
    BY DEF accrue
  <2>. HIDE DEF inflation, minted
  <2>. QED  BY <1>1, <2>1, PreciseUnitAssumption DEF mintManagerAndProtocolFee
<1>. DEFINE k == PreciseUnit - inflation
<1>3. minted = (inflation * s.totalSupply) \div k
  BY DEF calculateStreamingFeeInflation
<1>4. k \in Nat \ {0}
  BY <1>1, <1>2, PreciseUnitAssumption
<1>. HIDE DEF inflation, minted, k
<1>5. minted \in Nat /\ minted * k <= inflation * s.totalSupply
  <2>1. inflation * s.totalSupply \in Nat
    BY <1>0, <1>1
  <2>. QED  BY <1>3, <1>4, <2>1, DivisionBrackets
<1>6. r = b /\ privileged(s, StreamingModule)
  BY <1>2 DEF mint, Require
<1>7. Inv(r)
  BY <1>0, <1>2, <1>5, SupplyAndLockInv
<1>8. /\ b.positionMultiplier = s.positionMultiplier /\ b.virtualUnit = s.virtualUnit
      /\ b.held = s.held /\ b.moduleStates = s.moduleStates /\ b.isLocked = s.isLocked
      /\ b.locker = s.locker /\ b.totalSupply = s.totalSupply + minted
  BY <1>0 DEF SetTokenState
<1>9. t \in editPositionMultiplier(r, StreamingModule, newMultiplier)
  BY <1>2, <1>6, <1>8 DEF editMultiplierForFee, k
<1>10. newMultiplier \in Nat /\ newMultiplier * PreciseUnit <= s.positionMultiplier * k
       /\ s.positionMultiplier * k < (newMultiplier + 1) * PreciseUnit
  <2>. DEFINE p == s.positionMultiplier * k
  <2>1. p \in Nat
    BY <1>0, <1>4
  <2>2. newMultiplier = truncDiv(p, PreciseUnit)
    BY DEF preciseMulInt, k
  <2>. HIDE DEF p
  <2>3. newMultiplier = p \div PreciseUnit
    BY <2>1, <2>2, PreciseUnitAssumption DEF truncDiv, abs
  <2>4. newMultiplier \in Nat /\ newMultiplier * PreciseUnit <= p
        /\ p < (newMultiplier + 1) * PreciseUnit
    <3>. HIDE DEF newMultiplier
    <3>. QED  BY <2>1, <2>3, DivisionBrackets, PreciseUnitAssumption
  <2>. QED  BY <2>4 DEF p
<1>. HIDE DEF newMultiplier
<1>11. Inv(t)
  BY <1>7, <1>9, <1>10, EditPositionMultiplierInv
<1>12. t = [r EXCEPT !.positionMultiplier = newMultiplier]
  BY <1>9 DEF editPositionMultiplier, Require
<1>13. /\ t.positionMultiplier = newMultiplier /\ t.virtualUnit = r.virtualUnit
       /\ t.held = r.held /\ t.moduleStates = r.moduleStates /\ t.isLocked = r.isLocked
       /\ t.locker = r.locker /\ t.totalSupply = r.totalSupply
  BY <1>7, <1>12 DEF Inv, SetTokenState
<1>. QED
  BY <1>1, <1>2, <1>5, <1>6, <1>8, <1>10, <1>11, <1>13 DEF inflation, minted, k
-----------------------------------------------------------------------------
(* Prices. *)

\* A change of price is held at a bound, so the result is unsigned again.
LEMMA BoundedPriceNatural ==
    ASSUME NEW p \in PriceConfig, NEW change \in Nat
    PROVE  boundedPrice(p, change) \in Nat /\ getBoundaryPrice(p) \in Nat
BY DEF PriceConfig, boundedPrice, getBoundaryPrice, larger, smaller

\* The product of bucket and coefficient, once past its overflow guard, is a
\* uint256, and its conversion an int256.
LEMMA ArgumentIsWord ==
    ASSUME NEW coefficient \in Nat \ {0}, NEW bucket \in Nat,
           ~(bucket > MaxUint \div coefficient)
    PROVE  toInt(coefficient * bucket) \in Words
<1>. DEFINE q == MaxUint \div coefficient
            x == coefficient * bucket
<1>1. MaxUint \in Nat /\ SignBit \in Nat \ {0}
  BY WordAssumption DEF MaxUint
<1>2. q \in Nat /\ q * coefficient <= MaxUint
  BY <1>1, DivisionBrackets
<1>3. bucket <= q
  BY <1>2
<1>. HIDE DEF q
<1>4. x \in Nat /\ x <= q * coefficient
  BY <1>2, <1>3
<1>5. x <= MaxUint
  BY <1>1, <1>2, <1>4
<1>. HIDE DEF x
<1>6. toInt(x) \in Words
  BY <1>1, <1>4, <1>5 DEF toInt, Words, MaxUint
<1>. QED  BY <1>6 DEF x

\* Every adapter quotes one price, an unsigned number.
LEMMA PriceNatural ==
    ASSUME NEW p \in PriceConfig, NEW time \in Nat, NEW price \in getPrice(p, time)
    PROVE  price \in Nat /\ \A other \in getPrice(p, time) : other = price
<1>. DEFINE bucket == timeBucket(p, time)
            argument == toInt(p.timeCoefficient * bucket)
<1>0. /\ p.initialPrice \in Nat /\ p.scalingFactor \in Nat /\ p.timeCoefficient \in Nat
      /\ p.bucketSize \in Nat
      /\ p.adapter \in {"constant", "linear", "exponential", "logarithmic"}
      /\ areParamsValid(p)
  BY DEF PriceConfig, getPrice
<1>1. CASE p.adapter = "constant"
  BY <1>0, <1>1 DEF getPrice
<1>2. p.adapter # "constant" => p.bucketSize > 0 /\ bucket \in Nat
  <2>1. p.adapter # "constant" => p.bucketSize > 0
    BY <1>0 DEF areParamsValid
  <2>. QED  BY <1>0, <2>1, Euclid DEF timeBucket
<1>. HIDE DEF bucket
<1>3. CASE p.adapter = "linear"
  <2>1. getPrice(p, time) = linearPrice(p, time)
    BY <1>0, <1>3 DEF getPrice
  <2>2. bucket * p.scalingFactor \in Nat
    BY <1>0, <1>2, <1>3
  <2>3. linearPrice(p, time) = IF bucket > MaxUint \div p.scalingFactor THEN {getBoundaryPrice(p)}
                               ELSE {boundedPrice(p, bucket * p.scalingFactor)}
    BY DEF linearPrice, bucket
  <2>. QED  BY <2>1, <2>2, <2>3, BoundedPriceNatural
<1>4. CASE p.adapter = "exponential"
  <2>. DEFINE e == expWad[argument]
              scaled == p.scalingFactor * e
              guarded == bucket > MaxUint \div p.timeCoefficient
              beyond == argument > MaxExpArg
              tooLarge == p.scalingFactor > MaxUint \div e
  <2>1. getPrice(p, time) = exponentialPrice(p, time) /\ p.timeCoefficient > 0
    BY <1>0, <1>4 DEF getPrice, areParamsValid
  <2>2. exponentialPrice(p, time) =
            IF guarded THEN {getBoundaryPrice(p)}
            ELSE IF beyond THEN {getBoundaryPrice(p)}
            ELSE IF e = 0 THEN {}
            ELSE IF tooLarge THEN {getBoundaryPrice(p)}
            ELSE IF scaled >= PreciseUnit THEN {boundedPrice(p, scaled - PreciseUnit)} ELSE {}
    BY DEF exponentialPrice, Require, bucket
  <2>3. ~guarded => argument \in Words
    BY <1>0, <1>2, <1>4, <2>1, ArgumentIsWord
  <2>. HIDE DEF guarded, argument
  <2>4. ~guarded /\ ~beyond => e \in Nat
    <3>1. argument \in Words => argument \in Int
      BY WordAssumption DEF Words
    <3>2. MaxUint \in Nat
      BY WordAssumption DEF MaxUint
    <3>. QED  BY <2>3, <3>1, <3>2, CurvesAssumption
  <2>. HIDE DEF e
  <2>5. ~guarded /\ ~beyond => scaled \in Nat
    BY <1>0, <2>4
  <2>. HIDE DEF scaled, beyond, tooLarge
  <2>6. ~guarded /\ ~beyond /\ scaled >= PreciseUnit => boundedPrice(p, scaled - PreciseUnit) \in Nat
    <3>1. ~guarded /\ ~beyond /\ scaled >= PreciseUnit => scaled - PreciseUnit \in Nat
      BY <2>5, PreciseUnitAssumption
    <3>. QED  BY <3>1, BoundedPriceNatural
  <2>7. getBoundaryPrice(p) \in Nat
    BY BoundedPriceNatural
  <2>. QED  BY <2>1, <2>2, <2>6, <2>7
<1>5. CASE p.adapter = "logarithmic"
  <2>. DEFINE x == argument + PreciseUnit
              l == toUint(lnWad[x])
              guarded == bucket > MaxUint \div p.timeCoefficient
              beyond == argument > MaxLogArg
              tooLarge == l > MaxUint \div p.scalingFactor
  <2>1. getPrice(p, time) = logarithmicPrice(p, time) /\ p.timeCoefficient > 0
    BY <1>0, <1>5 DEF getPrice, areParamsValid
  <2>2. logarithmicPrice(p, time) =
            IF guarded THEN {getBoundaryPrice(p)}
            ELSE IF beyond THEN {getBoundaryPrice(p)}
            ELSE IF x <= 0 THEN {}
            ELSE IF tooLarge THEN {getBoundaryPrice(p)}
            ELSE {boundedPrice(p, p.scalingFactor * l)}
    BY DEF logarithmicPrice, bucket
  <2>3. ~guarded => argument \in Words
    BY <1>0, <1>2, <1>5, <2>1, ArgumentIsWord
  <2>. HIDE DEF guarded, argument
  <2>4. ~guarded /\ ~beyond /\ ~(x <= 0) => l \in Nat
    <3>1. ~guarded /\ ~beyond /\ ~(x <= 0) => x \in Words /\ x > 0
      BY <2>3, WordAssumption, PreciseUnitAssumption DEF Words
    <3>. HIDE DEF x
    <3>2. ~guarded /\ ~beyond /\ ~(x <= 0) => lnWad[x] \in Words
      BY <3>1, CurvesAssumption
    <3>. QED  BY <3>2, WordAssumption DEF Words, toUint
  <2>. HIDE DEF l, x, beyond, tooLarge
  <2>5. ~guarded /\ ~beyond /\ ~(x <= 0) => p.scalingFactor * l \in Nat
    BY <1>0, <2>4
  <2>6. getBoundaryPrice(p) \in Nat
    BY BoundedPriceNatural
  <2>7. ~guarded /\ ~beyond /\ ~(x <= 0) => boundedPrice(p, p.scalingFactor * l) \in Nat
    BY <2>5, BoundedPriceNatural
  <2>. QED  BY <2>1, <2>2, <2>6, <2>7
<1>. QED  BY <1>0, <1>1, <1>3, <1>4, <1>5
-----------------------------------------------------------------------------
(* Bids. *)

\* From s to t the position of component c follows the balance: a position that
\* was covered ends with the tokens it tracked and what the balance gained.
Follows(s, t, c) ==
    LET tracked == preciseMul(getDefaultPositionRealUnit(s, c), s.totalSupply)
    IN  \A x \in Nat :
            s.totalSupply > 0 /\ tracked <= s.held[c] /\ x = t.held[c] - (s.held[c] - tracked) =>
                StoredFrom(t, c, x)

\* What a bid leaves behind: two balances moved, the protocol's fee taken from
\* what came in, both positions within what the set holds, all else as it was.
Settled(s, t, sent, received, quantitySent, quantityReceived) ==
    /\ Inv(t) /\ Untouched(s, t)
    /\ quantitySent <= s.held[sent] /\ t.held[sent] = s.held[sent] - quantitySent
    /\ t.held[received]
           = s.held[received] + quantityReceived - preciseMul(quantityReceived, AuctionFee)
    /\ \A d \in Tokens \ {sent, received} :
           t.held[d] = s.held[d] /\ t.virtualUnit[d] = s.virtualUnit[d]
    /\ \A d \in {sent, received} :
           t.virtualUnit[d] * t.positionMultiplier * t.totalSupply
               <= PreciseUnit * (t.held[d] * PreciseUnit)
    /\ Follows(s, t, sent) /\ Follows(s, t, received)

\* _executeBid, _accrueProtocolFee and _updatePositionState in their order.
LEMMA SettleEffect ==
    ASSUME NEW s, Inv(s), NEW sent \in Tokens, NEW received \in Tokens, sent # received,
           NEW quantitySent \in Nat, NEW quantityReceived \in Nat,
           NEW t \in settle(s, sent, received, quantitySent, quantityReceived)
    PROVE  Settled(s, t, sent, received, quantitySent, quantityReceived)
<1>. DEFINE fee == preciseMul(quantityReceived, AuctionFee)
            paid == transferFrom(s, received, quantityReceived)
<1>0. /\ AuctionFee \in Nat /\ fee \in Nat
      /\ s.held \in [Tokens -> Nat] /\ s.virtualUnit \in [Tokens -> Int]
  <2>1. AuctionFee \in Nat
    BY AuctionFeeAssumption, PreciseUnitAssumption
  <2>2. fee \in Nat
    BY <2>1, PreciseMulRoundsDown
  <2>. QED  BY <2>1, <2>2 DEF Inv, SetTokenState
<1>1. PICK executed, charged, edited :
          /\ executed \in strictInvokeTransfer(paid, AuctionModule, sent, quantitySent)
          /\ charged \in strictInvokeTransfer(executed, AuctionModule, received, fee)
          /\ edited \in calculateAndEditDefaultPosition(charged, AuctionModule, sent,
                            s.totalSupply, s.held[sent])
          /\ t \in calculateAndEditDefaultPosition(edited, AuctionModule, received,
                       s.totalSupply, s.held[received])
  <2>. DEFINE A == strictInvokeTransfer(paid, AuctionModule, sent, quantitySent)
              B == UNION {payProtocolFeeFromSetToken(r, AuctionModule, received, fee) : r \in A}
              C == UNION {calculateAndEditDefaultPosition(r, AuctionModule, sent,
                              s.totalSupply, s.held[sent]) : r \in B}
  <2>1. t \in UNION {calculateAndEditDefaultPosition(r, AuctionModule, received,
                         s.totalSupply, s.held[received]) : r \in C}
    BY DEF settle
  <2>2. PICK r3 \in C : t \in calculateAndEditDefaultPosition(r3, AuctionModule, received,
                                  s.totalSupply, s.held[received])
    BY <2>1
  <2>3. PICK r2 \in B : r3 \in calculateAndEditDefaultPosition(r2, AuctionModule, sent,
                                   s.totalSupply, s.held[sent])
    BY <2>2
  <2>4. PICK r1 \in A : r2 \in payProtocolFeeFromSetToken(r1, AuctionModule, received, fee)
    BY <2>3
  <2>. QED  BY <2>2, <2>3, <2>4 DEF payProtocolFeeFromSetToken
<1>. HIDE DEF fee, paid
<1>2. /\ Inv(paid) /\ Untouched(s, paid) /\ paid.virtualUnit = s.virtualUnit
      /\ paid.held = [s.held EXCEPT ![received] = s.held[received] + quantityReceived]
  BY TransferInEffect DEF paid
<1>3. /\ Inv(executed) /\ Untouched(paid, executed) /\ executed.virtualUnit = paid.virtualUnit
      /\ quantitySent <= paid.held[sent]
      /\ executed.held = [paid.held EXCEPT ![sent] = paid.held[sent] - quantitySent]
  <2>1. Inv(paid) /\ executed \in strictInvokeTransfer(paid, AuctionModule, sent, quantitySent)
    BY <1>1, <1>2
  <2>2. SentOut(paid, executed, sent, quantitySent)
    BY <2>1, TransferOutEffect
  <2>. QED  BY <2>2 DEF SentOut
<1>4. /\ Inv(charged) /\ Untouched(executed, charged)
      /\ charged.virtualUnit = executed.virtualUnit
      /\ charged.held = [executed.held EXCEPT ![received] = executed.held[received] - fee]
  <2>1. Inv(executed) /\ charged \in strictInvokeTransfer(executed, AuctionModule, received, fee)
    BY <1>1, <1>3
  <2>2. SentOut(executed, charged, received, fee)
    BY <1>0, <2>1, TransferOutEffect
  <2>. QED  BY <2>2 DEF SentOut
<1>5. charged.totalSupply = s.totalSupply /\ s.held[sent] \in Nat /\ s.held[received] \in Nat
  BY <1>0, <1>2, <1>3, <1>4 DEF Untouched
<1>6. /\ Inv(edited) /\ Untouched(charged, edited) /\ edited.held = charged.held
      /\ \A d \in Tokens \ {sent} : edited.virtualUnit[d] = charged.virtualUnit[d]
      /\ edited.virtualUnit[sent] * edited.positionMultiplier * edited.totalSupply
             <= PreciseUnit * (edited.held[sent] * PreciseUnit)
  <2>1. edited \in calculateAndEditDefaultPosition(charged, AuctionModule, sent,
                      charged.totalSupply, s.held[sent])
    BY <1>1, <1>5
  <2>2. Inv(charged)
    BY <1>4
  <2>3. Recomputed(charged, edited, sent)
    BY <1>5, <2>1, <2>2, RecomputedPositionEffect
  <2>. QED  BY <2>3 DEF Recomputed
<1>7. edited.totalSupply = s.totalSupply
  BY <1>5, <1>6 DEF Untouched
<1>8. /\ Inv(t) /\ Untouched(edited, t) /\ t.held = edited.held
      /\ \A d \in Tokens \ {received} : t.virtualUnit[d] = edited.virtualUnit[d]
      /\ t.virtualUnit[received] * t.positionMultiplier * t.totalSupply
             <= PreciseUnit * (t.held[received] * PreciseUnit)
  <2>1. t \in calculateAndEditDefaultPosition(edited, AuctionModule, received,
                 edited.totalSupply, s.held[received])
    BY <1>1, <1>7
  <2>2. Inv(edited)
    BY <1>6
  <2>3. Recomputed(edited, t, received)
    BY <1>5, <2>1, <2>2, RecomputedPositionEffect
  <2>. QED  BY <2>3 DEF Recomputed
<1>9. Untouched(s, t)
  BY <1>2, <1>3, <1>4, <1>6, <1>8 DEF Untouched
<1>10. t.held = charged.held /\ paid.held \in [Tokens -> Nat] /\ executed.held \in [Tokens -> Nat]
  BY <1>2, <1>3, <1>6, <1>8 DEF Inv, SetTokenState
<1>11. /\ quantitySent <= s.held[sent] /\ t.held[sent] = s.held[sent] - quantitySent
       /\ t.held[received] = s.held[received] + quantityReceived - fee
       /\ \A d \in Tokens \ {sent, received} : t.held[d] = s.held[d]
  BY <1>0, <1>2, <1>3, <1>4, <1>10
<1>12. \A d \in Tokens \ {sent, received} : t.virtualUnit[d] = s.virtualUnit[d]
  BY <1>2, <1>3, <1>4, <1>6, <1>8
<1>13. t.virtualUnit[sent] * t.positionMultiplier * t.totalSupply
           <= PreciseUnit * (t.held[sent] * PreciseUnit)
  <2>1. /\ t.virtualUnit[sent] = edited.virtualUnit[sent]
        /\ t.positionMultiplier = edited.positionMultiplier
        /\ t.totalSupply = edited.totalSupply /\ t.held = edited.held
    BY <1>8 DEF Untouched
  <2>. QED  BY <1>6, <2>1
<1>14. Follows(s, t, sent)
  <2>. DEFINE tracked == preciseMul(getDefaultPositionRealUnit(s, sent), s.totalSupply)
  <2>. SUFFICES ASSUME NEW x \in Nat, s.totalSupply > 0, tracked <= s.held[sent],
                       x = t.held[sent] - (s.held[sent] - tracked)
                PROVE  StoredFrom(t, sent, x)
    BY DEF Follows
  <2>1. getDefaultPositionRealUnit(charged, sent) = getDefaultPositionRealUnit(s, sent)
    BY <1>2, <1>3, <1>4 DEF Untouched, getDefaultPositionRealUnit, convertVirtualToRealUnit
  <2>2. /\ Inv(charged) /\ charged.totalSupply > 0 /\ charged.held[sent] = t.held[sent]
        /\ edited \in calculateAndEditDefaultPosition(charged, AuctionModule, sent,
                          charged.totalSupply, s.held[sent])
    BY <1>1, <1>4, <1>5, <1>10
  <2>3. preciseMul(getDefaultPositionRealUnit(charged, sent), charged.totalSupply) = tracked
    BY <1>5, <2>1
  <2>. HIDE DEF tracked
  <2>4. /\ preciseMul(getDefaultPositionRealUnit(charged, sent), charged.totalSupply) <= s.held[sent]
        /\ x = charged.held[sent] - (s.held[sent]
                   - preciseMul(getDefaultPositionRealUnit(charged, sent), charged.totalSupply))
    BY <2>2, <2>3
  <2>5. StoredFrom(edited, sent, x)
    BY <1>5, <2>2, <2>4, RecomputedPositionStores
  <2>6. /\ t.virtualUnit[sent] = edited.virtualUnit[sent]
        /\ t.positionMultiplier = edited.positionMultiplier /\ t.totalSupply = edited.totalSupply
    BY <1>8 DEF Untouched
  <2>. QED  BY <2>5, <2>6 DEF StoredFrom
<1>15. Follows(s, t, received)
  <2>. DEFINE tracked == preciseMul(getDefaultPositionRealUnit(s, received), s.totalSupply)
  <2>. SUFFICES ASSUME NEW x \in Nat, s.totalSupply > 0, tracked <= s.held[received],
                       x = t.held[received] - (s.held[received] - tracked)
                PROVE  StoredFrom(t, received, x)
    BY DEF Follows
  <2>0. edited.virtualUnit[received] = s.virtualUnit[received]
    BY <1>2, <1>3, <1>4, <1>6
  <2>1. getDefaultPositionRealUnit(edited, received) = getDefaultPositionRealUnit(s, received)
    BY <1>2, <1>3, <1>4, <1>6, <2>0
       DEF Untouched, getDefaultPositionRealUnit, convertVirtualToRealUnit
  <2>2. /\ Inv(edited) /\ edited.totalSupply > 0 /\ edited.held[received] = t.held[received]
        /\ t \in calculateAndEditDefaultPosition(edited, AuctionModule, received,
                     edited.totalSupply, s.held[received])
    BY <1>1, <1>6, <1>7, <1>8
  <2>3. preciseMul(getDefaultPositionRealUnit(edited, received), edited.totalSupply) = tracked
    BY <1>7, <2>1
  <2>. HIDE DEF tracked
  <2>4. /\ preciseMul(getDefaultPositionRealUnit(edited, received), edited.totalSupply)
               <= s.held[received]
        /\ x = edited.held[received] - (s.held[received]
                   - preciseMul(getDefaultPositionRealUnit(edited, received), edited.totalSupply))
    BY <2>2, <2>3
  <2>. QED  BY <1>5, <2>2, <2>4, RecomputedPositionStores
<1>. QED  BY <1>8, <1>9, <1>11, <1>12, <1>13, <1>14, <1>15 DEF Settled, fee

\* bid: the component is sold for the quote asset or bought with it, at the
\* adapter's price rounded in the set's favour, while the rebalance runs.
LEMMA BidEffect ==
    ASSUME NEW s, Inv(s), NEW a, NEW bidder, NEW c \in Tokens, NEW q \in Nat, NEW limit,
           NEW time, NEW t \in bid(s, a, bidder, c, q, limit, time),
           a.quoteAsset \in Tokens, a.priceConfig[c] \in PriceConfig,
           time - a.rebalanceStartTime \in Nat
    PROVE  /\ validBidTargets(s, a, c, time)
           /\ \E price \in getPrice(a.priceConfig[c], time - a.rebalanceStartTime) :
                  \/ Settled(s, t, c, a.quoteAsset, q, preciseMulCeil(q, price))
                  \/ Settled(s, t, a.quoteAsset, c, preciseMul(q, price), q)
<1>. DEFINE prices == getPrice(a.priceConfig[c], time - a.rebalanceStartTime)
            auctions == IF isAllowedBidder(a, bidder) /\ validBidTargets(s, a, c, time)
                        THEN calculateAuctionSizeAndDirection(s, a, c) ELSE {}
<1>1. PICK auc \in auctions :
          t \in UNION {settleAtPrice(s, a, c, auc, q, limit, price)
                           : price \in IF q <= auc.quantity THEN prices ELSE {}}
  BY DEF bid
<1>2. validBidTargets(s, a, c, time) /\ c # a.quoteAsset
  BY <1>1 DEF validBidTargets
<1>. HIDE DEF auctions
<1>3. PICK price \in prices : t \in settleAtPrice(s, a, c, auc, q, limit, price)
  BY <1>1
<1>4. price \in Nat
  BY <1>3, PriceNatural
<1>. HIDE DEF prices
<1>5. preciseMulCeil(q, price) \in Nat /\ preciseMul(q, price) \in Nat
  BY <1>4, PreciseMulCeilRoundsUp, PreciseMulRoundsDown
<1>6. CASE auc.isSellAuction
  <2>1. t \in settle(s, c, a.quoteAsset, q, preciseMulCeil(q, price))
    BY <1>3, <1>6 DEF settleAtPrice, calculateQuoteAssetQuantity
  <2>2. Settled(s, t, c, a.quoteAsset, q, preciseMulCeil(q, price))
    BY <1>2, <1>5, <2>1, SettleEffect
  <2>. QED  BY <1>2, <1>3, <2>2 DEF prices
<1>7. CASE ~auc.isSellAuction
  <2>1. t \in settle(s, a.quoteAsset, c, preciseMul(q, price), q)
    BY <1>3, <1>7 DEF settleAtPrice, calculateQuoteAssetQuantity
  <2>2. Settled(s, t, a.quoteAsset, c, preciseMul(q, price), q)
    BY <1>2, <1>5, <2>1, SettleEffect
  <2>. QED  BY <1>2, <1>3, <2>2 DEF prices
<1>. QED  BY <1>6, <1>7
-----------------------------------------------------------------------------
(* The inductive invariant. *)

AuctionState ==
    [quoteAsset : Tokens \cup {ZeroAddress}, rebalanceStartTime : Nat, rebalanceDuration : Nat,
     positionMultiplier : Nat, raiseTargetPercentage : Nat, rebalanceComponents : SUBSET Tokens,
     targetUnit : [Tokens -> Nat], priceConfig : [Tokens -> PriceConfigs \cup {NoConfig}],
     bidAllowList : SUBSET Bidders, biddersHistory : SUBSET Bidders,
     isAnyoneAllowedToBid : BOOLEAN]

\* A rebalance has begun, and its components have a quote asset and prices.
AuctionSound(a, time) ==
    /\ a \in AuctionState
    /\ a.rebalanceStartTime <= time
    /\ \A c \in a.rebalanceComponents : a.quoteAsset \in Tokens /\ a.priceConfig[c] \in PriceConfigs

FeesSound(f, time) == f \in FeeState /\ f.lastStreamingFeeTimestamp <= time

\* A set that no fee has touched is covered without any allowance.
ExactlyCovered(s) ==
    s.positionMultiplier = PreciseUnit =>
        \A c \in Tokens : s.virtualUnit[c] * s.totalSupply <= s.held[c] * PreciseUnit

\* Fees only lower the multiplier, and only auctions lock.
ClaimsSound(s, i) ==
    /\ Inv(s)
    /\ s.positionMultiplier <= PreciseUnit
    /\ s.locker \in {AuctionModule, ZeroAddress}
    /\ Covered(s, i)
    /\ ExactlyCovered(s)

\* PermissionsAccounted and LockedRebalanceEndsWithUnlock of any state.
ControlSound(a, time, lockedStart, state, locked) ==
    /\ AuctionSound(a, time)
    /\ a.bidAllowList \subseteq a.biddersHistory
    /\ state # "INITIALIZED" => a.bidAllowList = {} /\ ~a.isAnyoneAllowedToBid
    /\ lockedStart /\ ~locked => isRebalanceDurationElapsed(a, time)

IInv ==
    /\ ClaimsSound(set, issued)
    /\ FeesSound(fees, now)
    /\ ControlSound(auction, now, rebalanceLocked, set.moduleStates[AuctionModule], set.isLocked)
    /\ now \in Nat /\ issued \in Nat /\ rebalanceLocked \in BOOLEAN
-----------------------------------------------------------------------------
(* Claims and what covers them. *)

\* Without a fee the unit read back is the unit stored.
LEMMA UnscaledUnit ==
    ASSUME NEW s, Inv(s), NEW c \in Tokens, s.positionMultiplier = PreciseUnit
    PROVE  getDefaultPositionRealUnit(s, c) = s.virtualUnit[c]
<1>. DEFINE real == getDefaultPositionRealUnit(s, c)
            v == s.virtualUnit[c]
<1>1. /\ v \in Nat /\ real \in Nat
      /\ real * PreciseUnit <= v * PreciseUnit /\ v * PreciseUnit < (real + 1) * PreciseUnit
  BY RealUnitBrackets
<1>. HIDE DEF real, v
<1>2. real <= v /\ v < real + 1
  BY <1>1, PreciseUnitAssumption
<1>3. real = v
  BY <1>1, <1>2
<1>. QED  BY <1>3 DEF real, v

\* A step that moves neither balances nor claims keeps them covered.
LEMMA ClaimsFrame ==
    ASSUME NEW s, NEW i, ClaimsSound(s, i), NEW t, Inv(t),
           t.locker \in {AuctionModule, ZeroAddress},
           t.positionMultiplier = s.positionMultiplier, t.totalSupply = s.totalSupply,
           t.virtualUnit = s.virtualUnit, t.held = s.held
    PROVE  ClaimsSound(t, i)
BY DEF ClaimsSound, Covered, ExactlyCovered

\* More of a component does no harm.
LEMMA ClaimsGrow ==
    ASSUME NEW s, NEW i \in Nat, ClaimsSound(s, i), NEW c \in Tokens, NEW q \in Nat
    PROVE  ClaimsSound(transferFrom(s, c, q), i)
<1>. DEFINE t == transferFrom(s, c, q)
<1>1. Inv(s) /\ Covered(s, i) /\ ExactlyCovered(s)
  BY DEF ClaimsSound
<1>2. /\ Inv(t) /\ Untouched(s, t) /\ t.virtualUnit = s.virtualUnit
      /\ t.held = [s.held EXCEPT ![c] = s.held[c] + q]
  BY <1>1, TransferInEffect
<1>3. s.held \in [Tokens -> Nat]
  BY <1>1 DEF Inv, SetTokenState
<1>4. \A d \in Tokens : t.held[d] \in Nat /\ s.held[d] \in Nat /\ s.held[d] <= t.held[d]
  BY <1>2, <1>3
<1>. HIDE DEF t
<1>5. \A d \in Tokens : s.held[d] * PreciseUnit <= t.held[d] * PreciseUnit
  BY <1>4, ProductGrows, PreciseUnitAssumption
<1>6. \A d \in Tokens : /\ s.virtualUnit[d] * s.positionMultiplier * s.totalSupply \in Int
                        /\ s.virtualUnit[d] * s.totalSupply \in Int
  BY <1>1 DEF Inv, SetTokenState
<1>7. t.positionMultiplier = s.positionMultiplier /\ t.totalSupply = s.totalSupply
  BY <1>2 DEF Untouched
<1>8. Covered(t, i)
  <2>. SUFFICES ASSUME NEW d \in Tokens
                PROVE  t.virtualUnit[d] * t.positionMultiplier * t.totalSupply
                           <= PreciseUnit * (t.held[d] * PreciseUnit + i)
    BY DEF Covered
  <2>. DEFINE claims == s.virtualUnit[d] * s.positionMultiplier * s.totalSupply
              x == s.held[d] * PreciseUnit
              y == t.held[d] * PreciseUnit
  <2>1. /\ claims \in Int /\ x \in Nat /\ y \in Nat /\ x <= y
        /\ claims <= PreciseUnit * (x + i)
        /\ t.virtualUnit[d] * t.positionMultiplier * t.totalSupply = claims
    BY <1>1, <1>2, <1>4, <1>5, <1>6, <1>7, PreciseUnitAssumption DEF Covered
  <2>. HIDE DEF claims, x, y
  <2>2. claims <= PreciseUnit * (y + i)
    BY <2>1, PreciseUnitAssumption
  <2>. QED  BY <2>1, <2>2 DEF y
<1>9. ExactlyCovered(t)
  <2>. SUFFICES ASSUME s.positionMultiplier = PreciseUnit, NEW d \in Tokens
                PROVE  t.virtualUnit[d] * t.totalSupply <= t.held[d] * PreciseUnit
    BY <1>7 DEF ExactlyCovered
  <2>. DEFINE claims == s.virtualUnit[d] * s.totalSupply
              x == s.held[d] * PreciseUnit
              y == t.held[d] * PreciseUnit
  <2>1. /\ claims \in Int /\ x \in Nat /\ y \in Nat /\ x <= y /\ claims <= x
        /\ t.virtualUnit[d] * t.totalSupply = claims
    BY <1>1, <1>2, <1>4, <1>5, <1>6, <1>7, PreciseUnitAssumption DEF ExactlyCovered
  <2>. HIDE DEF claims, x, y
  <2>2. claims <= y
    BY <2>1
  <2>. QED  BY <2>1, <2>2 DEF y
<1>10. t.positionMultiplier <= PreciseUnit /\ t.locker \in {AuctionModule, ZeroAddress}
  BY <1>2, <1>7 DEF ClaimsSound, Untouched
<1>. QED  BY <1>2, <1>8, <1>9, <1>10 DEF ClaimsSound, t

\* An issue adds a claim of less than one unit for every set beyond the deposit
\* asked for it, and none while units are read back as they are stored.
LEMMA IssueClaims ==
    ASSUME NEW s, NEW i \in Nat, ClaimsSound(s, i), NEW q \in Nat, NEW t \in issue(s, q)
    PROVE  ClaimsSound(t, i + q)
<1>0. Inv(s) /\ Covered(s, i) /\ ExactlyCovered(s)
  BY DEF ClaimsSound
<1>1. /\ Inv(t)
      /\ t.totalSupply = s.totalSupply + q
      /\ t.virtualUnit = s.virtualUnit /\ t.positionMultiplier = s.positionMultiplier
      /\ t.locker = s.locker
      /\ \A c \in Tokens :
             t.held[c] = s.held[c] + IF c \in s.components
                                     THEN preciseMulCeil(getDefaultPositionRealUnit(s, c), q)
                                     ELSE 0
  BY <1>0, IsIssuance, IssueEffect
<1>2. s.totalSupply \in Nat /\ s.held \in [Tokens -> Nat] /\ Listed(s)
  BY <1>0 DEF Inv, SetTokenState
<1>3. ASSUME NEW c \in Tokens
      PROVE  /\ t.virtualUnit[c] * t.positionMultiplier * t.totalSupply
                    <= PreciseUnit * (t.held[c] * PreciseUnit + (i + q))
             /\ s.positionMultiplier = PreciseUnit =>
                    t.virtualUnit[c] * t.totalSupply <= t.held[c] * PreciseUnit
  <2>. DEFINE v == s.virtualUnit[c]
              real == getDefaultPositionRealUnit(s, c)
              claim == v * s.positionMultiplier
              n == s.totalSupply
              h == s.held[c]
              paid == IF c \in s.components THEN preciseMulCeil(real, q) ELSE 0
  <2>1. /\ v \in Nat /\ real \in Nat /\ claim \in Nat /\ claim < (real + 1) * PreciseUnit
        /\ real * PreciseUnit <= claim
    BY <1>0, RealUnitBrackets
  <2>2. n \in Nat /\ h \in Nat /\ t.held[c] = h + paid /\ t.totalSupply = n + q
    BY <1>1, <1>2
  <2>3. c \notin s.components => v = 0
    BY <1>2 DEF Listed
  <2>4. c \notin s.components => real = 0
    <3>1. v = 0 => claim = 0
      BY <1>0 DEF Inv, SetTokenState
    <3>. HIDE DEF claim, real
    <3>. QED  BY <2>1, <2>3, <3>1, PreciseUnitAssumption
  <2>5. paid \in Nat /\ real * q <= paid * PreciseUnit
    <3>1. CASE c \in s.components
      BY <2>1, <3>1, PreciseMulCeilRoundsUp
    <3>2. CASE c \notin s.components
      BY <2>4, <3>2, PreciseUnitAssumption
    <3>. QED  BY <3>1, <3>2
  <2>6. claim * n <= PreciseUnit * (h * PreciseUnit + i)
    BY <1>0 DEF Covered
  <2>7. s.positionMultiplier = PreciseUnit => real = v /\ v * n <= h * PreciseUnit
    BY <1>0, UnscaledUnit DEF ExactlyCovered
  <2>8. t.virtualUnit[c] * t.positionMultiplier = claim /\ t.virtualUnit[c] = v
    BY <1>1
  <2>. HIDE DEF v, real, claim, n, h, paid
  <2>9. claim * (n + q) <= PreciseUnit * ((h + paid) * PreciseUnit + (i + q))
    BY <2>1, <2>2, <2>5, <2>6, IssueCovers
  <2>10. s.positionMultiplier = PreciseUnit => v * (n + q) <= (h + paid) * PreciseUnit
    <3>. SUFFICES ASSUME s.positionMultiplier = PreciseUnit
                  PROVE  v * (n + q) <= (h + paid) * PreciseUnit
      OBVIOUS
    <3>1. v * n <= h * PreciseUnit /\ v * q <= paid * PreciseUnit
      BY <2>5, <2>7
    <3>2. /\ v * (n + q) = v * n + v * q
          /\ (h + paid) * PreciseUnit = h * PreciseUnit + paid * PreciseUnit
      BY <2>1, <2>2, <2>5, PreciseUnitAssumption
    <3>3. /\ v * n \in Nat /\ v * q \in Nat /\ h * PreciseUnit \in Nat
          /\ paid * PreciseUnit \in Nat
      BY <2>1, <2>2, <2>5, PreciseUnitAssumption
    <3>. QED  BY <3>1, <3>2, <3>3
  <2>. QED  BY <2>2, <2>8, <2>9, <2>10
<1>4. Covered(t, i + q) /\ ExactlyCovered(t)
  BY <1>1, <1>3 DEF Covered, ExactlyCovered
<1>5. t.positionMultiplier <= PreciseUnit /\ t.locker \in {AuctionModule, ZeroAddress}
  BY <1>1 DEF ClaimsSound
<1>. QED  BY <1>1, <1>4, <1>5 DEF ClaimsSound

\* A redemption pays out, component by component, no more than the claims burned.
LEMMA RedeemClaims ==
    ASSUME NEW s, NEW i \in Nat, ClaimsSound(s, i), NEW q \in Nat, NEW t \in redeem(s, q)
    PROVE  ClaimsSound(t, i)
<1>0. Inv(s) /\ Covered(s, i) /\ ExactlyCovered(s)
  BY DEF ClaimsSound
<1>. DEFINE redeemed == redeemedUnits(s, q)
<1>1. /\ Inv(t)
      /\ q <= s.totalSupply /\ t.totalSupply = s.totalSupply - q
      /\ t.virtualUnit = s.virtualUnit /\ t.positionMultiplier = s.positionMultiplier
      /\ t.locker = s.locker
      /\ \A c \in Tokens :
             /\ redeemed[c] \in Nat /\ redeemed[c] <= s.held[c]
             /\ t.held[c] = s.held[c] - redeemed[c]
             /\ redeemed[c] * PreciseUnit <= q * getDefaultPositionRealUnit(s, c)
  BY <1>0, IsIssuance, RedeemEffect
<1>2. s.totalSupply \in Nat /\ s.held \in [Tokens -> Nat]
  BY <1>0 DEF Inv, SetTokenState
<1>. HIDE DEF redeemed
<1>3. ASSUME NEW c \in Tokens
      PROVE  /\ t.virtualUnit[c] * t.positionMultiplier * t.totalSupply
                    <= PreciseUnit * (t.held[c] * PreciseUnit + i)
             /\ s.positionMultiplier = PreciseUnit =>
                    t.virtualUnit[c] * t.totalSupply <= t.held[c] * PreciseUnit
  <2>. DEFINE v == s.virtualUnit[c]
              real == getDefaultPositionRealUnit(s, c)
              claim == v * s.positionMultiplier
              n == s.totalSupply
              h == s.held[c]
              paid == redeemed[c]
  <2>1. v \in Nat /\ real \in Nat /\ claim \in Nat /\ real * PreciseUnit <= claim
    BY <1>0, RealUnitBrackets
  <2>2. /\ n \in Nat /\ h \in Nat /\ q <= n /\ paid \in Nat /\ paid <= h
        /\ t.held[c] = h - paid /\ t.totalSupply = n - q
        /\ paid * PreciseUnit <= q * real
    BY <1>1, <1>2
  <2>3. claim * n <= PreciseUnit * (h * PreciseUnit + i)
    BY <1>0 DEF Covered
  <2>4. s.positionMultiplier = PreciseUnit => real = v /\ v * n <= h * PreciseUnit
    BY <1>0, UnscaledUnit DEF ExactlyCovered
  <2>5. t.virtualUnit[c] * t.positionMultiplier = claim /\ t.virtualUnit[c] = v
    BY <1>1
  <2>. HIDE DEF v, real, claim, n, h, paid
  <2>6. claim * (n - q) <= PreciseUnit * ((h - paid) * PreciseUnit + i)
    BY <2>1, <2>2, <2>3, RedeemCovers
  <2>7. s.positionMultiplier = PreciseUnit => v * (n - q) <= (h - paid) * PreciseUnit
    <3>. SUFFICES ASSUME s.positionMultiplier = PreciseUnit
                  PROVE  v * (n - q) <= (h - paid) * PreciseUnit
      OBVIOUS
    <3>1. v * n <= h * PreciseUnit /\ paid * PreciseUnit <= q * v
      BY <2>2, <2>4
    <3>2. /\ v * (n - q) = v * n - q * v
          /\ (h - paid) * PreciseUnit = h * PreciseUnit - paid * PreciseUnit
      BY <2>1, <2>2, PreciseUnitAssumption
    <3>3. /\ v * n \in Nat /\ q * v \in Nat /\ h * PreciseUnit \in Nat
          /\ paid * PreciseUnit \in Nat
      BY <2>1, <2>2, PreciseUnitAssumption
    <3>4. \A a, b, x, y \in Nat : a <= x /\ y <= b => a - b <= x - y
      OBVIOUS
    <3>. QED  BY <3>1, <3>2, <3>3, <3>4
  <2>. QED  BY <2>2, <2>5, <2>6, <2>7
<1>4. Covered(t, i) /\ ExactlyCovered(t)
  BY <1>1, <1>3 DEF Covered, ExactlyCovered
<1>5. t.positionMultiplier <= PreciseUnit /\ t.locker \in {AuctionModule, ZeroAddress}
  BY <1>1 DEF ClaimsSound
<1>. QED  BY <1>1, <1>4, <1>5 DEF ClaimsSound

\* A fee accrual grows no claim, and a set it leaves at the full multiplier it
\* leaves alone.
LEMMA AccrueClaims ==
    ASSUME NEW s, NEW i \in Nat, ClaimsSound(s, i), NEW f, NEW time \in Nat, FeesSound(f, time),
           NEW t \in accrue(s, f, time)
    PROVE  /\ ClaimsSound(t, i)
           /\ \A c \in Tokens : t.virtualUnit[c] * t.positionMultiplier * t.totalSupply
                  <= s.virtualUnit[c] * s.positionMultiplier * s.totalSupply
           /\ t.virtualUnit = s.virtualUnit
<1>0. Inv(s) /\ Covered(s, i) /\ ExactlyCovered(s) /\ s.positionMultiplier <= PreciseUnit
  BY DEF ClaimsSound
<1>1. /\ s.totalSupply \in Nat /\ s.positionMultiplier \in Nat /\ s.held \in [Tokens -> Nat]
      /\ \A c \in Tokens : s.virtualUnit[c] \in Nat
  <2>1. \A c \in Tokens : s.virtualUnit[c] \in Nat
    BY <1>0, RealUnitBrackets
  <2>. QED  BY <1>0, <2>1 DEF Inv, SetTokenState
<1>2. CASE t = s
  BY <1>1, <1>2
<1>3. CASE t # s
  <2>. DEFINE m == s.positionMultiplier
              n == s.totalSupply
              inflation == calculateStreamingFee(f, time)
              minted == calculateStreamingFeeInflation(s, inflation)
              newM == t.positionMultiplier
  <2>1. /\ Inv(t) /\ inflation \in Nat /\ inflation < PreciseUnit
        /\ minted \in Nat /\ minted * (PreciseUnit - inflation) <= inflation * n
        /\ t.totalSupply = n + minted
        /\ newM \in Nat /\ newM * PreciseUnit <= m * (PreciseUnit - inflation)
        /\ t.virtualUnit = s.virtualUnit /\ t.held = s.held /\ t.locker = s.locker
    BY <1>0, <1>3, AccrueEffect DEF FeesSound
  <2>2. m \in Nat /\ n \in Nat /\ m <= PreciseUnit
    BY <1>0, <1>1
  <2>. HIDE DEF m, n, inflation, minted, newM
  <2>3. newM * (n + minted) <= m * n /\ newM <= m
    BY <2>1, <2>2, FeeShrinksClaims
  <2>4. ASSUME NEW c \in Tokens
        PROVE  t.virtualUnit[c] * t.positionMultiplier * t.totalSupply
                   <= s.virtualUnit[c] * s.positionMultiplier * s.totalSupply
    <3>. DEFINE v == s.virtualUnit[c]
                x == newM * (n + minted)
                y == m * n
    <3>1. v \in Nat /\ x \in Nat /\ y \in Nat /\ x <= y
      BY <1>1, <2>1, <2>2, <2>3
    <3>2. v * newM * (n + minted) = v * x /\ v * m * n = v * y
      BY <1>1, <2>1, <2>2
    <3>. HIDE DEF v, x, y
    <3>3. v * x <= v * y
      BY <3>1
    <3>4. /\ t.virtualUnit[c] * t.positionMultiplier * t.totalSupply = v * newM * (n + minted)
          /\ s.virtualUnit[c] * s.positionMultiplier * s.totalSupply = v * m * n
      BY <2>1 DEF v, newM, m, n
    <3>. QED  BY <3>2, <3>3, <3>4
  <2>5. Covered(t, i)
    <3>. SUFFICES ASSUME NEW c \in Tokens
                  PROVE  t.virtualUnit[c] * t.positionMultiplier * t.totalSupply
                             <= PreciseUnit * (t.held[c] * PreciseUnit + i)
      BY DEF Covered
    <3>. DEFINE a == t.virtualUnit[c] * t.positionMultiplier * t.totalSupply
                b == s.virtualUnit[c] * s.positionMultiplier * s.totalSupply
                z == PreciseUnit * (s.held[c] * PreciseUnit + i)
    <3>1. a <= b /\ b <= z
      BY <1>0, <2>4 DEF Covered
    <3>2. b \in Int /\ z \in Int
      BY <1>1, PreciseUnitAssumption
    <3>3. a \in Int
      BY <2>1 DEF Inv, SetTokenState
    <3>4. z = PreciseUnit * (t.held[c] * PreciseUnit + i)
      BY <2>1
    <3>. HIDE DEF a, b, z
    <3>5. a <= z
      BY <3>1, <3>2, <3>3
    <3>. QED  BY <3>4, <3>5 DEF a
  <2>6. newM = PreciseUnit => m = PreciseUnit /\ minted = 0
    <3>. SUFFICES ASSUME newM = PreciseUnit
                  PROVE  m = PreciseUnit /\ minted = 0
      OBVIOUS
    <3>1. m = PreciseUnit
      BY <2>1, <2>2, <2>3, PreciseUnitAssumption
    <3>2. PreciseUnit * PreciseUnit <= PreciseUnit * (PreciseUnit - inflation)
      BY <2>1, <3>1
    <3>3. inflation = 0
      BY <2>1, <3>2, PreciseUnitAssumption
    <3>4. minted * PreciseUnit <= 0
      BY <2>1, <2>2, <3>3, PreciseUnitAssumption
    <3>5. minted = 0
      BY <2>1, <3>4, PreciseUnitAssumption
    <3>. QED  BY <3>1, <3>5
  <2>7. ExactlyCovered(t)
    BY <1>0, <2>1, <2>2, <2>6 DEF ExactlyCovered, newM, m, n
  <2>8. newM <= PreciseUnit /\ t.locker \in {AuctionModule, ZeroAddress}
    BY <2>1, <2>2, <2>3, PreciseUnitAssumption DEF ClaimsSound
  <2>. QED  BY <2>1, <2>4, <2>5, <2>7, <2>8 DEF ClaimsSound, newM
<1>. QED  BY <1>2, <1>3

\* A bid leaves both positions it moves within the balances, whatever the
\* shortfall was before.
LEMMA BidClaims ==
    ASSUME NEW s, NEW i \in Nat, ClaimsSound(s, i), NEW sent \in Tokens, NEW received \in Tokens,
           NEW quantitySent, NEW quantityReceived, NEW t,
           Settled(s, t, sent, received, quantitySent, quantityReceived)
    PROVE  ClaimsSound(t, i)
<1>0. Inv(s) /\ Covered(s, i) /\ ExactlyCovered(s)
  BY DEF ClaimsSound
<1>1. /\ Inv(t) /\ Untouched(s, t)
      /\ \A d \in Tokens \ {sent, received} :
             t.held[d] = s.held[d] /\ t.virtualUnit[d] = s.virtualUnit[d]
      /\ \A d \in {sent, received} :
             t.virtualUnit[d] * t.positionMultiplier * t.totalSupply
                 <= PreciseUnit * (t.held[d] * PreciseUnit)
  BY DEF Settled
<1>2. t.positionMultiplier = s.positionMultiplier /\ t.totalSupply = s.totalSupply
  BY <1>1 DEF Untouched
<1>3. /\ t.totalSupply \in Nat /\ t.positionMultiplier \in Nat /\ t.held \in [Tokens -> Nat]
      /\ \A d \in Tokens : t.virtualUnit[d] \in Nat
  <2>1. \A d \in Tokens : t.virtualUnit[d] \in Nat
    BY <1>1, RealUnitBrackets
  <2>. QED  BY <1>1, <2>1 DEF Inv, SetTokenState
<1>4. ASSUME NEW d \in Tokens
      PROVE  /\ t.virtualUnit[d] * t.positionMultiplier * t.totalSupply
                    <= PreciseUnit * (t.held[d] * PreciseUnit + i)
             /\ t.positionMultiplier = PreciseUnit =>
                    t.virtualUnit[d] * t.totalSupply <= t.held[d] * PreciseUnit
  <2>1. CASE d \in {sent, received}
    <3>. DEFINE v == t.virtualUnit[d]
                n == t.totalSupply
                claims == v * t.positionMultiplier * n
                x == t.held[d] * PreciseUnit
                y == v * n
    <3>1. claims \in Nat /\ x \in Nat /\ y \in Nat /\ claims <= PreciseUnit * x
      BY <1>1, <1>3, <2>1, PreciseUnitAssumption
    <3>2. t.positionMultiplier = PreciseUnit => claims = PreciseUnit * y
      BY <1>3, PreciseUnitAssumption
    <3>. HIDE DEF v, claims, x, y, n
    <3>3. claims <= PreciseUnit * (x + i)
      BY <3>1, PreciseUnitAssumption
    <3>4. t.positionMultiplier = PreciseUnit => y <= x
      BY <3>1, <3>2, PreciseUnitAssumption
    <3>. QED  BY <3>3, <3>4 DEF v, claims, x, y, n
  <2>2. CASE d \notin {sent, received}
    BY <1>0, <1>1, <1>2, <2>2 DEF Covered, ExactlyCovered
  <2>. QED  BY <2>1, <2>2
<1>5. Covered(t, i) /\ ExactlyCovered(t)
  BY <1>4 DEF Covered, ExactlyCovered
<1>6. t.positionMultiplier <= PreciseUnit /\ t.locker \in {AuctionModule, ZeroAddress}
  BY <1>1 DEF ClaimsSound, Untouched
<1>. QED  BY <1>1, <1>5, <1>6 DEF ClaimsSound
-----------------------------------------------------------------------------
(* Steps that leave the balances and the claims alone. *)

SameMoney(s, t) ==
    /\ t.positionMultiplier = s.positionMultiplier /\ t.totalSupply = s.totalSupply
    /\ t.virtualUnit = s.virtualUnit /\ t.held = s.held

\* A module is added, initialized or removed.
LEMMA ModuleStateFrame ==
    ASSUME NEW s, NEW i, ClaimsSound(s, i), NEW m \in Modules, NEW state \in ModuleState,
           ~s.isLocked \/ s.moduleStates[m] = "NONE",
           NEW t, t = [s EXCEPT !.moduleStates[m] = state]
    PROVE  /\ ClaimsSound(t, i) /\ SameMoney(s, t) /\ t.isLocked = s.isLocked
           /\ t.moduleStates[m] = state
           /\ \A other \in Modules \ {m} : t.moduleStates[other] = s.moduleStates[other]
<1>1. Inv(s) /\ s \in SetTokenState
  BY DEF ClaimsSound, Inv
<1>2. Inv(t)
  BY <1>1, ModuleStateInv
<1>3. /\ SameMoney(s, t) /\ t.isLocked = s.isLocked /\ t.locker = s.locker
      /\ t.moduleStates = [s.moduleStates EXCEPT ![m] = state]
  BY <1>1 DEF SetTokenState, SameMoney
<1>4. ClaimsSound(t, i)
  <2>1. t.locker \in {AuctionModule, ZeroAddress}
    BY <1>3 DEF ClaimsSound
  <2>. QED  BY <1>2, <1>3, <2>1, ClaimsFrame DEF SameMoney
<1>5. s.moduleStates \in [Modules -> ModuleState]
  BY <1>1 DEF SetTokenState
<1>. QED  BY <1>3, <1>4, <1>5

\* The manager changes, or the Controller's answers do.
LEMMA AnswersFrame ==
    ASSUME NEW s, NEW i, ClaimsSound(s, i), NEW t,
           \/ \E newManager \in Managers : t = [s EXCEPT !.manager = newManager]
           \/ \E enabled \in SUBSET Modules : t = [s EXCEPT !.isModule = enabled]
           \/ t = [s EXCEPT !.isSet = FALSE]
    PROVE  /\ ClaimsSound(t, i) /\ SameMoney(s, t) /\ t.isLocked = s.isLocked
           /\ t.moduleStates = s.moduleStates
<1>1. Inv(s) /\ s \in SetTokenState
  BY DEF ClaimsSound, Inv
<1>2. /\ t \in SetTokenState /\ SameMoney(s, t) /\ t.isLocked = s.isLocked
      /\ t.locker = s.locker /\ t.moduleStates = s.moduleStates
      /\ t.components = s.components /\ t.externalPositionModules = s.externalPositionModules
      /\ t.externalUnit = s.externalUnit
  <2>1. CASE \E newManager \in Managers : t = [s EXCEPT !.manager = newManager]
    BY <1>1, <2>1 DEF SetTokenState, SameMoney
  <2>2. CASE \E enabled \in SUBSET Modules : t = [s EXCEPT !.isModule = enabled]
    BY <1>1, <2>2 DEF SetTokenState, SameMoney
  <2>3. CASE t = [s EXCEPT !.isSet = FALSE]
    BY <1>1, <2>3 DEF SetTokenState, SameMoney
  <2>. QED  BY <2>1, <2>2, <2>3
<1>3. LockHeld(t)
  BY <1>1, <1>2 DEF Inv, LockHeld
<1>4. Inv(t)
  BY <1>1, <1>2, <1>3, PositionsUntouchedInv DEF SameMoney
<1>5. t.locker \in {AuctionModule, ZeroAddress}
  BY <1>2 DEF ClaimsSound
<1>. QED  BY <1>2, <1>4, <1>5, ClaimsFrame DEF SameMoney

\* The auction module locks the set or lets it go.
LEMMA LockFrame ==
    ASSUME NEW s, NEW i, ClaimsSound(s, i),
           NEW t \in lock(s, AuctionModule) \cup unlock(s, AuctionModule)
    PROVE  /\ ClaimsSound(t, i) /\ SameMoney(s, t)
           /\ t.moduleStates = s.moduleStates
           /\ t.locker = AuctionModule <=> t.isLocked
<1>1. Inv(s) /\ s \in SetTokenState /\ AuctionModule \in Modules /\ AuctionModule # ZeroAddress
  BY ModulesAssumption, ZeroAddressAssumption DEF ClaimsSound, Inv
<1>2. Inv(t)
  BY <1>1, SupplyAndLockInv
<1>3. /\ SameMoney(s, t) /\ t.moduleStates = s.moduleStates
      /\ t.locker \in {AuctionModule, ZeroAddress}
  BY <1>1 DEF lock, unlock, Require, SetTokenState, SameMoney
<1>4. t.locker = AuctionModule <=> t.isLocked
  BY <1>1, <1>2, <1>3 DEF Inv, LockHeld
<1>. QED  BY <1>2, <1>3, <1>4, ClaimsFrame DEF SameMoney
-----------------------------------------------------------------------------
(* The auction module's own state. *)

SamePermissions(a, b) ==
    /\ b.bidAllowList = a.bidAllowList /\ b.biddersHistory = a.biddersHistory
    /\ b.isAnyoneAllowedToBid = a.isAnyoneAllowedToBid

\* startRebalance gives every component a target and a price, and starts now.
LEMMA StartRebalanceEffect ==
    ASSUME NEW s, NEW a, NEW time \in Nat, AuctionSound(a, time), Inv(s), NEW caller,
           NEW quote \in Tokens, NEW added \in SUBSET Tokens,
           NEW targets \in [s.components \cup added -> Nat],
           NEW configs \in [s.components \cup added -> PriceConfigs],
           NEW shouldLock, NEW duration \in Nat, NEW multiplier \in Nat,
           NEW r \in startRebalance(s, a, caller, quote, added, targets, configs, shouldLock,
                                    duration, multiplier, time)
    PROVE  /\ r.set \in {s} \cup lock(s, AuctionModule)
           /\ AuctionSound(r.auction, time)
           /\ SamePermissions(a, r.auction)
           /\ s.moduleStates[AuctionModule] = "INITIALIZED"
<1>. DEFINE locked == IF shouldLock /\ s.locker # AuctionModule THEN lock(s, AuctionModule) ELSE {s}
            K == s.components \cup added
<1>1. K \subseteq Tokens
  BY DEF Inv, SetTokenState
<1>2. PICK b :
          /\ r.set \in locked
          /\ r.auction = b
          /\ b = [a EXCEPT
                    !.quoteAsset = quote, !.rebalanceStartTime = time,
                    !.rebalanceDuration = duration, !.positionMultiplier = multiplier,
                    !.rebalanceComponents = K,
                    !.targetUnit = [c \in Tokens |-> IF c \in K THEN targets[c]
                                                     ELSE a.targetUnit[c]],
                    !.priceConfig = [c \in Tokens |-> IF c \in K THEN configs[c]
                                                      ELSE a.priceConfig[c]]]
          /\ onlyManagerAndValidSet(s, AuctionModule, caller)
  <2>. DEFINE started(components) ==
                [a EXCEPT
                    !.quoteAsset = quote, !.rebalanceStartTime = time,
                    !.rebalanceDuration = duration, !.positionMultiplier = multiplier,
                    !.rebalanceComponents = components,
                    !.targetUnit = [c \in Tokens |-> IF c \in components THEN targets[c]
                                                     ELSE a.targetUnit[c]],
                    !.priceConfig = [c \in Tokens |-> IF c \in components THEN configs[c]
                                                      ELSE a.priceConfig[c]]]
              pairs == {x \in locked \X aggregateComponents(s, added) :
                           /\ onlyManagerAndValidSet(s, AuctionModule, caller)
                           /\ validAuctionParams(x[2], added, targets, configs)
                           /\ \A c \in x[2] : ~hasExternalPosition(s, c)}
  <2>1. r \in {[set |-> x[1], auction |-> started(x[2])] : x \in pairs}
    BY DEF startRebalance
  <2>2. PICK x \in pairs : r = [set |-> x[1], auction |-> started(x[2])]
    BY <2>1
  <2>3. /\ x[1] \in locked /\ x[2] \in aggregateComponents(s, added)
        /\ onlyManagerAndValidSet(s, AuctionModule, caller)
    BY <2>2
  <2>4. x[2] = K
    BY <2>3 DEF aggregateComponents, Require
  <2>5. r.set = x[1] /\ r.auction = started(K)
    BY <2>2, <2>4
  <2>. HIDE DEF locked
  <2>. QED  BY <2>3, <2>5
<1>3. a \in AuctionState
  BY DEF AuctionSound
<1>4. /\ b.quoteAsset = quote /\ b.rebalanceStartTime = time /\ b.rebalanceComponents = K
      /\ b.priceConfig = [c \in Tokens |-> IF c \in K THEN configs[c] ELSE a.priceConfig[c]]
      /\ SamePermissions(a, b)
  BY <1>2, <1>3 DEF AuctionState, SamePermissions
<1>5. b \in AuctionState
  <2>1. a.targetUnit \in [Tokens -> Nat] /\ a.priceConfig \in [Tokens -> PriceConfigs \cup {NoConfig}]
    BY <1>3 DEF AuctionState
  <2>. DEFINE newTargets == [c \in Tokens |-> IF c \in K THEN targets[c] ELSE a.targetUnit[c]]
              newConfigs == [c \in Tokens |-> IF c \in K THEN configs[c] ELSE a.priceConfig[c]]
  <2>2. newTargets \in [Tokens -> Nat]
    BY <2>1
  <2>3. newConfigs \in [Tokens -> PriceConfigs \cup {NoConfig}]
    BY <2>1
  <2>4. b = [a EXCEPT
                !.quoteAsset = quote, !.rebalanceStartTime = time,
                !.rebalanceDuration = duration, !.positionMultiplier = multiplier,
                !.rebalanceComponents = K, !.targetUnit = newTargets, !.priceConfig = newConfigs]
    BY <1>2
  <2>. HIDE DEF newTargets, newConfigs, K
  <2>. QED  BY <1>1, <1>3, <2>2, <2>3, <2>4 DEF AuctionState
<1>6. \A c \in K : b.priceConfig[c] \in PriceConfigs
  BY <1>1, <1>4
<1>7. AuctionSound(b, time)
  BY <1>4, <1>5, <1>6 DEF AuctionSound
<1>8. r.set \in {s} \cup lock(s, AuctionModule)
  BY <1>2
<1>9. s.moduleStates[AuctionModule] = "INITIALIZED"
  BY <1>2 DEF onlyManagerAndValidSet, validAndInitializedSet
<1>. QED  BY <1>2, <1>4, <1>7, <1>8, <1>9

\* What changes a rebalance's terms leaves its components, quote asset, start
\* and the permissions alone: raiseAssetTargets, setRaiseTargetPercentage and
\* the end that an early unlock sets.
LEMMA TermsFrame ==
    ASSUME NEW a, NEW time, AuctionSound(a, time), NEW b, NEW x \in Nat,
           \/ b = [a EXCEPT !.positionMultiplier = x]
           \/ b = [a EXCEPT !.raiseTargetPercentage = x]
           \/ b = [a EXCEPT !.rebalanceDuration = x]
    PROVE  AuctionSound(b, time) /\ SamePermissions(a, b)
<1>1. a \in AuctionState
  BY DEF AuctionSound
<1>2. /\ b \in AuctionState /\ SamePermissions(a, b)
      /\ b.rebalanceStartTime = a.rebalanceStartTime
      /\ b.rebalanceComponents = a.rebalanceComponents
      /\ b.quoteAsset = a.quoteAsset /\ b.priceConfig = a.priceConfig
  <2>1. CASE b = [a EXCEPT !.positionMultiplier = x]
    BY <1>1, <2>1 DEF AuctionState, SamePermissions
  <2>2. CASE b = [a EXCEPT !.raiseTargetPercentage = x]
    BY <1>1, <2>2 DEF AuctionState, SamePermissions
  <2>3. CASE b = [a EXCEPT !.rebalanceDuration = x]
    BY <1>1, <2>3 DEF AuctionState, SamePermissions
  <2>. QED  BY <2>1, <2>2, <2>3
<1>. QED  BY <1>2 DEF AuctionSound

\* Raising the targets lowers the rebalance's multiplier.
LEMMA RaiseEffect ==
    ASSUME NEW s, NEW a, NEW bidder, NEW time, AuctionSound(a, time),
           NEW b \in raiseAssetTargets(s, a, bidder, time)
    PROVE  /\ AuctionSound(b, time) /\ SamePermissions(a, b)
           /\ ~isRebalanceDurationElapsed(a, time)
<1>. DEFINE x == preciseDiv(a.positionMultiplier, PreciseUnit + a.raiseTargetPercentage)
<1>1. b = [a EXCEPT !.positionMultiplier = x] /\ ~isRebalanceDurationElapsed(a, time)
  <2>. DEFINE answers == IF isAllowedBidder(a, bidder) /\ ~isRebalanceDurationElapsed(a, time)
                         THEN canRaiseAssetTargets(s, a) ELSE {}
              raised == [a EXCEPT !.positionMultiplier = x]
  <2>1. PICK can \in answers : b \in Require(can, raised)
    BY DEF raiseAssetTargets
  <2>2. ~isRebalanceDurationElapsed(a, time)
    BY <2>1
  <2>3. b = raised
    BY <2>1 DEF Require
  <2>. QED  BY <2>2, <2>3
<1>2. x \in Nat
  <2>1. a.positionMultiplier \in Nat /\ a.raiseTargetPercentage \in Nat
    BY DEF AuctionSound, AuctionState
  <2>2. /\ a.positionMultiplier * PreciseUnit \in Nat
        /\ PreciseUnit + a.raiseTargetPercentage \in Nat \ {0}
    BY <2>1, PreciseUnitAssumption
  <2>. QED  BY <2>2, Euclid DEF preciseDiv
<1>. HIDE DEF x
<1>. QED  BY <1>1, <1>2, TermsFrame

\* An unlock comes after the end or makes one.
LEMMA UnlockEffect ==
    ASSUME NEW s, NEW a, NEW time \in Nat, AuctionSound(a, time),
           NEW r \in unlockRebalance(s, a, time)
    PROVE  /\ r.set \in unlock(s, AuctionModule)
           /\ AuctionSound(r.auction, time) /\ SamePermissions(a, r.auction)
           /\ isRebalanceDurationElapsed(r.auction, time)
<1>. DEFINE ended == [a EXCEPT !.rebalanceDuration = 0]
<1>1. PICK early : /\ r.set \in unlock(s, AuctionModule)
                   /\ r.auction = IF early THEN ended ELSE a
                   /\ isRebalanceDurationElapsed(a, time) \/ early
  <2>. DEFINE answers == IF s.locker = AuctionModule THEN canUnlockEarly(s, a) ELSE {}
              outcomes(early) ==
                  IF ~(isRebalanceDurationElapsed(a, time) \/ early) THEN {}
                  ELSE {[set |-> t, auction |-> IF early THEN ended ELSE a]
                            : t \in unlock(s, AuctionModule)}
  <2>1. r \in UNION {outcomes(early) : early \in answers}
    BY DEF unlockRebalance
  <2>2. PICK early \in answers : r \in outcomes(early)
    BY <2>1
  <2>3. PICK t \in unlock(s, AuctionModule) :
            r = [set |-> t, auction |-> IF early THEN ended ELSE a]
    BY <2>2
  <2>4. isRebalanceDurationElapsed(a, time) \/ early
    BY <2>2
  <2>5. r.set = t /\ r.auction = IF early THEN ended ELSE a
    BY <2>3
  <2>. QED  BY <2>3, <2>4, <2>5
<1>2. AuctionSound(ended, time) /\ SamePermissions(a, ended)
  BY TermsFrame
<1>3. isRebalanceDurationElapsed(ended, time)
  <2>1. ended.rebalanceDuration = 0 /\ ended.rebalanceStartTime = a.rebalanceStartTime
    BY DEF AuctionSound, AuctionState
  <2>2. a.rebalanceStartTime \in Nat /\ a.rebalanceStartTime <= time
    BY DEF AuctionSound, AuctionState
  <2>. QED  BY <2>1, <2>2 DEF isRebalanceDurationElapsed
<1>4. SamePermissions(a, a)
  BY DEF SamePermissions
<1>. HIDE DEF ended
<1>. QED  BY <1>1, <1>2, <1>3, <1>4

PermissionsEdited(a, b, time) ==
    /\ AuctionSound(b, time) /\ b.bidAllowList \subseteq b.biddersHistory
    /\ b.rebalanceStartTime = a.rebalanceStartTime
    /\ b.rebalanceDuration = a.rebalanceDuration

\* setBidderStatus and setAnyoneBid: only on an initialized module, and the
\* history follows the list.
LEMMA PermissionEffect ==
    ASSUME NEW s, NEW a, NEW time, AuctionSound(a, time), a.bidAllowList \subseteq a.biddersHistory,
           NEW caller, NEW chosen \in SUBSET Bidders, NEW statuses \in [chosen -> BOOLEAN],
           NEW status \in BOOLEAN,
           NEW b \in setBidderStatus(s, a, caller, statuses) \cup setAnyoneBid(s, a, caller, status)
    PROVE  PermissionsEdited(a, b, time) /\ s.moduleStates[AuctionModule] = "INITIALIZED"
<1>1. a \in AuctionState
  BY DEF AuctionSound
<1>. DEFINE allowed == {d \in DOMAIN statuses : statuses[d]}
            list == (a.bidAllowList \ DOMAIN statuses) \cup allowed
            history == (a.biddersHistory \ DOMAIN statuses) \cup allowed
<1>2. list \subseteq Bidders /\ history \subseteq Bidders /\ list \subseteq history
  BY <1>1 DEF AuctionState
<1>3. /\ onlyManagerAndValidSet(s, AuctionModule, caller)
      /\ \/ b = [a EXCEPT !.bidAllowList = list, !.biddersHistory = history]
         \/ b = [a EXCEPT !.isAnyoneAllowedToBid = status]
  BY DEF setBidderStatus, setAnyoneBid, Require
<1>. HIDE DEF list, history
<1>4. /\ b \in AuctionState /\ b.bidAllowList \subseteq b.biddersHistory
      /\ b.rebalanceStartTime = a.rebalanceStartTime
      /\ b.rebalanceDuration = a.rebalanceDuration
      /\ b.rebalanceComponents = a.rebalanceComponents
      /\ b.quoteAsset = a.quoteAsset /\ b.priceConfig = a.priceConfig
  <2>1. CASE b = [a EXCEPT !.bidAllowList = list, !.biddersHistory = history]
    BY <1>1, <1>2, <2>1 DEF AuctionState
  <2>2. CASE b = [a EXCEPT !.isAnyoneAllowedToBid = status]
    BY <1>1, <2>2 DEF AuctionState
  <2>. QED  BY <1>3, <2>1, <2>2
<1>5. s.moduleStates[AuctionModule] = "INITIALIZED"
  BY <1>3 DEF onlyManagerAndValidSet, validAndInitializedSet
<1>. QED  BY <1>4, <1>5 DEF AuctionSound, PermissionsEdited

\* initialize: the targets become the current units.
LEMMA InitializeAuctionEffect ==
    ASSUME NEW s, Inv(s), NEW a, NEW time, AuctionSound(a, time), NEW caller,
           NEW r \in initializeAuction(s, a, caller)
    PROVE  /\ r.set \in initializeModule(s, AuctionModule)
           /\ AuctionSound(r.auction, time) /\ SamePermissions(a, r.auction)
           /\ r.auction.rebalanceStartTime = a.rebalanceStartTime
           /\ r.auction.rebalanceDuration = a.rebalanceDuration
<1>. DEFINE targets == [c \in Tokens |-> IF c \in s.components
                                         THEN getDefaultPositionRealUnit(s, c)
                                         ELSE a.targetUnit[c]]
            b == [a EXCEPT !.targetUnit = targets, !.positionMultiplier = s.positionMultiplier]
<1>1. PICK t : t \in initializeModule(s, AuctionModule) /\ r = [set |-> t, auction |-> b]
  BY DEF initializeAuction
<1>2. a \in AuctionState /\ a.targetUnit \in [Tokens -> Nat]
  BY DEF AuctionSound, AuctionState
<1>3. targets \in [Tokens -> Nat] /\ s.positionMultiplier \in Nat
  <2>1. \A c \in Tokens : getDefaultPositionRealUnit(s, c) \in Nat
    BY RealUnitBrackets
  <2>2. s.positionMultiplier \in Nat
    BY DEF Inv, SetTokenState
  <2>. QED  BY <1>2, <2>1, <2>2
<1>. HIDE DEF targets
<1>4. /\ b \in AuctionState /\ SamePermissions(a, b)
      /\ b.rebalanceStartTime = a.rebalanceStartTime
      /\ b.rebalanceDuration = a.rebalanceDuration
      /\ b.rebalanceComponents = a.rebalanceComponents
      /\ b.quoteAsset = a.quoteAsset /\ b.priceConfig = a.priceConfig
  BY <1>2, <1>3 DEF AuctionState, SamePermissions
<1>5. AuctionSound(b, time)
  BY <1>4 DEF AuctionSound
<1>6. r.set = t /\ r.auction = b
  BY <1>1
<1>. HIDE DEF b
<1>. QED  BY <1>1, <1>4, <1>5, <1>6

\* removeModule: no rebalance and no permission is left behind.
LEMMA RemoveAuctionEffect ==
    ASSUME NEW a, NEW time \in Nat, AuctionSound(a, time), a.bidAllowList \subseteq a.biddersHistory
    PROVE  LET b == removeAuction(a)
           IN  /\ AuctionSound(b, time) /\ isRebalanceDurationElapsed(b, time)
               /\ b.bidAllowList = {} /\ b.biddersHistory = {} /\ ~b.isAnyoneAllowedToBid
<1>. DEFINE n == noRebalance(a)
            b == removeAuction(a)
<1>1. a \in AuctionState
  BY DEF AuctionSound
<1>2. /\ n \in AuctionState /\ n.rebalanceComponents = {} /\ n.rebalanceStartTime = 0
      /\ n.rebalanceDuration = 0 /\ n.bidAllowList = a.bidAllowList
  BY <1>1 DEF AuctionState, noRebalance
<1>3. b = [n EXCEPT !.bidAllowList = n.bidAllowList \ a.biddersHistory, !.biddersHistory = {},
                    !.isAnyoneAllowedToBid = FALSE]
  BY DEF removeAuction
<1>. HIDE DEF n, b
<1>4. n.bidAllowList \ a.biddersHistory = {}
  BY <1>2
<1>5. /\ b \in AuctionState /\ b.rebalanceComponents = {} /\ b.rebalanceStartTime = 0
      /\ b.rebalanceDuration = 0 /\ b.bidAllowList = {} /\ b.biddersHistory = {}
      /\ ~b.isAnyoneAllowedToBid
  BY <1>2, <1>3, <1>4 DEF AuctionState
<1>6. AuctionSound(b, time) /\ isRebalanceDurationElapsed(b, time)
  BY <1>5 DEF AuctionSound, isRebalanceDurationElapsed
<1>. QED  BY <1>5, <1>6 DEF b

\* The module's answers after a step that gives nobody a new permission.
LEMMA ControlFrame ==
    ASSUME NEW a, NEW time, NEW lockedStart, NEW state, NEW locked,
           ControlSound(a, time, lockedStart, state, locked),
           NEW b, AuctionSound(b, time), SamePermissions(a, b),
           NEW newState, state = "INITIALIZED" => newState = "INITIALIZED",
           NEW newStart, NEW newLocked,
           newStart /\ ~newLocked => isRebalanceDurationElapsed(b, time)
    PROVE  ControlSound(b, time, newStart, newState, newLocked)
BY DEF ControlSound, SamePermissions

\* In a sound state a bid has the quote asset and the price it needs.
LEMMA BidSettles ==
    ASSUME NEW s, Inv(s), NEW a, NEW time \in Nat, AuctionSound(a, time),
           NEW bidder, NEW c \in Tokens, NEW q \in Nat, NEW limit,
           NEW t \in bid(s, a, bidder, c, q, limit, time)
    PROVE  /\ validBidTargets(s, a, c, time) /\ a.quoteAsset \in Tokens
           /\ time - a.rebalanceStartTime \in Nat /\ a.priceConfig[c] \in PriceConfig
           /\ \E price \in getPrice(a.priceConfig[c], time - a.rebalanceStartTime) :
                  /\ price \in Nat
                  /\ \/ Settled(s, t, c, a.quoteAsset, q, preciseMulCeil(q, price))
                     \/ Settled(s, t, a.quoteAsset, c, preciseMul(q, price), q)
<1>1. validBidTargets(s, a, c, time)
  BY DEF bid
<1>2. a.quoteAsset \in Tokens /\ a.priceConfig[c] \in PriceConfig
  BY <1>1, InputsAssumption DEF validBidTargets, AuctionSound
<1>3. time - a.rebalanceStartTime \in Nat
  BY DEF AuctionSound, AuctionState
<1>4. PICK price \in getPrice(a.priceConfig[c], time - a.rebalanceStartTime) :
          \/ Settled(s, t, c, a.quoteAsset, q, preciseMulCeil(q, price))
          \/ Settled(s, t, a.quoteAsset, c, preciseMul(q, price), q)
  BY <1>2, <1>3, BidEffect
<1>5. price \in Nat
  BY <1>2, <1>3, <1>4, PriceNatural
<1>. QED  BY <1>1, <1>2, <1>3, <1>4, <1>5

\* Initially nothing is issued, locked or allowed.
LEMMA InitIInv == Init => IInv
<1>. SUFFICES ASSUME Init PROVE IInv
  OBVIOUS
<1>1. PICK units \in InitialUnits, manager \in Managers \ {ZeroAddress} :
          set = newSetToken(units, Modules, manager)
  BY DEF Init
<1>2. DOMAIN units \subseteq Tokens /\ \A c \in DOMAIN units : units[c] \in Nat \ {0}
  BY InputsAssumption
<1>3. Inv(set)
  BY <1>1, <1>2, NewSetTokenInv
<1>4. /\ set.positionMultiplier = PreciseUnit /\ set.totalSupply = 0 /\ set.locker = ZeroAddress
      /\ set.isLocked = FALSE /\ set.held = [c \in Tokens |-> 0]
  BY <1>1 DEF newSetToken
<1>5. /\ auction = newAuction /\ fees = noFees /\ now = 1 /\ issued = 0
      /\ rebalanceLocked = FALSE
  BY DEF Init
<1>6. ClaimsSound(set, issued)
  <2>1. \A c \in Tokens : set.virtualUnit[c] \in Int
    BY <1>3 DEF Inv, SetTokenState
  <2>2. \A c \in Tokens : /\ set.virtualUnit[c] * set.positionMultiplier * set.totalSupply = 0
                          /\ set.virtualUnit[c] * set.totalSupply = 0
    BY <1>4, <2>1, PreciseUnitAssumption
  <2>3. \A c \in Tokens : set.held[c] * PreciseUnit = 0
    BY <1>4, PreciseUnitAssumption
  <2>4. Covered(set, issued) /\ ExactlyCovered(set)
    BY <1>4, <1>5, <2>2, <2>3, PreciseUnitAssumption DEF Covered, ExactlyCovered
  <2>. QED  BY <1>3, <1>4, <2>4, PreciseUnitAssumption DEF ClaimsSound
<1>7. FeesSound(fees, now)
  BY <1>5 DEF FeesSound, FeeState, noFees
<1>8. AuctionSound(auction, now)
  BY <1>5 DEF AuctionSound, AuctionState, newAuction
<1>9. /\ auction.bidAllowList = {} /\ auction.biddersHistory = {}
      /\ auction.isAnyoneAllowedToBid = FALSE
  BY <1>5 DEF newAuction
<1>. QED  BY <1>5, <1>6, <1>7, <1>8, <1>9 DEF IInv, ControlSound

\* A transaction that mints, burns, pays or trades.
LEMMA MoneyStepInv ==
    ASSUME IInv, HolderNext \/ (\E bidder \in Bidders, c \in Tokens, quantity \in BidQuantities,
                                   limit \in BidLimits : Bid(bidder, c, quantity, limit))
    PROVE  IInv'
<1>. DEFINE state == set.moduleStates[AuctionModule]
<1>0. /\ ClaimsSound(set, issued) /\ FeesSound(fees, now) /\ Inv(set)
      /\ ControlSound(auction, now, rebalanceLocked, state, set.isLocked)
      /\ now \in Nat /\ issued \in Nat /\ rebalanceLocked \in BOOLEAN
  BY DEF IInv, ClaimsSound
<1>1. ASSUME NEW q \in IssueQuantities, Issue(q) PROVE IInv'
  <2>1. /\ set' \in issue(set, q) /\ issued' = issued + q /\ q \in Nat
        /\ UNCHANGED <<auction, fees, now, rebalanceLocked>>
    BY <1>1, InputsAssumption DEF Issue
  <2>2. ClaimsSound(set', issued')
    BY <1>0, <2>1, IssueClaims
  <2>3. set'.moduleStates = set.moduleStates /\ set'.isLocked = set.isLocked
    BY <1>0, <2>1, IsIssuance, IssueEffect
  <2>4. issued' \in Nat
    BY <1>0, <2>1
  <2>. QED  BY <1>0, <2>1, <2>2, <2>3, <2>4 DEF IInv
<1>2. ASSUME NEW q \in RedeemQuantities, Redeem(q) PROVE IInv'
  <2>1. /\ set' \in redeem(set, q) /\ q \in Nat
        /\ UNCHANGED <<auction, fees, now, issued, rebalanceLocked>>
    BY <1>2, InputsAssumption DEF Redeem
  <2>2. ClaimsSound(set', issued')
    BY <1>0, <2>1, RedeemClaims
  <2>3. set'.moduleStates = set.moduleStates /\ set'.isLocked = set.isLocked
    BY <1>0, <2>1, IsIssuance, RedeemEffect
  <2>. QED  BY <1>0, <2>1, <2>2, <2>3 DEF IInv
<1>3. ASSUME NEW c \in Airdropped, Airdrop(c) PROVE IInv'
  <2>1. /\ set' = transferFrom(set, c, 1) /\ c \in Tokens
        /\ UNCHANGED <<auction, fees, now, issued, rebalanceLocked>>
    BY <1>3, InputsAssumption DEF Airdrop
  <2>2. ClaimsSound(set', issued')
    BY <1>0, <2>1, ClaimsGrow
  <2>3. Untouched(set, set')
    BY <1>0, <2>1, TransferInEffect
  <2>. QED  BY <1>0, <2>1, <2>2, <2>3 DEF IInv, Untouched
<1>4. ASSUME AccrueFee PROVE IInv'
  <2>1. PICK r \in accrueFee(set, fees, now) : set' = r.set /\ fees' = r.fees
    BY <1>4 DEF AccrueFee
  <2>2. UNCHANGED <<auction, now, issued, rebalanceLocked>>
    BY <1>4 DEF AccrueFee
  <2>3. PICK t \in accrue(set, fees, now) :
            r = [set |-> t, fees |-> [fees EXCEPT !.lastStreamingFeeTimestamp = now]]
    BY <2>1 DEF accrueFee
  <2>4. set' = t /\ fees' = [fees EXCEPT !.lastStreamingFeeTimestamp = now]
    BY <2>1, <2>3
  <2>5. ClaimsSound(set', issued')
    BY <1>0, <2>2, <2>4, AccrueClaims
  <2>6. t.moduleStates = set.moduleStates /\ t.isLocked = set.isLocked
    <3>1. CASE t = set
      BY <3>1
    <3>2. CASE t # set
      BY <1>0, <3>2, AccrueEffect DEF FeesSound
    <3>. QED  BY <3>1, <3>2
  <2>7. FeesSound(fees', now')
    BY <1>0, <2>2, <2>4 DEF FeesSound, FeeState
  <2>. QED  BY <1>0, <2>2, <2>4, <2>5, <2>6, <2>7 DEF IInv
<1>5. ASSUME NEW bidder \in Bidders, NEW c \in Tokens, NEW q \in BidQuantities,
             NEW limit \in BidLimits, Bid(bidder, c, q, limit)
      PROVE  IInv'
  <2>1. /\ set' \in bid(set, auction, bidder, c, q, limit, now) /\ q \in Nat
        /\ UNCHANGED <<auction, fees, now, issued, rebalanceLocked>>
    BY <1>5, InputsAssumption DEF Bid
  <2>2. AuctionSound(auction, now)
    BY <1>0 DEF ControlSound
  <2>3. PICK price \in Nat :
            /\ auction.quoteAsset \in Tokens
            /\ \/ Settled(set, set', c, auction.quoteAsset, q, preciseMulCeil(q, price))
               \/ Settled(set, set', auction.quoteAsset, c, preciseMul(q, price), q)
    BY <1>0, <2>1, <2>2, BidSettles
  <2>4. ClaimsSound(set', issued)
    BY <1>0, <2>3, BidClaims
  <2>5. Untouched(set, set')
    BY <2>3 DEF Settled
  <2>. QED  BY <1>0, <2>1, <2>4, <2>5 DEF IInv, Untouched
<1>. QED  BY <1>1, <1>2, <1>3, <1>4, <1>5 DEF HolderNext

\* A step of the rebalance or of the manager's settings that trades nothing.
LEMMA RebalanceStepInv ==
    ASSUME IInv, NEW caller,
           \/ \E bidder \in Bidders : RaiseAssetTargets(bidder)
           \/ Unlock
           \/ ManagerNext(caller)
    PROVE  IInv' /\ (SameMoney(set, set') \/ set' \in accrue(set, fees, now))
<1>. DEFINE state == set.moduleStates[AuctionModule]
            Goal == IInv' /\ (SameMoney(set, set') \/ set' \in accrue(set, fees, now))
<1>0. /\ ClaimsSound(set, issued) /\ FeesSound(fees, now) /\ Inv(set)
      /\ ControlSound(auction, now, rebalanceLocked, state, set.isLocked)
      /\ AuctionSound(auction, now) /\ auction.bidAllowList \subseteq auction.biddersHistory
      /\ rebalanceLocked /\ ~set.isLocked => isRebalanceDurationElapsed(auction, now)
      /\ now \in Nat /\ issued \in Nat /\ rebalanceLocked \in BOOLEAN
  BY DEF IInv, ClaimsSound, ControlSound
<1>a. set' = set => SameMoney(set, set')
  BY DEF SameMoney
<1>1. ASSUME NEW bidder \in Bidders, RaiseAssetTargets(bidder) PROVE Goal
  <2>1. /\ auction' \in raiseAssetTargets(set, auction, bidder, now)
        /\ UNCHANGED <<set, fees, now, issued, rebalanceLocked>>
    BY <1>1 DEF RaiseAssetTargets
  <2>2. /\ AuctionSound(auction', now) /\ SamePermissions(auction, auction')
        /\ ~isRebalanceDurationElapsed(auction, now)
    BY <1>0, <2>1, RaiseEffect
  <2>3. ControlSound(auction', now, rebalanceLocked, state, set.isLocked)
    BY <1>0, <2>2, ControlFrame
  <2>. QED  BY <1>0, <1>a, <2>1, <2>3 DEF IInv
<1>2. ASSUME Unlock PROVE Goal
  <2>1. PICK r \in unlockRebalance(set, auction, now) : set' = r.set /\ auction' = r.auction
    BY <1>2 DEF Unlock
  <2>2. UNCHANGED <<fees, now, issued, rebalanceLocked>>
    BY <1>2 DEF Unlock
  <2>3. /\ set' \in unlock(set, AuctionModule)
        /\ AuctionSound(auction', now) /\ SamePermissions(auction, auction')
        /\ isRebalanceDurationElapsed(auction', now)
    BY <1>0, <2>1, UnlockEffect
  <2>4. ClaimsSound(set', issued) /\ SameMoney(set, set') /\ set'.moduleStates = set.moduleStates
    BY <1>0, <2>3, LockFrame
  <2>5. ControlSound(auction', now, rebalanceLocked, state, set'.isLocked)
    BY <1>0, <2>3, ControlFrame
  <2>. QED  BY <1>0, <2>2, <2>4, <2>5 DEF IInv
<1>3. ASSUME NEW newFee \in NewFees, UpdateStreamingFee(caller, newFee) PROVE Goal
  <2>1. PICK r \in updateStreamingFee(set, fees, caller, newFee, now) :
            set' = r.set /\ fees' = r.fees
    BY <1>3 DEF UpdateStreamingFee
  <2>2. UNCHANGED <<auction, now, issued, rebalanceLocked>>
    BY <1>3 DEF UpdateStreamingFee
  <2>3. PICK p \in accrueFee(set, fees, now) : r = [p EXCEPT !.fees.streamingFeePercentage = newFee]
    BY <2>1 DEF updateStreamingFee
  <2>4. PICK t \in accrue(set, fees, now) :
            p = [set |-> t, fees |-> [fees EXCEPT !.lastStreamingFeeTimestamp = now]]
    BY <2>3 DEF accrueFee
  <2>5. /\ set' = t
        /\ fees' = [[fees EXCEPT !.lastStreamingFeeTimestamp = now]
                        EXCEPT !.streamingFeePercentage = newFee]
    BY <2>1, <2>3, <2>4
  <2>6. ClaimsSound(set', issued)
    BY <1>0, <2>5, AccrueClaims
  <2>7. t.moduleStates = set.moduleStates /\ t.isLocked = set.isLocked
    <3>1. CASE t = set
      BY <3>1
    <3>2. CASE t # set
      BY <1>0, <3>2, AccrueEffect DEF FeesSound
    <3>. QED  BY <3>1, <3>2
  <2>8. FeesSound(fees', now)
    <3>. DEFINE f == [fees EXCEPT !.lastStreamingFeeTimestamp = now]
    <3>1. f \in FeeState /\ f.lastStreamingFeeTimestamp = now
      BY <1>0 DEF FeesSound, FeeState
    <3>2. newFee \in Nat
      BY InputsAssumption
    <3>3. fees' = [f EXCEPT !.streamingFeePercentage = newFee]
      BY <2>5
    <3>. HIDE DEF f
    <3>4. fees' \in FeeState /\ fees'.lastStreamingFeeTimestamp = now
      BY <3>1, <3>2, <3>3 DEF FeeState
    <3>. QED  BY <1>0, <3>4 DEF FeesSound
  <2>. QED  BY <1>0, <2>2, <2>4, <2>5, <2>6, <2>7, <2>8 DEF IInv
<1>4. ASSUME NEW recipient \in Recipients, UpdateFeeRecipient(caller, recipient) PROVE Goal
  <2>1. /\ fees' = [fees EXCEPT !.feeRecipient = recipient]
        /\ UNCHANGED <<set, auction, now, issued, rebalanceLocked>>
    BY <1>4 DEF UpdateFeeRecipient, updateFeeRecipient, Require
  <2>2. FeesSound(fees', now)
    BY <1>0, <2>1 DEF FeesSound, FeeState
  <2>. QED  BY <1>0, <1>a, <2>1, <2>2 DEF IInv
<1>5. ASSUME NEW quote \in QuoteAssets, NEW added \in SUBSET (Tokens \ set.components),
             NEW shouldLock \in LockChoices, NEW duration \in Durations,
             NEW multiplier \in StaleMultipliers \cup {set.positionMultiplier},
             StartRebalance(caller, quote, added, shouldLock, duration, multiplier)
      PROVE  Goal
  <2>. DEFINE K == set.components \cup added
              configs(config) == [c \in K |-> config]
  <2>1. PICK targets \in [K -> TargetUnits], config \in PriceConfigs :
            \E r \in startRebalance(set, auction, caller, quote, added, targets, configs(config),
                         shouldLock, duration, multiplier, now) :
                /\ set' = r.set
                /\ auction' = r.auction
                /\ rebalanceLocked' = (r.set.locker = AuctionModule)
    BY <1>5 DEF StartRebalance
  <2>2. PICK r \in startRebalance(set, auction, caller, quote, added, targets, configs(config),
                       shouldLock, duration, multiplier, now) :
            /\ set' = r.set
            /\ auction' = r.auction
            /\ rebalanceLocked' = (r.set.locker = AuctionModule)
    BY <2>1
  <2>3. UNCHANGED <<fees, now, issued>>
    BY <1>5 DEF StartRebalance
  <2>4. /\ quote \in Tokens /\ duration \in Nat /\ multiplier \in Nat /\ added \in SUBSET Tokens
        /\ targets \in [K -> Nat]
    <3>1. set.positionMultiplier \in Nat
      BY <1>0 DEF Inv, SetTokenState
    <3>2. TargetUnits \subseteq Nat
      BY InputsAssumption
    <3>3. targets \in [K -> Nat]
      BY <2>1, <3>2
    <3>. QED  BY <3>1, <3>3, InputsAssumption
  <2>5. configs(config) \in [K -> PriceConfigs]
    BY <2>1
  <2>. HIDE DEF configs
  <2>6. /\ r.set \in {set} \cup lock(set, AuctionModule)
        /\ AuctionSound(r.auction, now)
        /\ SamePermissions(auction, r.auction)
        /\ state = "INITIALIZED"
    BY <1>0, <2>2, <2>4, <2>5, StartRebalanceEffect
  <2>7. /\ ClaimsSound(set', issued) /\ SameMoney(set, set')
        /\ set'.moduleStates = set.moduleStates
        /\ set'.locker = AuctionModule <=> set'.isLocked
    <3>1. CASE r.set = set
      <4>1. set.locker = AuctionModule <=> set.isLocked
        BY <1>0, ModulesAssumption, ZeroAddressAssumption DEF ClaimsSound, Inv, LockHeld
      <4>. QED  BY <1>0, <1>a, <2>2, <3>1, <4>1
    <3>2. CASE r.set \in lock(set, AuctionModule)
      BY <1>0, <2>2, <3>2, LockFrame
    <3>. QED  BY <2>6, <3>1, <3>2
  <2>8. ControlSound(auction', now, rebalanceLocked', state, set'.isLocked)
    BY <1>0, <2>2, <2>6, <2>7, ControlFrame
  <2>9. rebalanceLocked' \in BOOLEAN
    BY <2>2
  <2>. QED  BY <1>0, <2>3, <2>7, <2>8, <2>9 DEF IInv
<1>6. ASSUME NEW percentage \in RaisePercentages, SetRaiseTargetPercentage(caller, percentage)
      PROVE  Goal
  <2>1. /\ auction' = [auction EXCEPT !.raiseTargetPercentage = percentage]
        /\ UNCHANGED <<set, fees, now, issued, rebalanceLocked>> /\ percentage \in Nat
    BY <1>6, InputsAssumption DEF SetRaiseTargetPercentage, setRaiseTargetPercentage, Require
  <2>2. AuctionSound(auction', now) /\ SamePermissions(auction, auction')
    BY <1>0, <2>1, TermsFrame
  <2>3. isRebalanceDurationElapsed(auction', now) <=> isRebalanceDurationElapsed(auction, now)
    BY <1>0, <2>1 DEF isRebalanceDurationElapsed, AuctionSound, AuctionState
  <2>4. ControlSound(auction', now, rebalanceLocked, state, set.isLocked)
    BY <1>0, <2>2, <2>3, ControlFrame
  <2>. QED  BY <1>0, <1>a, <2>1, <2>4 DEF IInv
<1>7. ASSUME NEW chosen \in SUBSET Bidders, NEW statuses \in [chosen -> BOOLEAN],
             NEW status \in BOOLEAN,
             \/ SetBidderStatus(caller, statuses)
             \/ SetAnyoneBid(caller, status)
      PROVE  Goal
  <2>1. /\ auction' \in setBidderStatus(set, auction, caller, statuses)
                             \cup setAnyoneBid(set, auction, caller, status)
        /\ UNCHANGED <<set, fees, now, issued, rebalanceLocked>>
    BY <1>7 DEF SetBidderStatus, SetAnyoneBid
  <2>2. PermissionsEdited(auction, auction', now) /\ state = "INITIALIZED"
    <3>1. /\ AuctionSound(auction, now) /\ auction.bidAllowList \subseteq auction.biddersHistory
          /\ auction' \in setBidderStatus(set, auction, caller, statuses)
                               \cup setAnyoneBid(set, auction, caller, status)
      BY <1>0, <2>1
    <3>. QED  BY <3>1, PermissionEffect
  <2>3. ControlSound(auction', now, rebalanceLocked, state, set.isLocked)
    BY <1>0, <2>2 DEF PermissionsEdited, ControlSound, isRebalanceDurationElapsed
  <2>. QED  BY <1>0, <1>a, <2>1, <2>3 DEF IInv
<1>8. \A chosen \in BidderGroups : chosen \in SUBSET Bidders
  BY InputsAssumption
<1>9. AnyoneChoices \subseteq BOOLEAN /\ FALSE \in BOOLEAN
  BY InputsAssumption
<1>10. ASSUME ManagerNext(caller) PROVE Goal
  <2>1. ASSUME NEW chosen \in BidderGroups, NEW statuses \in [chosen -> BOOLEAN],
               SetBidderStatus(caller, statuses)
        PROVE  Goal
    BY <1>7, <1>8, <1>9, <2>1
  <2>2. ASSUME NEW status \in AnyoneChoices, SetAnyoneBid(caller, status)
        PROVE  Goal
    <3>1. status \in BOOLEAN
      BY <1>9
    <3>2. {} \in SUBSET Bidders /\ [b \in {} |-> TRUE] \in [{} -> BOOLEAN]
      OBVIOUS
    <3>. QED  BY <1>7, <2>2, <3>1, <3>2
  <2>. HIDE DEF Goal
  <2>. QED  BY <1>3, <1>4, <1>5, <1>6, <1>10, <2>1, <2>2 DEF ManagerNext
<1>. QED  BY <1>1, <1>2, <1>10

\* Modules come and go, the manager changes, the owner intervenes.
LEMMA LifecycleStepInv ==
    ASSUME IInv, NEW caller, LifecycleNext(caller) \/ OwnerNext
    PROVE  IInv' /\ SameMoney(set, set')
<1>. DEFINE state == set.moduleStates[AuctionModule]
            Goal == IInv' /\ SameMoney(set, set')
<1>0. /\ ClaimsSound(set, issued) /\ FeesSound(fees, now) /\ Inv(set)
      /\ ControlSound(auction, now, rebalanceLocked, state, set.isLocked)
      /\ AuctionSound(auction, now) /\ auction.bidAllowList \subseteq auction.biddersHistory
      /\ rebalanceLocked /\ ~set.isLocked => isRebalanceDurationElapsed(auction, now)
      /\ now \in Nat /\ issued \in Nat /\ rebalanceLocked \in BOOLEAN
  BY DEF IInv, ClaimsSound, ControlSound
<1>1. /\ IssuanceModule \in Modules /\ StreamingModule \in Modules /\ AuctionModule \in Modules
      /\ AuctionModule # IssuanceModule /\ AuctionModule # StreamingModule
      /\ "NONE" \in ModuleState /\ "PENDING" \in ModuleState /\ "INITIALIZED" \in ModuleState
  BY ModulesAssumption DEF ModuleState
<1>2. SamePermissions(auction, auction)
  BY DEF SamePermissions
<1>3. ASSUME NEW m \in Modules, NEW t \in initializeModule(set, m)
      PROVE  /\ ClaimsSound(t, issued) /\ SameMoney(set, t) /\ t.isLocked = set.isLocked
             /\ t.moduleStates[m] = "INITIALIZED"
             /\ \A other \in Modules \ {m} : t.moduleStates[other] = set.moduleStates[other]
  <2>1. ~set.isLocked /\ t = [set EXCEPT !.moduleStates[m] = "INITIALIZED"]
    BY <1>3 DEF initializeModule, Require
  <2>. QED  BY <1>0, <1>1, <2>1, ModuleStateFrame
<1>4. ASSUME InitializeIssuance(caller) PROVE Goal
  <2>1. /\ set' \in initializeModule(set, IssuanceModule)
        /\ UNCHANGED <<auction, fees, now, issued, rebalanceLocked>>
    BY <1>4 DEF InitializeIssuance, initializeIssuance
  <2>2. /\ ClaimsSound(set', issued) /\ SameMoney(set, set') /\ set'.isLocked = set.isLocked
        /\ set'.moduleStates[AuctionModule] = state
    BY <1>1, <1>3, <2>1
  <2>. QED  BY <1>0, <2>1, <2>2 DEF IInv
<1>5. ASSUME NEW setting \in FeeSettings, NEW recipient \in Recipients,
             InitializeFees(caller, setting, recipient)
      PROVE  Goal
  <2>1. PICK r \in initializeFees(set, fees, caller, setting.fee, setting.maxFee, recipient, now) :
            set' = r.set /\ fees' = r.fees
    BY <1>5 DEF InitializeFees
  <2>2. UNCHANGED <<auction, now, issued, rebalanceLocked>>
    BY <1>5 DEF InitializeFees
  <2>3. /\ set' \in initializeModule(set, StreamingModule)
        /\ fees' = [streamingFeePercentage |-> setting.fee,
                    maxStreamingFeePercentage |-> setting.maxFee,
                    lastStreamingFeeTimestamp |-> now, feeRecipient |-> recipient]
    BY <2>1 DEF initializeFees
  <2>4. /\ ClaimsSound(set', issued) /\ SameMoney(set, set') /\ set'.isLocked = set.isLocked
        /\ set'.moduleStates[AuctionModule] = state
    BY <1>1, <1>3, <2>3
  <2>5. FeesSound(fees', now)
    <3>1. setting.fee \in Nat /\ setting.maxFee \in Nat
      BY InputsAssumption
    <3>. QED  BY <1>0, <2>3, <3>1 DEF FeesSound, FeeState
  <2>. QED  BY <1>0, <2>2, <2>4, <2>5 DEF IInv
<1>6. ASSUME InitializeAuction(caller) PROVE Goal
  <2>1. PICK r \in initializeAuction(set, auction, caller) : set' = r.set /\ auction' = r.auction
    BY <1>6 DEF InitializeAuction
  <2>2. UNCHANGED <<fees, now, issued, rebalanceLocked>>
    BY <1>6 DEF InitializeAuction
  <2>3. /\ set' \in initializeModule(set, AuctionModule)
        /\ AuctionSound(auction', now) /\ SamePermissions(auction, auction')
        /\ auction'.rebalanceStartTime = auction.rebalanceStartTime
        /\ auction'.rebalanceDuration = auction.rebalanceDuration
    BY <1>0, <2>1, InitializeAuctionEffect
  <2>4. /\ ClaimsSound(set', issued) /\ SameMoney(set, set') /\ set'.isLocked = set.isLocked
        /\ set'.moduleStates[AuctionModule] = "INITIALIZED"
    BY <1>1, <1>3, <2>3
  <2>5. rebalanceLocked /\ ~set'.isLocked => isRebalanceDurationElapsed(auction', now)
    BY <1>0, <2>3, <2>4 DEF isRebalanceDurationElapsed
  <2>6. ControlSound(auction', now, rebalanceLocked, set'.moduleStates[AuctionModule], set'.isLocked)
    BY <1>0, <2>3, <2>4, <2>5, ControlFrame
  <2>. QED  BY <1>0, <2>2, <2>4, <2>6 DEF IInv
<1>7. ASSUME NEW m \in Modules, AddModule(caller, m) \/ RemovePendingModule(caller, m) PROVE Goal
  <2>1. PICK new \in ModuleState :
            /\ set' = [set EXCEPT !.moduleStates[m] = new]
            /\ ~set.isLocked \/ set.moduleStates[m] = "NONE"
            /\ set.moduleStates[m] # "INITIALIZED"
            /\ UNCHANGED <<auction, fees, now, issued, rebalanceLocked>>
    BY <1>1, <1>7 DEF AddModule, RemovePendingModule, addModule, removePendingModule, Require
  <2>2. /\ ClaimsSound(set', issued) /\ SameMoney(set, set') /\ set'.isLocked = set.isLocked
        /\ \A other \in Modules \ {m} : set'.moduleStates[other] = set.moduleStates[other]
    BY <1>0, <2>1, ModuleStateFrame
  <2>3. state = "INITIALIZED" => set'.moduleStates[AuctionModule] = "INITIALIZED"
    BY <1>1, <2>1, <2>2
  <2>4. ControlSound(auction, now, rebalanceLocked, set'.moduleStates[AuctionModule], set.isLocked)
    BY <1>0, <1>2, <2>3, ControlFrame
  <2>. QED  BY <1>0, <2>1, <2>2, <2>4 DEF IInv
<1>8. ASSUME NEW m \in Modules, RemoveModule(caller, m) PROVE Goal
  <2>1. /\ set' = [set EXCEPT !.moduleStates[m] = "NONE"] /\ ~set.isLocked
        /\ auction' = IF m = AuctionModule THEN removeAuction(auction) ELSE auction
        /\ fees' = IF m = StreamingModule THEN noFees ELSE fees
        /\ UNCHANGED <<now, issued, rebalanceLocked>>
    BY <1>8 DEF RemoveModule, removeModule, Require
  <2>2. /\ ClaimsSound(set', issued) /\ SameMoney(set, set') /\ set'.isLocked = set.isLocked
        /\ \A other \in Modules \ {m} : set'.moduleStates[other] = set.moduleStates[other]
    BY <1>0, <1>1, <2>1, ModuleStateFrame
  <2>3. FeesSound(fees', now)
    <3>1. FeesSound(noFees, now)
      BY <1>0 DEF FeesSound, FeeState, noFees
    <3>. QED  BY <1>0, <2>1, <3>1
  <2>4. ControlSound(auction', now, rebalanceLocked, set'.moduleStates[AuctionModule], set'.isLocked)
    <3>1. CASE m = AuctionModule
      <4>1. /\ AuctionSound(auction', now) /\ isRebalanceDurationElapsed(auction', now)
            /\ auction'.bidAllowList = {} /\ auction'.biddersHistory = {}
            /\ ~auction'.isAnyoneAllowedToBid
        BY <1>0, <2>1, <3>1, RemoveAuctionEffect
      <4>. QED  BY <4>1 DEF ControlSound
    <3>2. CASE m # AuctionModule
      <4>1. set'.moduleStates[AuctionModule] = state
        BY <1>1, <2>2, <3>2
      <4>. QED  BY <1>0, <2>1, <2>2, <3>2, <4>1
    <3>. QED  BY <3>1, <3>2
  <2>. QED  BY <1>0, <2>1, <2>2, <2>3, <2>4 DEF IInv
<1>9. ASSUME \/ \E newManager \in Managers : SetManager(caller, newManager)
             \/ \E m \in Modules : DisableModule(m) \/ EnableModule(m)
             \/ RemoveSet
      PROVE  Goal
  <2>0. set.isModule \subseteq Modules
    BY <1>0 DEF Inv, SetTokenState
  <2>1. /\ \/ \E newManager \in Managers : set' = [set EXCEPT !.manager = newManager]
           \/ \E enabled \in SUBSET Modules : set' = [set EXCEPT !.isModule = enabled]
           \/ set' = [set EXCEPT !.isSet = FALSE]
        /\ UNCHANGED <<auction, fees, now, issued, rebalanceLocked>>
    <3>1. ASSUME NEW newManager \in Managers, SetManager(caller, newManager)
          PROVE  /\ set' = [set EXCEPT !.manager = newManager]
                 /\ UNCHANGED <<auction, fees, now, issued, rebalanceLocked>>
      BY <3>1 DEF SetManager, setManager, Require
    <3>2. ASSUME NEW m \in Modules, DisableModule(m) \/ EnableModule(m)
          PROVE  /\ \E enabled \in SUBSET Modules : set' = [set EXCEPT !.isModule = enabled]
                 /\ UNCHANGED <<auction, fees, now, issued, rebalanceLocked>>
      <4>1. /\ \/ set' = [set EXCEPT !.isModule = set.isModule \ {m}]
               \/ set' = [set EXCEPT !.isModule = set.isModule \cup {m}]
            /\ UNCHANGED <<auction, fees, now, issued, rebalanceLocked>>
        BY <3>2 DEF DisableModule, EnableModule
      <4>2. set.isModule \ {m} \in SUBSET Modules /\ set.isModule \cup {m} \in SUBSET Modules
        BY <2>0
      <4>. QED  BY <4>1, <4>2
    <3>3. ASSUME RemoveSet
          PROVE  /\ set' = [set EXCEPT !.isSet = FALSE]
                 /\ UNCHANGED <<auction, fees, now, issued, rebalanceLocked>>
      BY <3>3 DEF RemoveSet
    <3>. QED  BY <1>9, <3>1, <3>2, <3>3
  <2>2. /\ ClaimsSound(set', issued) /\ SameMoney(set, set') /\ set'.isLocked = set.isLocked
        /\ set'.moduleStates = set.moduleStates
    BY <1>0, <2>1, AnswersFrame
  <2>. QED  BY <1>0, <2>1, <2>2 DEF IInv
<1>. HIDE DEF Goal
<1>10. ASSUME LifecycleNext(caller) PROVE Goal
  BY <1>4, <1>5, <1>6, <1>7, <1>8, <1>9, <1>10 DEF LifecycleNext
<1>11. ASSUME OwnerNext PROVE Goal
  BY <1>9, <1>11 DEF OwnerNext
<1>. QED  BY <1>10, <1>11 DEF Goal

\* Time passes: what has elapsed stays elapsed.
LEMMA TickInv ==
    ASSUME IInv, Tick
    PROVE  IInv' /\ set' = set
<1>1. now' = now + 1 /\ UNCHANGED <<set, auction, fees, issued, rebalanceLocked>>
  BY DEF Tick
<1>2. /\ AuctionSound(auction, now) /\ FeesSound(fees, now) /\ now \in Nat
  BY DEF IInv, ControlSound
<1>3. /\ auction.rebalanceStartTime \in Nat /\ auction.rebalanceStartTime <= now
      /\ auction.rebalanceDuration \in Nat
      /\ fees.lastStreamingFeeTimestamp \in Nat /\ fees.lastStreamingFeeTimestamp <= now
  BY <1>2 DEF AuctionSound, AuctionState, FeesSound, FeeState
<1>4. AuctionSound(auction, now') /\ FeesSound(fees, now') /\ now' \in Nat
  BY <1>1, <1>2, <1>3 DEF AuctionSound, FeesSound
<1>5. isRebalanceDurationElapsed(auction, now) => isRebalanceDurationElapsed(auction, now')
  BY <1>1, <1>2, <1>3 DEF isRebalanceDurationElapsed
<1>. QED  BY <1>1, <1>4, <1>5 DEF IInv, ControlSound

\* Every step, the stuttering ones included.
LEMMA StepIInv == IInv /\ [Next]_vars => IInv'
<1>. SUFFICES ASSUME IInv, [Next]_vars PROVE IInv'
  OBVIOUS
<1>1. CASE UNCHANGED vars
  BY <1>1 DEF vars, IInv
<1>2. CASE Next
  <2>1. CASE HolderNext
    BY <2>1, MoneyStepInv
  <2>2. CASE BidderNext
    BY <2>2, MoneyStepInv, RebalanceStepInv DEF BidderNext
  <2>3. ASSUME NEW caller, ManagerNext(caller) \/ LifecycleNext(caller) PROVE IInv'
    BY <2>3, RebalanceStepInv, LifecycleStepInv
  <2>4. CASE OwnerNext
    BY <2>4, LifecycleStepInv
  <2>5. CASE Tick
    BY <2>5, TickInv
  <2>. QED  BY <1>2, <2>1, <2>2, <2>3, <2>4, <2>5 DEF Next
<1>. QED  BY <1>1, <1>2

\* The invariant the theorems below rest on.
THEOREM SystemInvariant == Spec => []IInv
BY InitIInv, StepIInv, PTL DEF Spec
-----------------------------------------------------------------------------
(* The invariants. *)

\* The set's, the fee module's and the auction module's states keep their types.
THEOREM SystemTypeCorrect == Spec => []TypeOK
<1>1. IInv => TypeOK
  BY DEF IInv, ClaimsSound, Inv, FeesSound, ControlSound, AuctionSound, AuctionState, TypeOK
<1>. QED  BY <1>1, SystemInvariant, PTL

\* The claims of all holders together exceed what the set holds by less than one
\* unit for every set ever issued, whatever fees, bids, issues and redemptions
\* came in whatever order.
THEOREM ShortfallAlwaysBounded == Spec => []ShortfallBounded
<1>1. IInv => ShortfallBounded
  BY DEF IInv, ClaimsSound, Covered, ShortfallBounded
<1>. QED  BY <1>1, SystemInvariant, PTL

\* Until a fee has lowered the multiplier the set holds all that its positions
\* promise: BasicIssuanceModule's and the auction's roundings never cost it a
\* unit.  (With fees, MCFeesCollateral.cfg shows that they can.)
THEOREM UnscaledSetsFullyCollateralised ==
    Spec => [](set.positionMultiplier = PreciseUnit => FullyCollateralised)
<1>1. ASSUME IInv, set.positionMultiplier = PreciseUnit PROVE FullyCollateralised
  <2>1. Inv(set) /\ ExactlyCovered(set)
    BY <1>1 DEF IInv, ClaimsSound
  <2>. QED  BY <1>1, <2>1, UnscaledUnit DEF ExactlyCovered, FullyCollateralised, realUnit
<1>. QED  BY <1>1, SystemInvariant, PTL

\* A rebalance that started locked takes no bid after its unlock.
THEOREM LockedRebalancesEnd == Spec => []LockedRebalanceEndsWithUnlock
<1>1. IInv => LockedRebalanceEndsWithUnlock
  BY DEF IInv, ControlSound, LockedRebalanceEndsWithUnlock
<1>. QED  BY <1>1, SystemInvariant, PTL

\* No permission to bid outlives the module's removal, and the history names
\* every allowed bidder.
THEOREM PermissionsAlwaysAccounted == Spec => []PermissionsAccounted
<1>1. IInv => PermissionsAccounted
  BY DEF IInv, ControlSound, PermissionsAccounted
<1>. QED  BY <1>1, SystemInvariant, PTL
-----------------------------------------------------------------------------
(* What single steps may never do. *)

\* The only transactions that move balances, units, supply or multiplier.
LEMMA StepKinds ==
    ASSUME IInv, [Next]_vars
    PROVE  \/ SameMoney(set, set')
           \/ set' \in accrue(set, fees, now)
           \/ \E q \in Nat \ {0} : set' \in issue(set, q) \cup redeem(set, q)
           \/ \E c \in Tokens : set' = transferFrom(set, c, 1)
           \/ \E bidder \in Bidders, c \in Tokens, q \in Nat, limit \in BidLimits :
                  set' \in bid(set, auction, bidder, c, q, limit, now)
<1>. DEFINE Goal ==
           \/ SameMoney(set, set')
           \/ set' \in accrue(set, fees, now)
           \/ \E q \in Nat \ {0} : set' \in issue(set, q) \cup redeem(set, q)
           \/ \E c \in Tokens : set' = transferFrom(set, c, 1)
           \/ \E bidder \in Bidders, c \in Tokens, q \in Nat, limit \in BidLimits :
                  set' \in bid(set, auction, bidder, c, q, limit, now)
<1>1. ASSUME set' = set PROVE Goal
  BY <1>1 DEF SameMoney
<1>2. ASSUME HolderNext PROVE Goal
  <2>1. ASSUME NEW q \in IssueQuantities, Issue(q) PROVE Goal
    <3>1. set' \in issue(set, q) /\ q \in Nat
      BY <2>1, InputsAssumption DEF Issue
    <3>2. q > 0
      BY <3>1 DEF issue
    <3>. QED  BY <3>1, <3>2
  <2>2. ASSUME NEW q \in RedeemQuantities, Redeem(q) PROVE Goal
    <3>1. set' \in redeem(set, q) /\ q \in Nat
      BY <2>2, InputsAssumption DEF Redeem
    <3>2. q > 0
      BY <3>1 DEF redeem
    <3>. QED  BY <3>1, <3>2
  <2>3. ASSUME NEW c \in Airdropped, Airdrop(c) PROVE Goal
    BY <2>3, InputsAssumption DEF Airdrop
  <2>4. ASSUME AccrueFee PROVE Goal
    <3>1. PICK r \in accrueFee(set, fees, now) : set' = r.set
      BY <2>4 DEF AccrueFee
    <3>2. r.set \in accrue(set, fees, now)
      BY <3>1 DEF accrueFee
    <3>. QED  BY <3>1, <3>2
  <2>. HIDE DEF Goal
  <2>. QED  BY <1>2, <2>1, <2>2, <2>3, <2>4 DEF HolderNext
<1>3. ASSUME BidderNext PROVE Goal
  <2>1. ASSUME NEW bidder \in Bidders, NEW c \in Tokens, NEW q \in BidQuantities,
               NEW limit \in BidLimits, Bid(bidder, c, q, limit)
        PROVE  Goal
    <3>1. set' \in bid(set, auction, bidder, c, q, limit, now) /\ q \in Nat
      BY <2>1, InputsAssumption DEF Bid
    <3>. QED  BY <3>1
  <2>2. ASSUME (\E bidder \in Bidders : RaiseAssetTargets(bidder)) \/ Unlock PROVE Goal
    BY <2>2, RebalanceStepInv
  <2>. HIDE DEF Goal
  <2>. QED  BY <1>3, <2>1, <2>2 DEF BidderNext
<1>4. ASSUME NEW caller, ManagerNext(caller) PROVE Goal
  BY <1>4, RebalanceStepInv
<1>5. ASSUME NEW caller, LifecycleNext(caller) \/ OwnerNext PROVE Goal
  BY <1>5, LifecycleStepInv
<1>6. ASSUME Tick \/ UNCHANGED vars PROVE Goal
  BY <1>1, <1>6 DEF Tick, vars
<1>. HIDE DEF Goal
<1>7. Goal
  BY <1>2, <1>3, <1>4, <1>5, <1>6 DEF Next
<1>. QED  BY <1>7 DEF Goal

\* A bid, seen from the set: sound, and nothing but balances and units moves.
LEMMA BidStep ==
    ASSUME IInv, NEW bidder, NEW c \in Tokens, NEW q \in Nat, NEW limit,
           set' \in bid(set, auction, bidder, c, q, limit, now)
    PROVE  /\ Untouched(set, set')
           /\ validBidTargets(set, auction, c, now) /\ auction.quoteAsset \in Tokens
           /\ now - auction.rebalanceStartTime \in Nat /\ auction.priceConfig[c] \in PriceConfig
           /\ \E price \in getPrice(auction.priceConfig[c], now - auction.rebalanceStartTime) :
                  /\ price \in Nat
                  /\ \/ Settled(set, set', c, auction.quoteAsset, q, preciseMulCeil(q, price))
                     \/ Settled(set, set', auction.quoteAsset, c, preciseMul(q, price), q)
<1>1. Inv(set) /\ AuctionSound(auction, now) /\ now \in Nat
  BY DEF IInv, ClaimsSound, ControlSound
<1>2. /\ validBidTargets(set, auction, c, now) /\ auction.quoteAsset \in Tokens
      /\ now - auction.rebalanceStartTime \in Nat /\ auction.priceConfig[c] \in PriceConfig
      /\ \E price \in getPrice(auction.priceConfig[c], now - auction.rebalanceStartTime) :
             /\ price \in Nat
             /\ \/ Settled(set, set', c, auction.quoteAsset, q, preciseMulCeil(q, price))
                \/ Settled(set, set', auction.quoteAsset, c, preciseMul(q, price), q)
  BY <1>1, BidSettles
<1>3. Untouched(set, set')
  BY <1>2 DEF Settled
<1>. QED  BY <1>2, <1>3

\* While the auction module holds the lock no issue, redemption or accrual goes
\* through: supply and multiplier stand still.
THEOREM SupplyFrozen == Spec => SupplyFrozenWhileLocked
<1>1. ASSUME IInv, [Next]_vars, set.isLocked
      PROVE  set'.totalSupply = set.totalSupply /\ set'.positionMultiplier = set.positionMultiplier
  <2>0. /\ Inv(set) /\ FeesSound(fees, now) /\ now \in Nat /\ set.locker = AuctionModule
        /\ IssuanceModule # AuctionModule /\ StreamingModule # AuctionModule
    BY <1>1, ModulesAssumption DEF IInv, ClaimsSound, Inv, LockHeld
  <2>1. ~privileged(set, IssuanceModule) /\ ~privileged(set, StreamingModule)
    BY <1>1, <2>0 DEF privileged, whenLockedOnlyLocker
  <2>2. CASE SameMoney(set, set')
    BY <2>2 DEF SameMoney
  <2>3. CASE set' \in accrue(set, fees, now)
    <3>1. set' = set
      BY <2>0, <2>1, <2>3, AccrueEffect DEF FeesSound
    <3>. QED  BY <3>1
  <2>4. ASSUME NEW q \in Nat \ {0}, set' \in issue(set, q) \cup redeem(set, q) PROVE FALSE
    BY <2>0, <2>1, <2>4, IsIssuance, IssueEffect, RedeemEffect
  <2>5. ASSUME NEW c \in Tokens, set' = transferFrom(set, c, 1)
        PROVE  Untouched(set, set')
    BY <2>0, <2>5, TransferInEffect
  <2>6. ASSUME NEW bidder \in Bidders, NEW c \in Tokens, NEW q \in Nat, NEW limit \in BidLimits,
               set' \in bid(set, auction, bidder, c, q, limit, now)
        PROVE  Untouched(set, set')
    BY <1>1, <2>6, BidStep
  <2>. QED  BY <1>1, <2>2, <2>3, <2>4, <2>5, <2>6, StepKinds DEF Untouched
<1>. QED  BY <1>1, SystemInvariant, PTL DEF Spec, SupplyFrozenWhileLocked

\* The multiplier changes in a fee accrual and in no other transaction.
LEMMA MultiplierMovesByFees ==
    ASSUME IInv, [Next]_vars, set'.positionMultiplier # set.positionMultiplier
    PROVE  set' \in accrue(set, fees, now)
<1>0. Inv(set)
  BY DEF IInv, ClaimsSound
<1>1. ~SameMoney(set, set')
  BY DEF SameMoney
<1>2. ASSUME NEW q \in Nat \ {0}, set' \in issue(set, q) \cup redeem(set, q) PROVE FALSE
  BY <1>0, <1>2, IsIssuance, IssueEffect, RedeemEffect
<1>3. ASSUME NEW c \in Tokens, set' = transferFrom(set, c, 1) PROVE FALSE
  <2>1. Untouched(set, set')
    BY <1>0, <1>3, TransferInEffect
  <2>. QED  BY <2>1 DEF Untouched
<1>4. ASSUME NEW bidder \in Bidders, NEW c \in Tokens, NEW q \in Nat, NEW limit \in BidLimits,
             set' \in bid(set, auction, bidder, c, q, limit, now)
      PROVE  FALSE
  BY <1>4, BidStep DEF Untouched
<1>. QED  BY <1>1, <1>2, <1>3, <1>4, StepKinds

\* A change of multiplier is a fee accrual, and it grows no component's claims.
THEOREM FeesNeverInflate == Spec => FeesNeverInflateClaims
<1>1. ASSUME IInv, [Next]_vars, set'.positionMultiplier # set.positionMultiplier
      PROVE  \A c \in Tokens :
                 set'.virtualUnit[c] * set'.positionMultiplier * set'.totalSupply
                     <= set.virtualUnit[c] * set.positionMultiplier * set.totalSupply
  <2>1. ClaimsSound(set, issued) /\ FeesSound(fees, now) /\ now \in Nat /\ issued \in Nat
    BY <1>1 DEF IInv
  <2>2. set' \in accrue(set, fees, now)
    BY <1>1, MultiplierMovesByFees
  <2>. QED  BY <2>1, <2>2, AccrueClaims
<1>. QED  BY <1>1, SystemInvariant, PTL DEF Spec, FeesNeverInflateClaims

\* Units move only by bids, and only of the component bid for and of the quote
\* asset.
LEMMA UnitsMoveByBids ==
    ASSUME IInv, [Next]_vars, NEW c \in Tokens, set'.virtualUnit[c] # set.virtualUnit[c]
    PROVE  \E bidder \in Bidders, d \in Tokens, q \in Nat, limit \in BidLimits :
               /\ set' \in bid(set, auction, bidder, d, q, limit, now)
               /\ c \in {d, auction.quoteAsset}
<1>0. /\ ClaimsSound(set, issued) /\ Inv(set) /\ FeesSound(fees, now) /\ now \in Nat
      /\ issued \in Nat
  BY DEF IInv, ClaimsSound
<1>1. ~SameMoney(set, set')
  BY DEF SameMoney
<1>2. ASSUME NEW q \in Nat \ {0}, set' \in issue(set, q) \cup redeem(set, q) PROVE FALSE
  BY <1>0, <1>2, IsIssuance, IssueEffect, RedeemEffect
<1>3. ASSUME NEW d \in Tokens, set' = transferFrom(set, d, 1) PROVE FALSE
  <2>1. Inv(set) /\ set' = transferFrom(set, d, 1) /\ 1 \in Nat
    BY <1>0, <1>3
  <2>2. set'.virtualUnit = set.virtualUnit
    BY <2>1 DEF transferFrom, Inv, SetTokenState
  <2>. QED  BY <2>2
<1>4. set' \notin accrue(set, fees, now)
  BY <1>0, AccrueClaims
<1>5. PICK bidder \in Bidders, d \in Tokens, q \in Nat, limit \in BidLimits :
          set' \in bid(set, auction, bidder, d, q, limit, now)
  BY <1>1, <1>2, <1>3, <1>4, StepKinds
<1>6. /\ auction.quoteAsset \in Tokens
      /\ \E price \in Nat :
             \/ Settled(set, set', d, auction.quoteAsset, q, preciseMulCeil(q, price))
             \/ Settled(set, set', auction.quoteAsset, d, preciseMul(q, price), q)
  BY <1>5, BidStep
<1>7. c \in {d, auction.quoteAsset}
  BY <1>6 DEF Settled
<1>. QED  BY <1>5, <1>7

\* Positions move only while a rebalance runs, and only those of its components
\* and its quote asset.
THEOREM PositionsMoveInRebalances == Spec => PositionsMoveOnlyInRebalance
<1>1. ASSUME IInv, [Next]_vars, NEW c \in Tokens, set'.virtualUnit[c] # set.virtualUnit[c]
      PROVE  /\ ~isRebalanceDurationElapsed(auction, now)
             /\ c \in auction.rebalanceComponents \cup {auction.quoteAsset}
  <2>1. PICK bidder \in Bidders, d \in Tokens, q \in Nat, limit \in BidLimits :
            /\ set' \in bid(set, auction, bidder, d, q, limit, now)
            /\ c \in {d, auction.quoteAsset}
    BY <1>1, UnitsMoveByBids
  <2>2. validBidTargets(set, auction, d, now)
    BY <1>1, <2>1, BidStep
  <2>. QED  BY <2>1, <2>2 DEF validBidTargets
<1>2. IInv /\ [Next]_vars =>
          [\A c \in Tokens : set'.virtualUnit[c] # set.virtualUnit[c] =>
              /\ ~isRebalanceDurationElapsed(auction, now)
              /\ c \in auction.rebalanceComponents \cup {auction.quoteAsset}]_vars
  BY <1>1
<1>. QED  BY <1>2, SystemInvariant, PTL DEF Spec, PositionsMoveOnlyInRebalance

\* An adapter quotes one price or none.
LEMMA PriceUnique ==
    ASSUME NEW p \in PriceConfig, NEW time, NEW x \in getPrice(p, time),
           NEW y \in getPrice(p, time)
    PROVE  x = y
<1>1. CASE p.adapter = "constant"
  BY <1>1 DEF getPrice
<1>2. CASE p.adapter = "linear"
  BY <1>2 DEF getPrice, linearPrice, Require
<1>3. CASE p.adapter = "exponential"
  BY <1>3 DEF getPrice, exponentialPrice, Require
<1>4. CASE p.adapter = "logarithmic"
  BY <1>4 DEF getPrice, logarithmicPrice, Require
<1>. QED  BY <1>1, <1>2, <1>3, <1>4 DEF PriceConfig

\* The protocol's share of what came in, rounded down, leaves the set its own.
LEMMA KeptShare ==
    ASSUME NEW r \in Nat
    PROVE  LET fee == preciseMul(r, AuctionFee)
               kept == PreciseUnit - AuctionFee
           IN  /\ fee \in Nat /\ kept \in Nat \ {0} /\ fee <= r
               /\ (r - fee) * PreciseUnit >= r * kept
<1>. DEFINE fee == preciseMul(r, AuctionFee)
            kept == PreciseUnit - AuctionFee
<1>0. AuctionFee \in Nat /\ kept \in Nat \ {0} /\ AuctionFee + kept = PreciseUnit
  BY AuctionFeeAssumption, PreciseUnitAssumption
<1>1. fee \in Nat /\ fee * PreciseUnit <= r * AuctionFee
  BY <1>0, PreciseMulRoundsDown
<1>. HIDE DEF fee, kept
<1>2. r * PreciseUnit = r * AuctionFee + r * kept
  BY <1>0
<1>3. r * AuctionFee \in Nat /\ r * kept \in Nat /\ r * PreciseUnit \in Nat
  BY <1>0, PreciseUnitAssumption
<1>4. fee * PreciseUnit <= r * PreciseUnit /\ fee * PreciseUnit \in Nat
  BY <1>1, <1>2, <1>3, PreciseUnitAssumption
<1>5. fee <= r
  BY <1>1, <1>4, PreciseUnitAssumption
<1>6. (r - fee) * PreciseUnit = r * PreciseUnit - fee * PreciseUnit
  BY <1>1, PreciseUnitAssumption
<1>7. (r - fee) * PreciseUnit >= r * kept
  BY <1>1, <1>2, <1>3, <1>4, <1>6
<1>. QED  BY <1>0, <1>1, <1>5, <1>7 DEF fee, kept

\* A sale: the quote paid, rounded up, less the fee, is worth what was sold.
LEMMA SalePays ==
    ASSUME NEW q \in Nat, NEW price \in Nat, NEW r \in Nat, NEW net \in Nat,
           NEW kept \in Nat, q * price <= r * PreciseUnit, net * PreciseUnit >= r * kept
    PROVE  net * PreciseUnit * PreciseUnit >= q * price * kept
<1>. DEFINE a == net * PreciseUnit
            b == r * kept
            c == r * PreciseUnit
            d == q * price
<1>1. a \in Nat /\ b \in Nat /\ c \in Nat /\ d \in Nat /\ a >= b /\ d <= c
  BY PreciseUnitAssumption
<1>2. b * PreciseUnit = c * kept
  BY PreciseUnitAssumption
<1>. HIDE DEF a, b, c, d
<1>3. b * PreciseUnit <= a * PreciseUnit /\ d * kept <= c * kept
  BY <1>1, ProductGrows, PreciseUnitAssumption
<1>4. a * PreciseUnit \in Nat /\ d * kept \in Nat /\ c * kept \in Nat
  BY <1>1, PreciseUnitAssumption
<1>5. a * PreciseUnit >= d * kept
  BY <1>2, <1>3, <1>4
<1>. QED  BY <1>5 DEF a, d

\* A purchase: what is bought, less the fee, is worth the quote paid, rounded down.
LEMMA PurchasePays ==
    ASSUME NEW q \in Nat, NEW price \in Nat, NEW paid \in Nat, NEW net \in Nat,
           NEW kept \in Nat, paid * PreciseUnit <= q * price, net * PreciseUnit >= q * kept
    PROVE  net * price >= paid * kept
<1>. DEFINE a == net * PreciseUnit
            b == q * kept
            c == paid * PreciseUnit
            d == q * price
            x == net * price
            y == paid * kept
<1>1. /\ a \in Nat /\ b \in Nat /\ c \in Nat /\ d \in Nat /\ a >= b /\ c <= d
      /\ x \in Nat /\ y \in Nat
  BY PreciseUnitAssumption
<1>2. a * price = x * PreciseUnit /\ b * price = d * kept /\ c * kept = y * PreciseUnit
  <2>1. a * price = x * PreciseUnit
    BY PreciseUnitAssumption
  <2>2. b * price = d * kept
    OBVIOUS
  <2>3. c * kept = y * PreciseUnit
    BY PreciseUnitAssumption
  <2>. QED  BY <2>1, <2>2, <2>3
<1>. HIDE DEF a, b, c, d, x, y
<1>3. b * price <= a * price /\ c * kept <= d * kept
  BY <1>1, ProductGrows
<1>4. a * price \in Nat /\ b * price \in Nat /\ c * kept \in Nat /\ d * kept \in Nat
  BY <1>1
<1>5. y * PreciseUnit <= x * PreciseUnit
  BY <1>2, <1>3, <1>4
<1>6. y <= x
  BY <1>1, <1>5, PreciseUnitAssumption
<1>. QED  BY <1>6 DEF x, y

\* BidPaysAuctionPrice of any two states, component and price.
FairTrade(s, t, c, quote, price) ==
    LET gained(d) == t.held[d] - s.held[d]
        kept == PreciseUnit - AuctionFee
    IN  /\ gained(c) < 0 =>
               gained(quote) * PreciseUnit * PreciseUnit >= -gained(c) * price * kept
        /\ gained(quote) < 0 /\ gained(c) > 0 =>
               gained(c) * price >= -gained(quote) * kept

\* Whatever a bid settles at a price is fair at that price.
LEMMA SettledIsFair ==
    ASSUME NEW s, Inv(s), NEW t, NEW c \in Tokens, NEW quote \in Tokens, c # quote,
           NEW q \in Nat, NEW price \in Nat,
           \/ Settled(s, t, c, quote, q, preciseMulCeil(q, price))
           \/ Settled(s, t, quote, c, preciseMul(q, price), q)
    PROVE  FairTrade(s, t, c, quote, price)
<1>. DEFINE gc == t.held[c] - s.held[c]
            gq == t.held[quote] - s.held[quote]
            kept == PreciseUnit - AuctionFee
<1>a. FairTrade(s, t, c, quote, price) <=>
          /\ gc < 0 => gq * PreciseUnit * PreciseUnit >= -gc * price * kept
          /\ gq < 0 /\ gc > 0 => gc * price >= -gq * kept
  BY Zenon DEF FairTrade
<1>0. s.held[c] \in Nat /\ s.held[quote] \in Nat
  BY DEF Inv, SetTokenState
<1>1. CASE Settled(s, t, c, quote, q, preciseMulCeil(q, price))
  <2>. DEFINE r == preciseMulCeil(q, price)
              fee == preciseMul(r, AuctionFee)
              net == r - fee
  <2>1. r \in Nat /\ q * price <= r * PreciseUnit
    BY PreciseMulCeilRoundsUp
  <2>. HIDE DEF r
  <2>2. /\ fee \in Nat /\ kept \in Nat \ {0} /\ fee <= r /\ net * PreciseUnit >= r * kept
    BY <2>1, KeptShare
  <2>3. t.held[c] = s.held[c] - q /\ t.held[quote] = s.held[quote] + r - fee
    BY <1>1 DEF Settled, r
  <2>. HIDE DEF fee, kept
  <2>4. net \in Nat
    BY <2>1, <2>2
  <2>5. gc = -q /\ gq = net
    BY <1>0, <2>1, <2>2, <2>3
  <2>. HIDE DEF net, gc, gq
  <2>6. net * PreciseUnit * PreciseUnit >= q * price * kept
    BY <2>1, <2>2, <2>4, SalePays
  <2>7. -gc = q /\ ~(gq < 0)
    BY <2>4, <2>5
  <2>8. -gc * price * kept = q * price * kept
    BY <2>2, <2>5
  <2>. QED  BY <1>a, <2>5, <2>6, <2>7, <2>8
<1>2. CASE Settled(s, t, quote, c, preciseMul(q, price), q)
  <2>. DEFINE paid == preciseMul(q, price)
              fee == preciseMul(q, AuctionFee)
              net == q - fee
  <2>1. paid \in Nat /\ paid * PreciseUnit <= q * price
    BY PreciseMulRoundsDown
  <2>2. /\ fee \in Nat /\ kept \in Nat \ {0} /\ fee <= q /\ net * PreciseUnit >= q * kept
    BY KeptShare
  <2>3. t.held[quote] = s.held[quote] - paid /\ t.held[c] = s.held[c] + q - fee
    BY <1>2 DEF Settled
  <2>. HIDE DEF fee, paid, kept
  <2>4. net \in Nat
    BY <2>2
  <2>5. gc = net /\ gq = -paid
    BY <1>0, <2>1, <2>2, <2>3
  <2>. HIDE DEF net, gc, gq
  <2>6. net * price >= paid * kept
    BY <2>1, <2>2, <2>4, PurchasePays
  <2>7. -gq = paid /\ ~(gc < 0)
    BY <2>1, <2>4, <2>5
  <2>8. -gq * kept = paid * kept
    BY <2>1, <2>2, <2>5
  <2>. QED  BY <1>a, <2>5, <2>6, <2>7, <2>8
<1>. QED  BY <1>1, <1>2

\* Where no balance falls, or that of the component stays, there is no trade.
LEMMA NoTradeIsFair ==
    ASSUME NEW s, NEW t, Inv(s), Inv(t), NEW c \in Tokens, NEW quote \in Tokens, NEW price,
           \/ t.held[c] = s.held[c]
           \/ s.held[c] <= t.held[c] /\ s.held[quote] <= t.held[quote]
    PROVE  FairTrade(s, t, c, quote, price)
<1>1. /\ s.held[c] \in Nat /\ s.held[quote] \in Nat
      /\ t.held[c] \in Nat /\ t.held[quote] \in Nat
  BY DEF Inv, SetTokenState
<1>2. /\ ~(t.held[c] - s.held[c] < 0)
      /\ ~(t.held[quote] - s.held[quote] < 0 /\ t.held[c] - s.held[c] > 0)
  BY <1>1
<1>. QED  BY <1>2 DEF FairTrade

\* A bid never trades below the auction's price, in either direction.
THEOREM BidsPayAuctionPrice == Spec => BidPaysAuctionPrice
<1>1. ASSUME IInv, [Next]_vars, set'.totalSupply = set.totalSupply,
             NEW c \in auction.rebalanceComponents \ {auction.quoteAsset},
             NEW price \in getPrice(auction.priceConfig[c], now - auction.rebalanceStartTime)
      PROVE  FairTrade(set, set', c, auction.quoteAsset, price)
  <2>. DEFINE Q == auction.quoteAsset
              Goal == FairTrade(set, set', c, Q, price)
  <2>0. /\ ClaimsSound(set, issued) /\ Inv(set) /\ FeesSound(fees, now) /\ now \in Nat
        /\ AuctionSound(auction, now)
    BY <1>1 DEF IInv, ClaimsSound, ControlSound
  <2>1. Inv(set')
    <3>1. IInv'
      BY <1>1, StepIInv
    <3>. QED  BY <3>1 DEF IInv, ClaimsSound
  <2>2. c \in Tokens /\ Q \in Tokens /\ c # Q /\ set.totalSupply \in Nat
    BY <2>0 DEF AuctionSound, AuctionState, Inv, SetTokenState
  <2>3. ASSUME set'.held = set.held PROVE Goal
    BY <2>0, <2>1, <2>2, <2>3, NoTradeIsFair
  <2>4. ASSUME SameMoney(set, set') PROVE Goal
    BY <2>3, <2>4 DEF SameMoney
  <2>5. ASSUME set' \in accrue(set, fees, now) PROVE Goal
    <3>1. set'.held = set.held
      BY <2>0, <2>5, AccrueEffect DEF FeesSound
    <3>. QED  BY <2>3, <3>1
  <2>6. ASSUME NEW q \in Nat \ {0}, set' \in issue(set, q) \cup redeem(set, q) PROVE FALSE
    <3>1. set'.totalSupply = set.totalSupply + q \/ set'.totalSupply = set.totalSupply - q
      BY <2>0, <2>6, IsIssuance, IssueEffect, RedeemEffect
    <3>. QED  BY <1>1, <2>2, <3>1
  <2>7. ASSUME NEW d \in Tokens, set' = transferFrom(set, d, 1) PROVE Goal
    <3>1. set'.held = [set.held EXCEPT ![d] = set.held[d] + 1]
      BY <2>0, <2>7 DEF transferFrom, Inv, SetTokenState
    <3>2. set.held \in [Tokens -> Nat]
      BY <2>0 DEF Inv, SetTokenState
    <3>3. set.held[c] <= set'.held[c] /\ set.held[Q] <= set'.held[Q]
      BY <2>2, <3>1, <3>2
    <3>. QED  BY <2>0, <2>1, <2>2, <3>3, NoTradeIsFair
  <2>8. ASSUME NEW bidder \in Bidders, NEW d \in Tokens, NEW q \in Nat, NEW limit \in BidLimits,
               set' \in bid(set, auction, bidder, d, q, limit, now)
        PROVE  Goal
    <3>1. PICK at \in getPrice(auction.priceConfig[d], now - auction.rebalanceStartTime) :
              /\ at \in Nat /\ auction.priceConfig[d] \in PriceConfig
              /\ \/ Settled(set, set', d, Q, q, preciseMulCeil(q, at))
                 \/ Settled(set, set', Q, d, preciseMul(q, at), q)
      BY <1>1, <2>8, BidStep
    <3>2. CASE c = d
      <4>1. at = price
        BY <1>1, <3>1, <3>2, PriceUnique
      <4>. QED  BY <2>0, <2>2, <3>1, <3>2, <4>1, SettledIsFair
    <3>3. CASE c # d
      <4>1. set'.held[c] = set.held[c]
        BY <2>2, <3>1, <3>3 DEF Settled
      <4>. QED  BY <2>0, <2>1, <2>2, <4>1, NoTradeIsFair
    <3>. QED  BY <3>2, <3>3
  <2>. HIDE DEF Goal
  <2>9. Goal
    BY <1>1, <2>4, <2>5, <2>6, <2>7, <2>8, StepKinds
  <2>. QED  BY <2>9 DEF Goal
<1>2. IInv /\ [Next]_vars =>
        [set'.totalSupply = set.totalSupply =>
            \A c \in auction.rebalanceComponents \ {auction.quoteAsset} :
                \A price \in getPrice(auction.priceConfig[c], now - auction.rebalanceStartTime) :
                    FairTrade(set, set', c, auction.quoteAsset, price)]_vars
  BY <1>1
<1>. QED  BY <1>2, SystemInvariant, PTL DEF Spec, BidPaysAuctionPrice, FairTrade
-----------------------------------------------------------------------------
(* The tests' formulas for an accrual. *)

\* BigNumber's division is Solidity's on unsigned numbers.
LEMMA QuotientOfNaturals ==
    ASSUME NEW a \in Nat, NEW b \in Nat \ {0}
    PROVE  Ref!quotient(a, b) = a \div b
BY DEF Ref!quotient

\* A unit read back through the lowered multiplier exceeds the reference's by
\* at most one.
LEMMA UnitAfterFeeFromAbove ==
    ASSUME NEW v \in Nat, NEW m \in Nat, NEW k \in Nat, k <= PreciseUnit, NEW newM \in Nat,
           NEW real \in Nat, NEW after \in Nat, NEW expected \in Nat,
           newM * PreciseUnit <= m * k,
           v * m < (real + 1) * PreciseUnit, after * PreciseUnit <= v * newM,
           real * k < (expected + 1) * PreciseUnit
    PROVE  after <= expected + 1
<1>. DEFINE U == PreciseUnit
            a == after * U
            b == v * newM
            c == newM * U
            d == m * k
            e == v * m
            f == (real + 1) * U
            g == (real + 1) * k
            h == (expected + 1) * U
<1>0. U \in Nat \ {0}
  BY PreciseUnitAssumption
<1>1. /\ a \in Nat /\ b \in Nat /\ c \in Nat /\ d \in Nat /\ e \in Nat /\ f \in Nat /\ g \in Nat
      /\ h \in Nat /\ a <= b /\ c <= d /\ e < f
  BY <1>0
<1>2. b * U = v * c /\ v * d = e * k /\ f * k = g * U
  BY <1>0
<1>3. g = real * k + k /\ real * k < h /\ real * k \in Nat /\ k <= U
  OBVIOUS
<1>3a. (expected + 2) * U = h + U
  BY <1>0
<1>. HIDE DEF a, b, c, d, e, f, g, h, U
<1>4. a * U <= b * U /\ v * c <= v * d /\ e * k <= f * k
  <2>1. a * U <= b * U
    BY <1>0, <1>1, ProductGrows
  <2>2. c * v <= d * v /\ c * v = v * c /\ d * v = v * d
    BY <1>1, ProductGrows
  <2>3. e * k <= f * k
    BY <1>1, ProductGrows
  <2>. QED  BY <2>1, <2>2, <2>3
<1>5. /\ a * U \in Nat /\ b * U \in Nat /\ v * c \in Nat /\ v * d \in Nat /\ e * k \in Nat
      /\ f * k \in Nat /\ g * U \in Nat
  BY <1>0, <1>1
<1>6. a * U <= g * U
  BY <1>2, <1>4, <1>5
<1>7. a <= g
  BY <1>0, <1>1, <1>6
<1>8. a < (expected + 2) * U
  BY <1>0, <1>1, <1>3, <1>3a, <1>7
<1>9. after < expected + 2
  BY <1>0, <1>8 DEF a
<1>. QED  BY <1>9

\* It falls short by no more than a unit's share of the multiplier's fraction.
LEMMA UnitAfterFeeFromBelow ==
    ASSUME NEW v \in Nat, NEW m \in Nat, NEW k \in Nat, NEW newM \in Nat,
           NEW real \in Nat, NEW after \in Nat, NEW expected \in Nat, NEW slack \in Nat,
           m * k < (newM + 1) * PreciseUnit,
           real * PreciseUnit <= v * m, v * newM < (after + 1) * PreciseUnit,
           expected * PreciseUnit <= real * k, v <= slack * PreciseUnit
    PROVE  after >= expected - slack
<1>. DEFINE U == PreciseUnit
            a == expected * U
            b == real * k
            c == real * U
            d == v * m
            e == m * k
            f == (newM + 1) * U
            g == v * (newM + 1)
            h == slack * U
<1>0. U \in Nat \ {0}
  BY PreciseUnitAssumption
<1>1. /\ a \in Nat /\ b \in Nat /\ c \in Nat /\ d \in Nat /\ e \in Nat /\ f \in Nat /\ g \in Nat
      /\ h \in Nat /\ a <= b /\ c <= d /\ e <= f
  BY <1>0
<1>2. b * U = c * k /\ d * k = v * e /\ v * f = g * U
  BY <1>0
<1>3. g = v * newM + v /\ v * newM < (after + 1) * U /\ v * newM \in Nat /\ v <= h
  BY <1>0
<1>3a. (after + 1 + slack) * U = (after + 1) * U + h /\ (after + 1) * U \in Nat
  BY <1>0
<1>. HIDE DEF a, b, c, d, e, f, g, h, U
<1>4. a * U <= b * U /\ c * k <= d * k /\ v * e <= v * f
  <2>1. a * U <= b * U
    BY <1>0, <1>1, ProductGrows
  <2>2. e * v <= f * v /\ e * v = v * e /\ f * v = v * f
    BY <1>1, ProductGrows
  <2>3. c * k <= d * k
    BY <1>1, ProductGrows
  <2>. QED  BY <2>1, <2>2, <2>3
<1>5. /\ a * U \in Nat /\ b * U \in Nat /\ v * e \in Nat /\ v * f \in Nat /\ c * k \in Nat
      /\ d * k \in Nat /\ g * U \in Nat
  BY <1>0, <1>1
<1>6. a * U <= g * U
  BY <1>2, <1>4, <1>5
<1>7. a <= g
  BY <1>0, <1>1, <1>6
<1>8. a < (after + 1 + slack) * U
  BY <1>0, <1>1, <1>3, <1>3a, <1>7
<1>9. expected < after + 1 + slack
  BY <1>0, <1>8 DEF a
<1>. QED  BY <1>9

\* FeeAccrualMatchesReference of any two states.
MatchesReference(s, t, f, time) ==
    LET inflation == Ref!getStreamingFee(f.lastStreamingFeeTimestamp, time,
                                         f.streamingFeePercentage)
        expected == Ref!getPostFeePositionUnits(
                        [c \in Tokens |-> getDefaultPositionRealUnit(s, c)], inflation)
    IN  /\ t.totalSupply - s.totalSupply
               = Ref!getStreamingFeeInflationAmount(inflation, s.totalSupply)
        /\ \A c \in Tokens :
               /\ getDefaultPositionRealUnit(t, c) <= expected[c] + 1
               /\ getDefaultPositionRealUnit(t, c)
                      >= expected[c] - preciseMulCeil(s.virtualUnit[c], 1)

\* Whatever the accrual, it is the reference's.
LEMMA AccrualMatches ==
    ASSUME NEW s, Inv(s), NEW f, NEW time \in Nat, FeesSound(f, time),
           NEW t \in accrue(s, f, time), t # s
    PROVE  MatchesReference(s, t, f, time)
<1>. DEFINE inflation == calculateStreamingFee(f, time)
            minted == calculateStreamingFeeInflation(s, inflation)
            k == PreciseUnit - inflation
            newM == t.positionMultiplier
            units == [c \in Tokens |-> getDefaultPositionRealUnit(s, c)]
<1>0. /\ f \in FeeState /\ f.lastStreamingFeeTimestamp <= time
      /\ f.lastStreamingFeeTimestamp \in Nat /\ f.streamingFeePercentage \in Nat
      /\ s.totalSupply \in Nat /\ s.positionMultiplier \in Nat
  BY DEF FeesSound, FeeState, Inv, SetTokenState
<1>1. /\ Inv(t) /\ inflation \in Nat /\ inflation < PreciseUnit
      /\ minted \in Nat /\ t.totalSupply = s.totalSupply + minted
      /\ newM \in Nat /\ newM * PreciseUnit <= s.positionMultiplier * k
      /\ s.positionMultiplier * k < (newM + 1) * PreciseUnit
      /\ t.virtualUnit = s.virtualUnit
  BY <1>0, AccrueEffect
<1>2. k \in Nat \ {0} /\ k <= PreciseUnit
  BY <1>1, PreciseUnitAssumption
<1>3. Ref!getStreamingFee(f.lastStreamingFeeTimestamp, time, f.streamingFeePercentage) = inflation
  <2>. DEFINE x == (time - f.lastStreamingFeeTimestamp) * f.streamingFeePercentage
  <2>1. x \in Nat
    BY <1>0
  <2>2. inflation = x \div OneYear
    BY DEF calculateStreamingFee
  <2>3. Ref!getStreamingFee(f.lastStreamingFeeTimestamp, time, f.streamingFeePercentage)
            = Ref!quotient(x, OneYear)
    BY DEF Ref!getStreamingFee
  <2>. HIDE DEF x, inflation
  <2>. QED  BY <2>1, <2>2, <2>3, QuotientOfNaturals, OneYearAssumption
<1>4. Ref!getStreamingFeeInflationAmount(inflation, s.totalSupply) = minted
  <2>. DEFINE x == inflation * s.totalSupply
  <2>1. x \in Nat
    BY <1>0, <1>1
  <2>2. minted = x \div k
    BY DEF calculateStreamingFeeInflation
  <2>3. Ref!getStreamingFeeInflationAmount(inflation, s.totalSupply) = Ref!quotient(x, k)
    BY DEF Ref!getStreamingFeeInflationAmount
  <2>. HIDE DEF x, k, minted, inflation
  <2>. QED  BY <1>2, <2>1, <2>2, <2>3, QuotientOfNaturals
<1>5. ASSUME NEW c \in Tokens
      PROVE  /\ getDefaultPositionRealUnit(t, c)
                    <= Ref!getPostFeePositionUnits(units, inflation)[c] + 1
             /\ getDefaultPositionRealUnit(t, c)
                    >= Ref!getPostFeePositionUnits(units, inflation)[c]
                           - preciseMulCeil(s.virtualUnit[c], 1)
  <2>. DEFINE real == getDefaultPositionRealUnit(s, c)
              after == getDefaultPositionRealUnit(t, c)
              v == s.virtualUnit[c]
              m == s.positionMultiplier
              expected == (real * k) \div PreciseUnit
              slack == preciseMulCeil(v, 1)
  <2>1. /\ v \in Nat /\ m \in Nat /\ real \in Nat
        /\ real * PreciseUnit <= v * m /\ v * m < (real + 1) * PreciseUnit
    BY RealUnitBrackets
  <2>2. /\ after \in Nat /\ after * PreciseUnit <= v * newM
        /\ v * newM < (after + 1) * PreciseUnit
    <3>1. Inv(t) /\ t.virtualUnit[c] = v
      BY <1>1
    <3>. QED  BY <3>1, RealUnitBrackets
  <2>. HIDE DEF real, after, v, m, k, newM
  <2>3. /\ expected \in Nat /\ expected * PreciseUnit <= real * k
        /\ real * k < (expected + 1) * PreciseUnit
    <3>1. real * k \in Nat
      BY <1>2, <2>1
    <3>. QED  BY <3>1, DivisionBrackets, PreciseUnitAssumption
  <2>4. slack \in Nat /\ v <= slack * PreciseUnit
    <3>1. slack \in Nat /\ v * 1 <= slack * PreciseUnit
      BY <2>1, PreciseMulCeilRoundsUp
    <3>. QED  BY <2>1, <3>1
  <2>5. Ref!getPostFeePositionUnits(units, inflation)[c] = expected
    <3>1. DOMAIN units = Tokens /\ units[c] = real
      BY DEF real
    <3>. HIDE DEF units
    <3>2. Ref!getPostFeePositionUnits(units, inflation)[c] = Ref!preciseMul(real, k)
      BY <2>1, <3>1 DEF Ref!getPostFeePositionUnits, k
    <3>3. real * k \in Nat
      BY <1>2, <2>1
    <3>. QED  BY <3>2, <3>3, QuotientOfNaturals, PreciseUnitAssumption DEF Ref!preciseMul
  <2>. HIDE DEF expected, slack
  <2>6. newM * PreciseUnit <= m * k /\ m * k < (newM + 1) * PreciseUnit /\ newM \in Nat
    BY <1>1 DEF m, k, newM
  <2>7. after <= expected + 1
    <3>1. /\ v \in Nat /\ m \in Nat /\ k \in Nat /\ k <= PreciseUnit /\ newM \in Nat
          /\ real \in Nat /\ after \in Nat /\ expected \in Nat
          /\ newM * PreciseUnit <= m * k /\ v * m < (real + 1) * PreciseUnit
          /\ after * PreciseUnit <= v * newM /\ real * k < (expected + 1) * PreciseUnit
      BY <1>2, <2>1, <2>2, <2>3, <2>6
    <3>. QED  BY <3>1, UnitAfterFeeFromAbove
  <2>8. after >= expected - slack
    BY <1>2, <2>1, <2>2, <2>3, <2>4, <2>6, UnitAfterFeeFromBelow
  <2>. QED  BY <2>5, <2>7, <2>8 DEF after, slack, v
<1>6. t.totalSupply - s.totalSupply = minted
  <2>. HIDE DEF minted
  <2>. QED  BY <1>0, <1>1
<1>. HIDE DEF inflation, minted
<1>. QED  BY <1>3, <1>4, <1>5, <1>6 DEF MatchesReference

\* An accrual mints and scales what the tests' formulas say, whichever accruals
\* and changes of rate came before.
THEOREM AccrualsMatchReference == Spec => FeeAccrualMatchesReference
<1>1. ASSUME IInv, [Next]_vars, set'.positionMultiplier # set.positionMultiplier
      PROVE  MatchesReference(set, set', fees, now)
  <2>0. Inv(set) /\ FeesSound(fees, now) /\ now \in Nat
    BY <1>1 DEF IInv, ClaimsSound
  <2>1. set' \in accrue(set, fees, now)
    BY <1>1, MultiplierMovesByFees
  <2>2. set' # set
    BY <1>1
  <2>. QED  BY <2>0, <2>1, <2>2, AccrualMatches
<1>2. IInv /\ [Next]_vars =>
          [set'.positionMultiplier # set.positionMultiplier =>
              MatchesReference(set, set', fees, now)]_vars
  BY <1>1
<1>. QED  BY <1>2, SystemInvariant, PTL
          DEF Spec, FeeAccrualMatchesReference, MatchesReference, realUnit
-----------------------------------------------------------------------------
(* Where a bid leaves the position it trades. *)

RoundingsGrow(a, b, n) ==
    /\ preciseMul(a, n) \in Nat /\ preciseMulCeil(a, n) \in Nat
    /\ preciseMul(b, n) \in Nat /\ preciseMulCeil(b, n) \in Nat
    /\ preciseMul(a, n) <= preciseMul(b, n)
    /\ preciseMulCeil(a, n) <= preciseMulCeil(b, n)
    /\ preciseMul(a, n) <= preciseMulCeil(a, n)

\* Both roundings of a product grow with its factors and lie around it.
LEMMA PreciseMulGrows ==
    ASSUME NEW a \in Nat, NEW b \in Nat, NEW n \in Nat, a <= b
    PROVE  RoundingsGrow(a, b, n)
<1>. DEFINE x == a * n
            y == b * n
            p == preciseMul(a, n)
            r == preciseMul(b, n)
            c == preciseMulCeil(a, n)
            d == preciseMulCeil(b, n)
<1>1. /\ p \in Nat /\ p * PreciseUnit <= x
      /\ r \in Nat /\ y < (r + 1) * PreciseUnit
      /\ c \in Nat /\ c * PreciseUnit < x + PreciseUnit /\ x <= c * PreciseUnit
      /\ d \in Nat /\ y <= d * PreciseUnit
  BY PreciseMulRoundsDown, PreciseMulCeilRoundsUp
<1>2. x \in Nat /\ y \in Nat /\ x <= y
  BY ProductGrows
<1>. HIDE DEF x, y, p, r, c, d
<1>3. p * PreciseUnit < (r + 1) * PreciseUnit /\ p * PreciseUnit <= c * PreciseUnit
  BY <1>1, <1>2, PreciseUnitAssumption
<1>4. c * PreciseUnit < (d + 1) * PreciseUnit
  <2>1. (d + 1) * PreciseUnit = d * PreciseUnit + PreciseUnit
    BY <1>1, PreciseUnitAssumption
  <2>. QED  BY <1>1, <1>2, <2>1, PreciseUnitAssumption
<1>5. p < r + 1 /\ p <= c /\ c < d + 1
  BY <1>1, <1>3, <1>4, PreciseUnitAssumption
<1>6. p <= r /\ c <= d /\ p <= c
  BY <1>1, <1>5
<1>. QED  BY <1>1, <1>6 DEF p, r, c, d, RoundingsGrow

\* The order of the factors does not matter.
LEMMA PreciseMulCommutes ==
    ASSUME NEW a \in Nat, NEW b \in Nat
    PROVE  preciseMul(a, b) = preciseMul(b, a) /\ preciseMulCeil(a, b) = preciseMulCeil(b, a)
<1>1. a * b = b * a
  OBVIOUS
<1>2. preciseMul(a, b) = preciseMul(b, a)
  BY <1>1 DEF preciseMul
<1>3. preciseMulCeil(a, b) = preciseMulCeil(b, a)
  BY <1>1 DEF preciseMulCeil
<1>. QED  BY <1>2, <1>3

\* What lies between the present notional, rounded down, and the target's,
\* rounded up, lies between the notionals of the lower and the higher unit.
LEMMA BetweenRoundings ==
    ASSUME NEW before \in Nat, NEW target \in Nat, NEW n \in Nat, NEW x \in Nat,
           NEW current, current = preciseMul(n, before),
           NEW goal, goal = preciseMulCeil(n, target),
           \/ goal <= x /\ x <= current
           \/ current <= x /\ x <= goal
    PROVE  /\ preciseMul(smaller(before, target), n) \in Nat
           /\ preciseMulCeil(larger(before, target), n) \in Nat
           /\ preciseMul(smaller(before, target), n) <= x
           /\ x <= preciseMulCeil(larger(before, target), n)
<1>. DEFINE lo == smaller(before, target)
            hi == larger(before, target)
<1>1. /\ lo \in Nat /\ hi \in Nat
      /\ lo <= before /\ lo <= target /\ before <= hi /\ target <= hi
  BY DEF smaller, larger
<1>2. current = preciseMul(before, n) /\ goal = preciseMulCeil(target, n)
  BY PreciseMulCommutes
<1>. HIDE DEF lo, hi
<1>3. /\ RoundingsGrow(lo, before, n) /\ RoundingsGrow(lo, target, n)
      /\ RoundingsGrow(before, hi, n) /\ RoundingsGrow(target, hi, n)
  BY <1>1, PreciseMulGrows
<1>4. /\ preciseMul(lo, n) \in Nat /\ preciseMulCeil(lo, n) \in Nat /\ current \in Nat
      /\ goal \in Nat /\ preciseMulCeil(before, n) \in Nat /\ preciseMulCeil(hi, n) \in Nat
      /\ preciseMul(lo, n) <= current
      /\ preciseMul(lo, n) <= preciseMulCeil(lo, n) /\ preciseMulCeil(lo, n) <= goal
      /\ current <= preciseMulCeil(before, n)
      /\ preciseMulCeil(before, n) <= preciseMulCeil(hi, n) /\ goal <= preciseMulCeil(hi, n)
  BY <1>2, <1>3 DEF RoundingsGrow
<1>5. preciseMul(lo, n) <= x /\ x <= preciseMulCeil(hi, n)
  BY <1>4
<1>. QED  BY <1>4, <1>5 DEF lo, hi

\* Storing x tokens as a unit of n sets under multiplier m rounds down twice,
\* once if the multiplier is one, and reading it back gives after.
LEMMA StoredUnitNear ==
    ASSUME NEW n \in Nat \ {0}, NEW m \in Nat \ {0}, m <= PreciseUnit,
           NEW x \in Nat, NEW u \in Nat, u * n <= x * PreciseUnit, x * PreciseUnit < (u + 1) * n,
           NEW v \in Nat, v * m <= u * PreciseUnit, u * PreciseUnit < (v + 1) * m,
           NEW after \in Nat, after * PreciseUnit <= v * m, v * m < (after + 1) * PreciseUnit,
           NEW lo \in Nat, NEW hi \in Nat, lo <= x, x <= hi
    PROVE  /\ after * n <= hi * PreciseUnit
           /\ (after + (IF m = PreciseUnit THEN 1 ELSE 2)) * n > lo * PreciseUnit
<1>. DEFINE roundings == IF m = PreciseUnit THEN 1 ELSE 2
            claim == v * m
            asked == u * PreciseUnit
<1>1. /\ claim \in Nat /\ asked \in Nat /\ claim <= asked /\ asked < claim + m
  <2>1. (v + 1) * m = claim + m
    OBVIOUS
  <2>. QED  BY <2>1, PreciseUnitAssumption
<1>2. after <= u
  <2>1. after * PreciseUnit <= u * PreciseUnit
    BY <1>1, PreciseUnitAssumption
  <2>. QED  BY <2>1, PreciseUnitAssumption
<1>3. u + 1 <= after + roundings
  <2>1. CASE m = PreciseUnit
    <3>1. u * PreciseUnit < (v + 1) * PreciseUnit /\ v * PreciseUnit < (after + 1) * PreciseUnit
      BY <2>1
    <3>2. u < v + 1 /\ v < after + 1
      BY <3>1, PreciseUnitAssumption
    <3>. QED  BY <2>1, <3>2
  <2>2. CASE m # PreciseUnit
    <3>. HIDE DEF claim, asked
    <3>1. asked < (after + 1) * PreciseUnit + PreciseUnit
      <4>1. claim < (after + 1) * PreciseUnit /\ (after + 1) * PreciseUnit \in Nat
        BY PreciseUnitAssumption DEF claim
      <4>. QED  BY <1>1, <4>1, PreciseUnitAssumption
    <3>2. (after + 1) * PreciseUnit + PreciseUnit = (after + 2) * PreciseUnit
      BY PreciseUnitAssumption
    <3>3. u * PreciseUnit < (after + 2) * PreciseUnit
      BY <3>1, <3>2 DEF asked
    <3>4. u < after + 2
      BY <3>3, PreciseUnitAssumption
    <3>. QED  BY <2>2, <3>4
  <2>. QED  BY <2>1, <2>2
<1>4. roundings \in Nat
  OBVIOUS
<1>. HIDE DEF roundings, claim, asked
<1>5. /\ after * n <= u * n /\ x * PreciseUnit <= hi * PreciseUnit
      /\ lo * PreciseUnit <= x * PreciseUnit
      /\ (u + 1) * n <= (after + roundings) * n
  BY <1>2, <1>3, <1>4, ProductGrows, PreciseUnitAssumption
<1>6. /\ after * n \in Nat /\ u * n \in Nat /\ (u + 1) * n \in Nat
      /\ (after + roundings) * n \in Nat
      /\ x * PreciseUnit \in Nat /\ hi * PreciseUnit \in Nat /\ lo * PreciseUnit \in Nat
  BY <1>4, PreciseUnitAssumption
<1>7. after * n <= hi * PreciseUnit /\ (after + roundings) * n > lo * PreciseUnit
  BY <1>5, <1>6
<1>. QED  BY <1>7 DEF roundings

\* A bid moves the tokens behind a position from the present notional towards
\* the target's and not beyond, the fee on a purchase included.
Towards(s, t, c, target) ==
    LET current == preciseMul(s.totalSupply, getDefaultPositionRealUnit(s, c))
        goal == preciseMulCeil(s.totalSupply, target)
        moved == current + (t.held[c] - s.held[c])
    IN  (goal <= moved /\ moved <= current) \/ (current <= moved /\ moved <= goal)

\* A purchase of no more than the missing tokens grossed up by the fee adds, net
\* of that fee, no more than the missing tokens.
LEMMA NetPurchase ==
    ASSUME NEW missing \in Nat, NEW q \in Nat,
           q <= preciseDiv(missing, PreciseUnit - AuctionFee)
    PROVE  /\ preciseMul(q, AuctionFee) \in Nat /\ preciseMul(q, AuctionFee) <= q
           /\ q - preciseMul(q, AuctionFee) <= missing
<1>. DEFINE kept == PreciseUnit - AuctionFee
            gross == preciseDiv(missing, kept)
            fee == preciseMul(q, AuctionFee)
            net == q - fee
<1>1. AuctionFee \in Nat /\ kept \in Nat \ {0} /\ AuctionFee + kept = PreciseUnit
  BY AuctionFeeAssumption, PreciseUnitAssumption
<1>2. fee \in Nat /\ q * AuctionFee < (fee + 1) * PreciseUnit /\ fee <= q
  <2>1. fee \in Nat /\ q * AuctionFee < (fee + 1) * PreciseUnit
    BY <1>1, PreciseMulRoundsDown
  <2>2. fee <= q
    BY KeptShare
  <2>. QED  BY <2>1, <2>2
<1>3. gross \in Nat /\ gross * kept <= missing * PreciseUnit /\ q <= gross
  <2>1. missing * PreciseUnit \in Nat
    BY PreciseUnitAssumption
  <2>2. gross = (missing * PreciseUnit) \div kept /\ q <= gross
    BY DEF preciseDiv
  <2>. HIDE DEF gross, kept
  <2>. QED  BY <1>1, <2>1, <2>2, DivisionBrackets
<1>. HIDE DEF kept, gross, fee
<1>4. q * kept <= missing * PreciseUnit
  <2>1. q * kept <= gross * kept /\ q * kept \in Nat /\ gross * kept \in Nat
    BY <1>1, <1>3, ProductGrows
  <2>. QED  BY <1>3, <2>1, PreciseUnitAssumption
<1>5. q * PreciseUnit = q * AuctionFee + q * kept
  <2>1. q * PreciseUnit = q * (AuctionFee + kept)
    BY <1>1
  <2>. QED  BY <1>1, <2>1
<1>6. q * PreciseUnit < (fee + 1 + missing) * PreciseUnit
  <2>1. (fee + 1 + missing) * PreciseUnit = (fee + 1) * PreciseUnit + missing * PreciseUnit
    BY <1>2, PreciseUnitAssumption
  <2>2. /\ q * AuctionFee \in Nat /\ q * kept \in Nat
        /\ (fee + 1) * PreciseUnit \in Nat /\ missing * PreciseUnit \in Nat
    BY <1>1, <1>2, PreciseUnitAssumption
  <2>. QED  BY <1>2, <1>4, <1>5, <2>1, <2>2
<1>7. q < fee + 1 + missing
  BY <1>2, <1>6, PreciseUnitAssumption
<1>8. net <= missing
  BY <1>2, <1>7
<1>. QED  BY <1>2, <1>8 DEF fee

\* bid: size and direction are those of calculateAuctionSizeAndDirection, and
\* the component's position follows its balance.
LEMMA BidSize ==
    ASSUME NEW s, Inv(s), NEW a, NEW bidder, NEW c \in Tokens, NEW q \in Nat, NEW limit,
           NEW time, NEW t \in bid(s, a, bidder, c, q, limit, time),
           a.quoteAsset \in Tokens, a.priceConfig[c] \in PriceConfig,
           time - a.rebalanceStartTime \in Nat
    PROVE  \E target \in getNormalizedTargetUnit(s, a, c) :
               target \in Nat => Towards(s, t, c, target) /\ Follows(s, t, c)
<1>. DEFINE prices == getPrice(a.priceConfig[c], time - a.rebalanceStartTime)
            auctions == IF isAllowedBidder(a, bidder) /\ validBidTargets(s, a, c, time)
                        THEN calculateAuctionSizeAndDirection(s, a, c) ELSE {}
            unit == getDefaultPositionRealUnit(s, c)
            current == preciseMul(s.totalSupply, unit)
<1>1. PICK auc \in auctions :
          t \in UNION {settleAtPrice(s, a, c, auc, q, limit, price)
                           : price \in IF q <= auc.quantity THEN prices ELSE {}}
  BY DEF bid
<1>2. c # a.quoteAsset /\ auc \in calculateAuctionSizeAndDirection(s, a, c)
  BY <1>1 DEF validBidTargets
<1>. HIDE DEF auctions
<1>3. PICK price \in prices : t \in settleAtPrice(s, a, c, auc, q, limit, price)
  BY <1>1
<1>4. q <= auc.quantity
  BY <1>1
<1>5. price \in Nat
  BY <1>3, PriceNatural
<1>. HIDE DEF prices
<1>6. preciseMulCeil(q, price) \in Nat /\ preciseMul(q, price) \in Nat
  BY <1>5, PreciseMulCeilRoundsUp, PreciseMulRoundsDown
<1>7. PICK target \in getNormalizedTargetUnit(s, a, c) :
          LET goal == preciseMulCeil(s.totalSupply, target)
          IN  auc = [isSellAuction |-> goal < current,
                     quantity |-> IF goal < current THEN current - goal
                                  ELSE preciseDiv(goal - current, PreciseUnit - AuctionFee)]
  BY <1>2 DEF calculateAuctionSizeAndDirection, Require, getDefaultTotalNotional
<1>. DEFINE goal == preciseMulCeil(s.totalSupply, target)
<1>8. SUFFICES ASSUME target \in Nat PROVE Towards(s, t, c, target) /\ Follows(s, t, c)
  OBVIOUS
<1>9. /\ s.totalSupply \in Nat /\ unit \in Nat /\ s.held[c] \in Nat
  BY RealUnitBrackets DEF Inv, SetTokenState
<1>. HIDE DEF unit
<1>10. current \in Nat /\ goal \in Nat
  BY <1>8, <1>9, PreciseMulRoundsDown, PreciseMulCeilRoundsUp
<1>11. /\ auc.isSellAuction = (goal < current)
       /\ auc.quantity = IF goal < current THEN current - goal
                         ELSE preciseDiv(goal - current, PreciseUnit - AuctionFee)
  BY <1>7
<1>. HIDE DEF current, goal
<1>12. CASE goal < current
  <2>1. t \in settle(s, c, a.quoteAsset, q, preciseMulCeil(q, price))
    BY <1>3, <1>11, <1>12 DEF settleAtPrice, calculateQuoteAssetQuantity
  <2>2. Settled(s, t, c, a.quoteAsset, q, preciseMulCeil(q, price))
    BY <1>2, <1>6, <2>1, SettleEffect
  <2>3. t.held[c] = s.held[c] - q /\ Follows(s, t, c)
    BY <2>2 DEF Settled
  <2>4. q <= current - goal
    BY <1>4, <1>11, <1>12
  <2>5. /\ goal <= current + (t.held[c] - s.held[c])
        /\ current + (t.held[c] - s.held[c]) <= current
    BY <1>9, <1>10, <2>3, <2>4
  <2>. QED  BY <2>3, <2>5 DEF Towards, current, goal, unit
<1>13. CASE ~(goal < current)
  <2>. DEFINE fee == preciseMul(q, AuctionFee)
  <2>1. t \in settle(s, a.quoteAsset, c, preciseMul(q, price), q)
    BY <1>3, <1>11, <1>13 DEF settleAtPrice, calculateQuoteAssetQuantity
  <2>2. Settled(s, t, a.quoteAsset, c, preciseMul(q, price), q)
    BY <1>2, <1>6, <2>1, SettleEffect
  <2>3. t.held[c] = s.held[c] + q - fee /\ Follows(s, t, c)
    BY <2>2 DEF Settled
  <2>4. q <= preciseDiv(goal - current, PreciseUnit - AuctionFee) /\ goal - current \in Nat
    BY <1>4, <1>10, <1>11, <1>13
  <2>5. fee \in Nat /\ fee <= q /\ q - fee <= goal - current
    BY <2>4, NetPurchase
  <2>. HIDE DEF fee
  <2>6. /\ current <= current + (t.held[c] - s.held[c])
        /\ current + (t.held[c] - s.held[c]) <= goal
    BY <1>9, <1>10, <2>3, <2>5
  <2>. QED  BY <2>3, <2>6 DEF Towards, current, goal, unit
<1>. QED  BY <1>12, <1>13

\* BidStaysNearTarget of any two states and target.
NearTarget(s, t, c, target) ==
    LET before == getDefaultPositionRealUnit(s, c)
        after == getDefaultPositionRealUnit(t, c)
        supply == s.totalSupply
        roundings == IF s.positionMultiplier = PreciseUnit THEN 1 ELSE 2
    IN  /\ after * supply <= preciseMulCeil(larger(before, target), supply) * PreciseUnit
        /\ (after + roundings) * supply
               > preciseMul(smaller(before, target), supply) * PreciseUnit

\* A covered position that follows its balance towards a target ends near it.
LEMMA FollowsTowards ==
    ASSUME NEW s, NEW t, Inv(s), Inv(t), NEW c \in Tokens, NEW target \in Nat,
           Untouched(s, t), Follows(s, t, c), Towards(s, t, c, target),
           s.positionMultiplier <= PreciseUnit, s.totalSupply > 0,
           preciseMul(getDefaultPositionRealUnit(s, c), s.totalSupply) <= s.held[c]
    PROVE  NearTarget(s, t, c, target)
<1>. DEFINE before == getDefaultPositionRealUnit(s, c)
            after == getDefaultPositionRealUnit(t, c)
            n == s.totalSupply
            m == s.positionMultiplier
            v == t.virtualUnit[c]
            current == preciseMul(n, before)
            goal == preciseMulCeil(n, target)
            x == current + (t.held[c] - s.held[c])
            u == (x * PreciseUnit) \div n
            lo == preciseMul(smaller(before, target), n)
            hi == preciseMulCeil(larger(before, target), n)
<1>1. /\ n \in Nat \ {0} /\ m \in Nat \ {0} /\ m <= PreciseUnit /\ before \in Nat
      /\ s.held[c] \in Nat /\ t.held[c] \in Nat
  <2>1. s.totalSupply \in Nat /\ s.positionMultiplier \in Nat /\ s.positionMultiplier > 0
    BY DEF Inv, SetTokenState
  <2>2. s.held[c] \in Nat /\ t.held[c] \in Nat
    BY DEF Inv, SetTokenState
  <2>. QED  BY <2>1, <2>2, RealUnitBrackets
<1>2. t.totalSupply = n /\ t.positionMultiplier = m
  BY DEF Untouched
<1>3. /\ v \in Nat /\ after \in Nat
      /\ after * PreciseUnit <= v * m /\ v * m < (after + 1) * PreciseUnit
  BY <1>2, RealUnitBrackets
<1>4. current \in Nat /\ goal \in Nat /\ current = preciseMul(before, n)
  BY <1>1, PreciseMulRoundsDown, PreciseMulCeilRoundsUp, PreciseMulCommutes
<1>5. (goal <= x /\ x <= current) \/ (current <= x /\ x <= goal)
  BY DEF Towards
<1>6. x \in Nat
  <2>. HIDE DEF current, goal
  <2>. QED  BY <1>1, <1>4, <1>5
<1>7. StoredFrom(t, c, x)
  <2>. HIDE DEF current
  <2>1. x = t.held[c] - (s.held[c] - preciseMul(before, n))
    BY <1>1, <1>4
  <2>. HIDE DEF x
  <2>. QED  BY <1>1, <1>6, <2>1 DEF Follows
<1>8. v * m <= u * PreciseUnit /\ u * PreciseUnit < (v + 1) * m
  BY <1>2, <1>7 DEF StoredFrom
<1>9. lo \in Nat /\ hi \in Nat /\ lo <= x /\ x <= hi
  <2>. HIDE DEF x
  <2>1. current = preciseMul(n, before) /\ goal = preciseMulCeil(n, target) /\ n \in Nat
    BY <1>1
  <2>. HIDE DEF before, n, current, goal
  <2>. QED  BY <1>1, <1>5, <1>6, <2>1, BetweenRoundings
<1>. HIDE DEF x
<1>10. u \in Nat /\ u * n <= x * PreciseUnit /\ x * PreciseUnit < (u + 1) * n
  <2>1. x * PreciseUnit \in Nat
    BY <1>6, PreciseUnitAssumption
  <2>. QED  BY <1>1, <2>1, DivisionBrackets
<1>. HIDE DEF before, after, n, m, v, current, goal, u, lo, hi
<1>11. /\ after * n <= hi * PreciseUnit
       /\ (after + (IF m = PreciseUnit THEN 1 ELSE 2)) * n > lo * PreciseUnit
  BY <1>1, <1>3, <1>6, <1>8, <1>9, <1>10, StoredUnitNear
<1>. QED  BY <1>11 DEF NearTarget, before, after, n, m, lo, hi

\* No bid takes a covered position past its target, nor back from it, by more
\* than the roundings of a stored unit.
THEOREM BidsStayNearTarget == Spec => BidStaysNearTarget
<1>1. ASSUME IInv, [Next]_vars, NEW c \in Tokens \ {auction.quoteAsset},
             set'.virtualUnit[c] # set.virtualUnit[c], set.totalSupply > 0,
             preciseMul(realUnit(c), set.totalSupply) <= set.held[c]
      PROVE  NearTarget(set, set', c, scaledTarget(c))
  <2>0. /\ Inv(set) /\ set.positionMultiplier <= PreciseUnit
        /\ AuctionSound(auction, now) /\ now \in Nat
    BY <1>1 DEF IInv, ClaimsSound, ControlSound
  <2>1. Inv(set')
    <3>1. IInv'
      BY <1>1, StepIInv
    <3>. QED  BY <3>1 DEF IInv, ClaimsSound
  <2>2. PICK bidder \in Bidders, q \in Nat, limit \in BidLimits :
            set' \in bid(set, auction, bidder, c, q, limit, now)
    BY <1>1, UnitsMoveByBids
  <2>3. /\ Untouched(set, set') /\ auction.quoteAsset \in Tokens
        /\ now - auction.rebalanceStartTime \in Nat /\ auction.priceConfig[c] \in PriceConfig
    BY <1>1, <2>2, BidStep
  <2>4. PICK target \in getNormalizedTargetUnit(set, auction, c) :
            target \in Nat => Towards(set, set', c, target) /\ Follows(set, set', c)
    BY <2>0, <2>2, <2>3, BidSize
  <2>5. target = scaledTarget(c) /\ auction.positionMultiplier > 0
    BY <2>4 DEF getNormalizedTargetUnit, Require, scaledTarget
  <2>6. target \in Nat
    <3>1. /\ auction.targetUnit[c] \in Nat /\ set.positionMultiplier \in Nat
          /\ auction.positionMultiplier \in Nat
      BY <1>1, <2>0 DEF AuctionSound, AuctionState, Inv, SetTokenState
    <3>2. auction.targetUnit[c] * set.positionMultiplier \in Nat
      BY <3>1
    <3>3. scaledTarget(c) \in Nat
      BY <2>5, <3>1, <3>2, DivisionBrackets DEF scaledTarget
    <3>. QED  BY <2>5, <3>3
  <2>7. preciseMul(getDefaultPositionRealUnit(set, c), set.totalSupply) <= set.held[c]
    BY <1>1 DEF realUnit
  <2>. QED  BY <1>1, <2>0, <2>1, <2>3, <2>4, <2>5, <2>6, <2>7, FollowsTowards
<1>2. IInv /\ [Next]_vars =>
          [\A c \in Tokens \ {auction.quoteAsset} :
              (/\ set.totalSupply > 0 /\ set'.virtualUnit[c] # set.virtualUnit[c]
               /\ preciseMul(realUnit(c), set.totalSupply) <= set.held[c]) =>
                  NearTarget(set, set', c, scaledTarget(c))]_vars
  BY <1>1
<1>. QED  BY <1>2, SystemInvariant, PTL DEF Spec, BidStaysNearTarget, NearTarget, realUnit
=============================================================================

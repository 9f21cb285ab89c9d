------------------------- MODULE NavIssuanceProofs -------------------------
(***************************************************************************)
(* Proofs about NavIssuance, for all tokens, decimals, prices, fees and    *)
(* quantities: issuing and redeeming at net asset value adds no claim that *)
(* the set does not hold the tokens for.                                   *)
(***************************************************************************)
EXTENDS NavIssuance, PositionProofs

(* Settings. *)

\* The array and the mapping of reserve assets agree, and the percentages are
\* below the bound that initialize checks.
NavSound(n) ==
    /\ n \in NAVIssuanceSettings
    /\ n.isReserveAsset = {n.reserveAssets[i] : i \in DOMAIN n.reserveAssets}
    /\ \A i, j \in DOMAIN n.reserveAssets : n.reserveAssets[i] = n.reserveAssets[j] => i = j
    /\ n.premiumPercentage <= n.maxPremiumPercentage
    /\ n.maxPremiumPercentage < PreciseUnit

\* A set without the module has sound, empty settings.
LEMMA NoSettingsSound == NavSound(noNavSettings)
<1>. DEFINE n == noNavSettings
<1>1. /\ n.reserveAssets = <<>> /\ n.isReserveAsset = {} /\ n.premiumPercentage = 0
      /\ n.maxPremiumPercentage = 0
  BY DEF noNavSettings
<1>2. n \in NAVIssuanceSettings
  BY DEF noNavSettings, NAVIssuanceSettings
<1>. HIDE DEF n
<1>. QED  BY <1>1, <1>2, PreciseUnitAssumption DEF NavSound, n

\* addReserveAsset refuses an asset already marked, so the array gets no duplicate.
LEMMA AddReserveAssetSound ==
    ASSUME NEW s, NEW n, NavSound(n), NEW caller, NEW c \in Tokens,
           NEW k \in addReserveAsset(s, n, caller, c)
    PROVE  NavSound(k)
<1>. DEFINE A == n.reserveAssets
            B == Append(A, c)
<1>0. n \in NAVIssuanceSettings /\ A \in Seq(Tokens)
  BY DEF NavSound, NAVIssuanceSettings
<1>1. /\ c \notin n.isReserveAsset
      /\ k = [n EXCEPT !.reserveAssets = B, !.isReserveAsset = n.isReserveAsset \cup {c}]
  BY DEF addReserveAsset, Require
<1>2. /\ B \in Seq(Tokens) /\ DOMAIN A = 1 .. Len(A) /\ DOMAIN B = 1 .. (Len(A) + 1)
      /\ Len(A) \in Nat /\ B[Len(A) + 1] = c /\ \A i \in 1 .. Len(A) : B[i] = A[i]
  BY <1>0
<1>. HIDE DEF B
<1>3. /\ k \in NAVIssuanceSettings
      /\ k.reserveAssets = B /\ k.isReserveAsset = n.isReserveAsset \cup {c}
      /\ k.premiumPercentage = n.premiumPercentage
      /\ k.maxPremiumPercentage = n.maxPremiumPercentage
  BY <1>0, <1>1, <1>2 DEF NAVIssuanceSettings
<1>. DEFINE m == Len(A)
<1>. HIDE DEF A, m
<1>4. /\ n.isReserveAsset = {A[i] : i \in 1 .. m}
      /\ \A i, j \in 1 .. m : A[i] = A[j] => i = j
  BY <1>2 DEF NavSound, A, m
<1>5. {B[i] : i \in 1 .. (m + 1)} = n.isReserveAsset \cup {c}
  BY <1>2, <1>4 DEF m
<1>6. \A i, j \in 1 .. (m + 1) : B[i] = B[j] => i = j
  <2>1. \A i \in 1 .. m : B[i] # c
    BY <1>1, <1>2, <1>4 DEF m
  <2>. QED  BY <1>2, <1>4, <2>1 DEF m
<1>7. n.premiumPercentage <= n.maxPremiumPercentage /\ n.maxPremiumPercentage < PreciseUnit
  BY DEF NavSound
<1>8. DOMAIN B = 1 .. (m + 1)
  BY <1>2 DEF m, A
<1>. QED  BY <1>3, <1>5, <1>6, <1>7, <1>8 DEF NavSound

\* removeReserveAsset takes the asset out of the array and the mapping; there was
\* one occurrence to take out.
LEMMA RemoveReserveAssetSound ==
    ASSUME NEW s, NEW n, NavSound(n), NEW caller, NEW c \in Tokens,
           NEW k \in removeReserveAsset(s, n, caller, c)
    PROVE  NavSound(k)
<1>. DEFINE A == n.reserveAssets
            m == Len(A)
<1>0. n \in NAVIssuanceSettings /\ A \in Seq(Tokens)
  BY DEF NavSound, NAVIssuanceSettings
<1>1. PICK B \in remove(A, c) : k = [n EXCEPT !.reserveAssets = B, !.isReserveAsset = n.isReserveAsset \ {c}]
  BY DEF removeReserveAsset
<1>2. m \in Nat /\ DOMAIN A = 1 .. m /\ \A i \in 1 .. m : A[i] \in Tokens
  BY <1>0
<1>3. /\ n.isReserveAsset = {A[i] : i \in 1 .. m}
      /\ \A i, j \in 1 .. m : A[i] = A[j] => i = j
  BY <1>2 DEF NavSound
<1>. DEFINE p == indexOf(A, c)
            First(i) == A[i] = c /\ \A j \in 1 .. (i - 1) : A[j] # c
<1>4. p \in 1 .. m /\ A[p] = c
  <2>1. contains(A, c) /\ \E i \in 1 .. m : A[i] = c
    BY <1>1 DEF remove, Require, contains, indexOf
  <2>2. PICK i \in 1 .. m : A[i] = c
    BY <2>1
  <2>3. \A j \in 1 .. (i - 1) : A[j] # c
    BY <1>2, <1>3, <2>2
  <2>4. \E x \in 1 .. m : First(x)
    BY <2>2, <2>3
  <2>5. p = CHOOSE x \in 1 .. m : First(x)
    BY <2>1 DEF indexOf
  <2>. QED  BY <2>4, <2>5
<1>5. B = [i \in 1 .. (m - 1) |-> IF i < p THEN A[i] ELSE A[i + 1]]
  BY <1>1 DEF remove, Require, pop
<1>. HIDE DEF A, m, p
<1>6. B \in Seq(Tokens) /\ DOMAIN B = 1 .. (m - 1)
  BY <1>2, <1>4, <1>5
<1>7. \A i \in 1 .. (m - 1) : B[i] = IF i < p THEN A[i] ELSE A[i + 1]
  BY <1>5
<1>8. /\ k \in NAVIssuanceSettings
      /\ k.reserveAssets = B /\ k.isReserveAsset = n.isReserveAsset \ {c}
      /\ k.premiumPercentage = n.premiumPercentage
      /\ k.maxPremiumPercentage = n.maxPremiumPercentage
  BY <1>0, <1>1, <1>6 DEF NAVIssuanceSettings
<1>9. \A i \in 1 .. (m - 1) : B[i] # c /\ \E j \in 1 .. m : B[i] = A[j]
  BY <1>2, <1>3, <1>4, <1>7
<1>10. ASSUME NEW j \in 1 .. m, A[j] # c PROVE \E i \in 1 .. (m - 1) : B[i] = A[j]
  <2>1. CASE j < p
    BY <1>2, <1>4, <1>7, <2>1
  <2>2. CASE j > p
    <3>1. j - 1 \in 1 .. (m - 1) /\ B[j - 1] = A[j]
      BY <1>2, <1>4, <1>7, <2>2
    <3>. QED  BY <3>1
  <2>. QED  BY <1>4, <1>10, <2>1, <2>2
<1>11. {B[i] : i \in 1 .. (m - 1)} = n.isReserveAsset \ {c}
  BY <1>3, <1>9, <1>10
<1>12. \A i, j \in 1 .. (m - 1) : B[i] = B[j] => i = j
  BY <1>2, <1>3, <1>4, <1>7
<1>13. n.premiumPercentage <= n.maxPremiumPercentage /\ n.maxPremiumPercentage < PreciseUnit
  BY DEF NavSound
<1>14. {k.reserveAssets[i] : i \in DOMAIN k.reserveAssets} = {B[i] : i \in 1 .. (m - 1)}
  BY <1>6, <1>8
<1>15. \A i, j \in DOMAIN k.reserveAssets : k.reserveAssets[i] = k.reserveAssets[j] => i = j
  BY <1>6, <1>8, <1>12
<1>. QED  BY <1>8, <1>11, <1>13, <1>14, <1>15 DEF NavSound

\* The manager's other edits: a premium stays below its maximum.
LEMMA EditSettingsSound ==
    ASSUME NEW s, NEW n, NavSound(n), NEW caller,
           NEW premium, NEW fee, NEW side \in {"issue", "redeem"}, NEW recipient,
           NEW k,
           \/ premium \in Nat /\ k \in editPremium(s, n, caller, premium)
           \/ fee \in Nat /\ k \in editManagerFee(s, n, caller, fee, side)
           \/ recipient \in NavRecipients /\ k \in editNavFeeRecipient(s, n, caller, recipient)
    PROVE  NavSound(k)
<1>0. n \in NAVIssuanceSettings
  BY DEF NavSound
<1>1. CASE premium \in Nat /\ k \in editPremium(s, n, caller, premium)
  <2>1. premium <= n.maxPremiumPercentage /\ k = [n EXCEPT !.premiumPercentage = premium]
    BY <1>1 DEF editPremium, Require
  <2>2. /\ k \in NAVIssuanceSettings
        /\ k.reserveAssets = n.reserveAssets /\ k.isReserveAsset = n.isReserveAsset
        /\ k.premiumPercentage = premium /\ k.maxPremiumPercentage = n.maxPremiumPercentage
    BY <1>0, <1>1, <2>1 DEF NAVIssuanceSettings
  <2>. QED  BY <2>1, <2>2 DEF NavSound
<1>2. CASE fee \in Nat /\ k \in editManagerFee(s, n, caller, fee, side)
  <2>. DEFINE fees == [n.managerFees EXCEPT ![side] = fee]
  <2>1. k = [n EXCEPT !.managerFees = fees]
    BY <1>0, <1>2 DEF editManagerFee, Require, NAVIssuanceSettings
  <2>2. fees \in [issue : Nat, redeem : Nat]
    BY <1>0, <1>2 DEF NAVIssuanceSettings
  <2>. HIDE DEF fees
  <2>3. /\ k \in NAVIssuanceSettings
        /\ k.reserveAssets = n.reserveAssets /\ k.isReserveAsset = n.isReserveAsset
        /\ k.premiumPercentage = n.premiumPercentage
        /\ k.maxPremiumPercentage = n.maxPremiumPercentage
    BY <1>0, <2>1, <2>2 DEF NAVIssuanceSettings
  <2>. QED  BY <2>3 DEF NavSound
<1>3. CASE recipient \in NavRecipients /\ k \in editNavFeeRecipient(s, n, caller, recipient)
  <2>1. k = [n EXCEPT !.feeRecipient = recipient]
    BY <1>3 DEF editNavFeeRecipient, Require
  <2>2. /\ k \in NAVIssuanceSettings
        /\ k.reserveAssets = n.reserveAssets /\ k.isReserveAsset = n.isReserveAsset
        /\ k.premiumPercentage = n.premiumPercentage
        /\ k.maxPremiumPercentage = n.maxPremiumPercentage
    BY <1>0, <1>3, <2>1 DEF NAVIssuanceSettings
  <2>. QED  BY <2>2 DEF NavSound
<1>. QED  BY <1>1, <1>2, <1>3

\* initialize on a set whose settings are still the deleted ones.
LEMMA InitializeNavSound ==
    ASSUME NEW s, NEW caller, NEW settings \in NavSettings,
           NEW r \in initializeNav(s, noNavSettings, caller, settings)
    PROVE  /\ NavSound(r.nav)
           /\ r.set \in initializeModule(s, NavModule)
<1>. DEFINE A == settings.reserveAssets
            listed == {A[i] : i \in DOMAIN A}
<1>0. settings \in NAVIssuanceSettings /\ A \in Seq(Tokens)
  BY NavSettingsAssumption DEF NAVIssuanceSettings
<1>1. noNavSettings.isReserveAsset \cup listed = listed
  BY DEF noNavSettings
<1>2. /\ r.set \in initializeModule(s, NavModule)
      /\ r.nav = [settings EXCEPT !.isReserveAsset = noNavSettings.isReserveAsset \cup listed]
      /\ settings.maxPremiumPercentage < PreciseUnit
      /\ settings.premiumPercentage <= settings.maxPremiumPercentage
      /\ \A i, j \in DOMAIN A : A[i] = A[j] => i = j
  <2>1. PICK t \in initializeModule(s, NavModule) :
            r = [set |-> t, nav |-> [settings EXCEPT !.isReserveAsset = noNavSettings.isReserveAsset \cup listed]]
    BY DEF initializeNav
  <2>2. r.set = t /\ r.nav = [settings EXCEPT !.isReserveAsset = noNavSettings.isReserveAsset \cup listed]
    BY <2>1
  <2>3. /\ settings.maxPremiumPercentage < PreciseUnit
        /\ settings.premiumPercentage <= settings.maxPremiumPercentage
        /\ \A i, j \in DOMAIN A : A[i] = A[j] => i = j
    BY Zenon DEF initializeNav
  <2>. QED  BY <2>2, <2>3
<1>3. listed \in SUBSET Tokens
  BY <1>0
<1>. HIDE DEF listed
<1>4. /\ r.nav \in NAVIssuanceSettings
      /\ r.nav.reserveAssets = A /\ r.nav.isReserveAsset = listed
      /\ r.nav.premiumPercentage = settings.premiumPercentage
      /\ r.nav.maxPremiumPercentage = settings.maxPremiumPercentage
  BY <1>0, <1>1, <1>2, <1>3 DEF NAVIssuanceSettings
<1>. QED  BY <1>2, <1>4 DEF NavSound, listed

\* removeModule leaves no asset marked: all of them are listed.
LEMMA RemoveNavClears ==
    ASSUME NEW n, NavSound(n)
    PROVE  removeNav(n) = noNavSettings
<1>1. n.isReserveAsset \ {n.reserveAssets[i] : i \in DOMAIN n.reserveAssets} = {}
  BY DEF NavSound
<1>. DEFINE k == noNavSettings
<1>2. k.isReserveAsset = {} /\ k \in NAVIssuanceSettings
  BY NoSettingsSound DEF noNavSettings, NavSound
<1>. HIDE DEF k
<1>3. [k EXCEPT !.isReserveAsset = {}] = k
  BY <1>2 DEF NAVIssuanceSettings
<1>. QED  BY <1>1, <1>3 DEF removeNav, k
-----------------------------------------------------------------------------
(* Quantities. *)

\* A percentage of a quantity, rounded either way, is no more than the whole.
LEMMA ShareWithinWhole ==
    ASSUME NEW a \in Nat, NEW p \in Nat, p < PreciseUnit
    PROVE  /\ preciseMul(a, p) \in Nat /\ preciseMul(a, p) <= a
           /\ preciseMulCeil(a, p) \in Nat /\ preciseMulCeil(a, p) <= a
<1>. DEFINE x == preciseMul(a, p)
            y == preciseMulCeil(a, p)
            U == PreciseUnit
<1>0. U \in Nat /\ U > 0
  BY PreciseUnitAssumption
<1>1. x \in Nat /\ x * U <= a * p /\ y \in Nat /\ y * U < a * p + U
  BY PreciseMulRoundsDown, PreciseMulCeilRoundsUp
<1>2. a * p <= a * U /\ a * p \in Nat
  BY <1>0, ProductGrows
<1>. HIDE DEF x, y, U
<1>3. x <= a
  <2>1. SUFFICES ASSUME a + 1 <= x PROVE FALSE
    BY <1>1
  <2>2. (a + 1) * U <= x * U
    BY <1>0, <1>1, <2>1, ProductGrows
  <2>3. (a + 1) * U = a * U + U /\ a * U \in Nat
    BY <1>0
  <2>4. x * U \in Nat
    BY <1>0, <1>1
  <2>. QED  BY <1>0, <1>1, <1>2, <2>2, <2>3, <2>4
<1>4. y <= a
  <2>1. SUFFICES ASSUME a + 1 <= y PROVE FALSE
    BY <1>1
  <2>2. (a + 1) * U <= y * U
    BY <1>0, <1>1, <2>1, ProductGrows
  <2>3. (a + 1) * U = a * U + U /\ a * U \in Nat
    BY <1>0
  <2>4. y * U \in Nat
    BY <1>0, <1>1
  <2>. QED  BY <1>0, <1>1, <1>2, <2>2, <2>3, <2>4
<1>. QED  BY <1>1, <1>3, <1>4 DEF x, y

\* The parts that fees split a quantity q into.
SplitOf(fees, q) ==
    /\ fees.netFlowQuantity \in Nat /\ fees.protocolFees \in Nat /\ fees.managerFee \in Nat
    /\ fees.netFlowQuantity + fees.protocolFees + fees.managerFee = q

\* _getFees: protocol, manager and set share a quantity without remainder.
LEMMA FeesSplit ==
    ASSUME NEW n \in NAVIssuanceSettings, NEW q \in Nat, NEW side \in {"issue", "redeem"},
           NEW fees \in getFees(n, q, side)
    PROVE  SplitOf(fees, q)
<1>. DEFINE managerFee == n.managerFees[side]
            share == preciseMul(FeeShare[side], managerFee)
            toProtocol == preciseMul(share + DirectFee[side], q)
            toManager == preciseMul(managerFee - share, q)
<1>0. FeeShare[side] \in Nat /\ DirectFee[side] \in Nat /\ managerFee \in Nat
  BY NavInputsAssumption DEF NAVIssuanceSettings
<1>1. /\ share <= managerFee /\ toProtocol + toManager <= q
      /\ fees = [protocolFees |-> toProtocol, managerFee |-> toManager,
                 netFlowQuantity |-> q - toProtocol - toManager]
  BY DEF getFees, Require
<1>. HIDE DEF managerFee
<1>2. share \in Nat
  BY <1>0, PreciseMulRoundsDown
<1>. HIDE DEF share
<1>3. toProtocol \in Nat /\ toManager \in Nat
  <2>1. share + DirectFee[side] \in Nat /\ managerFee - share \in Nat
    BY <1>0, <1>1, <1>2
  <2>. QED  BY <2>1, PreciseMulRoundsDown
<1>. HIDE DEF toProtocol, toManager
<1>. QED  BY <1>1, <1>3 DEF SplitOf

\* What a Require on its own value lets through.
LEMMA RequiredNatural ==
    ASSUME NEW x, NEW v \in Require(x \in Nat, x)
    PROVE  v \in Nat
BY DEF Require

\* toUint256 refuses a set worth less than nothing.
LEMMA ValuationNatural ==
    ASSUME NEW s, NEW quotes, NEW c, NEW v \in calculateSetTokenValuation(s, quotes, c)
    PROVE  v \in Nat
BY RequiredNatural DEF calculateSetTokenValuation

\* preciseDiv by a positive number rounds down.
LEMMA QuotientNatural ==
    ASSUME NEW a \in Nat, NEW b \in Nat \ {0}
    PROVE  preciseDiv(a, b) \in Nat /\ preciseDiv(a, b) * b <= a * PreciseUnit
<1>1. a * PreciseUnit \in Nat
  BY PreciseUnitAssumption
<1>. QED  BY <1>1, DivisionBrackets DEF preciseDiv

\* _getSetTokenMintQuantity: a premium below 100% leaves no negative amount to
\* mint for.
LEMMA MintedNatural ==
    ASSUME NEW s, s.totalSupply \in Nat, NEW n, NavSound(n), NEW quotes, NEW c \in Tokens,
           NEW fees, NEW q, SplitOf(fees, q),
           NEW minted \in getSetTokenMintQuantity(s, n, quotes, c, fees)
    PROVE  minted \in Nat
<1>. DEFINE net == fees.netFlowQuantity
            netFees == preciseDiv(net, BaseUnit[c])
            premiumValue == preciseMul(net, n.premiumPercentage)
            netFeesAndPremium == preciseDiv(net - premiumValue, BaseUnit[c])
            total(v) == preciseMul(s.totalSupply, v)
            denominator(v) == total(v) + netFees - netFeesAndPremium
<1>1. net \in Nat /\ BaseUnit[c] \in Nat \ {0}
  BY BaseUnitAssumption DEF SplitOf
<1>2. n.premiumPercentage \in Nat /\ n.premiumPercentage < PreciseUnit
  BY PreciseUnitAssumption DEF NavSound, NAVIssuanceSettings
<1>3. PICK v \in calculateSetTokenValuation(s, quotes, c) :
          /\ denominator(v) > 0
          /\ minted = preciseDiv(preciseMul(netFeesAndPremium, s.totalSupply), denominator(v))
  BY DEF getSetTokenMintQuantity
<1>. HIDE DEF net
<1>4. premiumValue \in Nat /\ premiumValue <= net
  BY <1>1, <1>2, ShareWithinWhole
<1>. HIDE DEF premiumValue
<1>5. netFees \in Nat /\ netFeesAndPremium \in Nat
  BY <1>1, <1>4, QuotientNatural
<1>. HIDE DEF netFees, netFeesAndPremium
<1>6. total(v) \in Nat /\ preciseMul(netFeesAndPremium, s.totalSupply) \in Nat
  BY <1>5, ValuationNatural, PreciseMulRoundsDown
<1>. HIDE DEF total
<1>7. denominator(v) \in Nat \ {0}
  BY <1>3, <1>5, <1>6
<1>. HIDE DEF denominator
<1>. QED  BY <1>3, <1>6, <1>7, QuotientNatural

\* _getRedeemReserveQuantity: a premium below 100%, rounded up, takes no more than
\* the whole.
LEMMA RedeemedNatural ==
    ASSUME NEW s, NEW n, NavSound(n), NEW quotes, NEW c \in Tokens, NEW q \in Nat,
           NEW out \in getRedeemReserveQuantity(s, n, quotes, c, q)
    PROVE  out \in Nat
<1>. DEFINE before(v) == preciseMul(preciseMul(q, v), BaseUnit[c])
<1>1. BaseUnit[c] \in Nat
  BY BaseUnitAssumption
<1>2. n.premiumPercentage \in Nat /\ n.premiumPercentage < PreciseUnit
  BY PreciseUnitAssumption DEF NavSound, NAVIssuanceSettings
<1>3. PICK v \in calculateSetTokenValuation(s, quotes, c) :
          out = before(v) - preciseMulCeil(before(v), n.premiumPercentage)
  BY DEF getRedeemReserveQuantity
<1>4. before(v) \in Nat
  BY <1>1, ValuationNatural, PreciseMulRoundsDown
<1>. HIDE DEF before
<1>. QED  BY <1>2, <1>3, <1>4, ShareWithinWhole

\* The new multiplier, times the new supply, is no more than before.
LEMMA MultiplierShrinks ==
    ASSUME NEW s, s.positionMultiplier \in Nat, s.totalSupply \in Nat, NEW n2 \in Nat \ {0}
    PROVE  LET M == getPositionMultiplier(s, n2)
           IN  M \in Nat /\ M * n2 <= s.positionMultiplier * s.totalSupply
<1>. DEFINE a == s.positionMultiplier * s.totalSupply
<1>1. a \in Nat /\ getPositionMultiplier(s, n2) = truncDiv(a, n2)
  BY DEF getPositionMultiplier
<1>. HIDE DEF a
<1>2. truncDiv(a, n2) = a \div n2
  BY <1>1 DEF truncDiv, abs
<1>. QED  BY <1>1, <1>2, DivisionBrackets DEF a
-----------------------------------------------------------------------------
(* Claims.  n and n2 are the supplies before and after, m and M the          *)
(* multipliers, h a balance and i the sets issued for components.            *)

\* Lifting a bound through a common factor.
LEMMA CancelUnit ==
    ASSUME NEW x \in Nat, NEW y \in Nat, PreciseUnit * x <= PreciseUnit * y
    PROVE  x <= y
<1>. DEFINE U == PreciseUnit
<1>0. U \in Nat /\ U > 0
  BY PreciseUnitAssumption
<1>1. SUFFICES ASSUME y + 1 <= x PROVE FALSE
  OBVIOUS
<1>2. U * x <= U * y
  OBVIOUS
<1>. HIDE DEF U
<1>3. (y + 1) * U <= x * U
  BY <1>0, <1>1, ProductGrows
<1>4. (y + 1) * U = U * y + U /\ x * U = U * x /\ U * y \in Nat /\ U * x \in Nat
  BY <1>0
<1>. QED  BY <1>0, <1>2, <1>3, <1>4

\* The tokens the multiplier alone moves: their claims shrink by its rounding.
LEMMA DilutedClaims ==
    ASSUME NEW v \in Nat, NEW m \in Nat, NEW n \in Nat, NEW M \in Nat, NEW n2 \in Nat,
           M * n2 <= m * n
    PROVE  v * M * n2 <= v * m * n
<1>. DEFINE a == M * n2
            b == m * n
<1>1. a \in Nat /\ b \in Nat /\ a <= b
  OBVIOUS
<1>2. v * M * n2 = a * v /\ v * m * n = b * v
  OBVIOUS
<1>. HIDE DEF a, b
<1>3. a * v <= b * v
  BY <1>1, ProductGrows
<1>. QED  BY <1>2, <1>3

\* The reserve: stored from a unit that spreads x tokens over the new supply.
LEMMA ReserveClaims ==
    ASSUME NEW v \in Nat, NEW M \in Nat, NEW n2 \in Nat, NEW u \in Nat, NEW x \in Nat,
           NEW bound \in Nat,
           v * M <= u * PreciseUnit, u * n2 <= x * PreciseUnit, x * PreciseUnit <= bound
    PROVE  v * M * n2 <= PreciseUnit * bound
<1>1. v * M * n2 <= PreciseUnit * (x * PreciseUnit)
  BY ClaimsChain
<1>. DEFINE y == x * PreciseUnit
<1>2. y \in Nat /\ y <= bound /\ PreciseUnit \in Nat
  BY PreciseUnitAssumption
<1>3. v * M * n2 <= PreciseUnit * y /\ v * M * n2 \in Nat
  BY <1>1
<1>. HIDE DEF y
<1>4. y * PreciseUnit <= bound * PreciseUnit
  BY <1>2, ProductGrows
<1>5. /\ y * PreciseUnit = PreciseUnit * y /\ bound * PreciseUnit = PreciseUnit * bound
      /\ PreciseUnit * y \in Nat /\ PreciseUnit * bound \in Nat
  BY <1>2
<1>. QED  BY <1>3, <1>4, <1>5

\* What the positions track of a component, rounded down twice, is covered.
LEMMA ExistingCovered ==
    ASSUME NEW s, NEW i \in Nat, Inv(s), Covered(s, i), NEW c \in Tokens
    PROVE  LET existing == preciseMul(getDefaultPositionRealUnit(s, c), s.totalSupply)
           IN  existing \in Nat /\ existing * PreciseUnit <= s.held[c] * PreciseUnit + i
<1>. DEFINE real == getDefaultPositionRealUnit(s, c)
            n == s.totalSupply
            h == s.held[c]
            U == PreciseUnit
            claim == s.virtualUnit[c] * s.positionMultiplier
            e == preciseMul(real, n)
<1>0. U \in Nat /\ U > 0 /\ n \in Nat /\ h \in Nat
  BY PreciseUnitAssumption DEF Inv, SetTokenState
<1>1. real \in Nat /\ claim \in Nat /\ real * U <= claim
  BY RealUnitBrackets
<1>2. claim * n <= U * (h * U + i)
  BY DEF Covered
<1>. HIDE DEF real, n, h, claim
<1>3. e \in Nat /\ e * U <= real * n
  BY <1>0, <1>1, PreciseMulRoundsDown
<1>. HIDE DEF U, e
<1>. DEFINE x == e * U
            y == real * n
            z == real * U
            w == h * U + i
<1>4. x \in Nat /\ y \in Nat /\ z \in Nat /\ w \in Nat /\ x <= y /\ z <= claim
  BY <1>0, <1>1, <1>3
<1>5. z * n = y * U
  BY <1>0, <1>1
<1>6. claim * n <= U * w
  BY <1>2
<1>. HIDE DEF x, y, z, w
<1>7. x * U <= y * U /\ z * n <= claim * n /\ x * U \in Nat /\ y * U \in Nat /\ claim * n \in Nat
  BY <1>0, <1>1, <1>4, ProductGrows
<1>8. x * U = U * x /\ U * w \in Nat
  BY <1>0, <1>4
<1>9. U * x <= U * w
  BY <1>5, <1>6, <1>7, <1>8
<1>10. x <= w
  BY <1>4, <1>9, CancelUnit DEF U
<1>. QED  BY <1>3, <1>10 DEF x, w, e, U, real, n, h

\* From s to t the multiplier became M and component c got a unit stored from u.
Repositioned(s, t, c, M, u) ==
    /\ Inv(t) /\ M \in Nat /\ t.positionMultiplier = M /\ t.totalSupply = s.totalSupply
    /\ t.held = s.held /\ t.moduleStates = s.moduleStates
    /\ \A d \in Tokens \ {c} : t.virtualUnit[d] = s.virtualUnit[d]
    /\ t.virtualUnit[c] \in Nat /\ t.virtualUnit[c] * M <= u * PreciseUnit

\* The two edits at the end of every flow: multiplier first, then the unit of the
\* reserve under the new multiplier.
LEMMA UpdatePositionsEffect ==
    ASSUME NEW s, Inv(s), NEW c \in Tokens, NEW info,
           info.newPositionMultiplier \in Nat, info.newReservePositionUnit \in Nat,
           NEW t \in updatePositions(s, c, info)
    PROVE  Repositioned(s, t, c, info.newPositionMultiplier, info.newReservePositionUnit)
<1>. DEFINE M == info.newPositionMultiplier
            u == info.newReservePositionUnit
<1>1. PICK r \in editPositionMultiplier(s, NavModule, M) : t \in editDefaultPosition(r, NavModule, c, u)
  BY DEF updatePositions
<1>2. M \in Int /\ M \in Nat /\ u \in Nat
  OBVIOUS
<1>. HIDE DEF M, u
<1>3. Inv(r)
  BY <1>1, <1>2, EditPositionMultiplierInv
<1>4. r = [s EXCEPT !.positionMultiplier = M] /\ s \in SetTokenState
  BY <1>1 DEF editPositionMultiplier, Require, Inv
<1>5. /\ r.positionMultiplier = M /\ r.totalSupply = s.totalSupply /\ r.held = s.held
      /\ r.moduleStates = s.moduleStates /\ r.virtualUnit = s.virtualUnit
  BY <1>4 DEF SetTokenState
<1>6. /\ Inv(t) /\ Untouched(r, t) /\ t.held = r.held
      /\ t.externalPositionModules = r.externalPositionModules
      /\ \A d \in Tokens \ {c} : t.virtualUnit[d] = r.virtualUnit[d]
      /\ t.virtualUnit[c] \in Nat
      /\ t.virtualUnit[c] * r.positionMultiplier <= u * PreciseUnit
      /\ privileged(r, NavModule)
  BY <1>1, <1>2, <1>3, EditDefaultPositionEffect
<1>7. Repositioned(s, t, c, M, u)
  BY <1>2, <1>5, <1>6 DEF Untouched, Repositioned
<1>. QED  BY <1>7 DEF M, u
-----------------------------------------------------------------------------
(* Issuing and redeeming for a reserve asset. *)

\* t follows s with every claim covered as before.
Kept(s, t, i) == Inv(t) /\ Covered(t, i) /\ t.moduleStates = s.moduleStates

\* Common to both directions: with the new supply n2 and x tokens of the reserve
\* spread over it, a repositioned set stays covered.
LEMMA RepositionedCovered ==
    ASSUME NEW s, NEW i \in Nat, Inv(s), Covered(s, i), NEW c \in Tokens,
           NEW n2 \in Nat \ {0}, NEW u \in Nat, NEW x \in Nat, u * n2 <= x * PreciseUnit,
           NEW t, Inv(t), t.totalSupply = n2, t.moduleStates = s.moduleStates,
           t.positionMultiplier = getPositionMultiplier(s, n2),
           \A d \in Tokens \ {c} : t.virtualUnit[d] = s.virtualUnit[d] /\ t.held[d] = s.held[d],
           t.virtualUnit[c] * t.positionMultiplier <= u * PreciseUnit,
           x * PreciseUnit <= t.held[c] * PreciseUnit + i
    PROVE  Kept(s, t, i)
<1>0. /\ s.positionMultiplier \in Nat /\ s.totalSupply \in Nat
      /\ s \in SetTokenState /\ t \in SetTokenState /\ t.held \in [Tokens -> Nat]
  BY DEF Inv, SetTokenState
<1>1. /\ t.positionMultiplier \in Nat
      /\ t.positionMultiplier * n2 <= s.positionMultiplier * s.totalSupply
  BY <1>0, MultiplierShrinks
<1>2. \A d \in Tokens : s.virtualUnit[d] \in Nat /\ t.virtualUnit[d] \in Nat
  BY <1>0 DEF Inv, DefaultReadable, SetTokenState
<1>3. ASSUME NEW d \in Tokens \ {c}
      PROVE  t.virtualUnit[d] * t.positionMultiplier * t.totalSupply
                 <= PreciseUnit * (t.held[d] * PreciseUnit + i)
  <2>. DEFINE v == s.virtualUnit[d]
              old == v * s.positionMultiplier * s.totalSupply
              new == v * t.positionMultiplier * n2
              bound == PreciseUnit * (s.held[d] * PreciseUnit + i)
  <2>1. v \in Nat /\ old <= bound /\ s.held[d] \in Nat
    BY <1>0, <1>2 DEF Covered, SetTokenState
  <2>2. new <= old
    BY <1>0, <1>1, <2>1, DilutedClaims
  <2>3. new \in Nat /\ old \in Nat /\ bound \in Nat
    BY <1>0, <1>1, <2>1, PreciseUnitAssumption
  <2>4. t.virtualUnit[d] = v /\ t.held[d] = s.held[d]
    BY <1>3
  <2>5. new <= bound
    <3>. HIDE DEF new, old, bound
    <3>. QED  BY <2>1, <2>2, <2>3
  <2>. QED  BY <2>4, <2>5
<1>4. t.virtualUnit[c] * t.positionMultiplier * t.totalSupply
          <= PreciseUnit * (t.held[c] * PreciseUnit + i)
  <2>. DEFINE bound == t.held[c] * PreciseUnit + i
  <2>1. bound \in Nat
    BY <1>0, PreciseUnitAssumption
  <2>2. x * PreciseUnit <= bound
    OBVIOUS
  <2>3. t.virtualUnit[c] \in Nat
    BY <1>2
  <2>. HIDE DEF bound
  <2>4. t.virtualUnit[c] * t.positionMultiplier * n2 <= PreciseUnit * bound
    BY <1>1, <2>1, <2>2, <2>3, ReserveClaims
  <2>. QED  BY <2>4 DEF bound
<1>. QED  BY <1>3, <1>4 DEF Kept, Covered

\* issueForReserve: the claims of the sets minted are paid for by the net flow;
\* fees never reach the set and the premium is not minted for.
LEMMA IssueForReserveKeeps ==
    ASSUME NEW s, NEW i \in Nat, Inv(s), Covered(s, i), NEW n, NavSound(n), NEW quotes,
           NEW c \in Tokens, NEW quantity \in Nat, NEW minReceive,
           NEW t \in issueForReserve(s, n, quotes, c, quantity, minReceive)
    PROVE  Kept(s, t, i)
<1>. DEFINE supply == s.totalSupply
            existing == preciseMul(getDefaultPositionRealUnit(s, c), supply)
<1>0. /\ supply \in Nat /\ s.held \in [Tokens -> Nat] /\ n \in NAVIssuanceSettings
      /\ NavModule \in Modules
  BY NavModulesAssumption DEF Inv, SetTokenState, NavSound
<1>1. PICK info \in createIssuanceInfo(s, n, quotes, c, quantity) :
          \E b \in updatePositions(transferFrom(s, c, info.fees.netFlowQuantity), c, info) :
              t \in mint(b, NavModule, info.setTokenQuantity)
  BY DEF issueForReserve
<1>2. PICK fees \in getFees(n, quantity, "issue") :
          \E minted \in getSetTokenMintQuantity(s, n, quotes, c, fees) :
              /\ supply + minted > 0
              /\ info = [fees |-> fees, setTokenQuantity |-> minted,
                         newSetTokenSupply |-> supply + minted,
                         newPositionMultiplier |-> getPositionMultiplier(s, supply + minted),
                         newReservePositionUnit |->
                             getIssuePositionUnit(s, c, fees.netFlowQuantity, supply + minted)]
  BY DEF createIssuanceInfo
<1>3. PICK minted \in getSetTokenMintQuantity(s, n, quotes, c, fees) :
              /\ supply + minted > 0
              /\ info = [fees |-> fees, setTokenQuantity |-> minted,
                         newSetTokenSupply |-> supply + minted,
                         newPositionMultiplier |-> getPositionMultiplier(s, supply + minted),
                         newReservePositionUnit |->
                             getIssuePositionUnit(s, c, fees.netFlowQuantity, supply + minted)]
  BY <1>2
<1>. DEFINE net == fees.netFlowQuantity
            n2 == supply + minted
            M == getPositionMultiplier(s, n2)
            x == existing + net
            u == preciseDiv(x, n2)
<1>4. /\ info.fees = fees /\ info.setTokenQuantity = minted
      /\ info.newPositionMultiplier = M /\ info.newReservePositionUnit = u
  BY <1>3 DEF getIssuePositionUnit
<1>5. SplitOf(fees, quantity)
  BY <1>0, FeesSplit
<1>6. net \in Nat
  BY <1>5 DEF SplitOf
<1>7. minted \in Nat
  BY <1>0, <1>5, MintedNatural
<1>8. n2 \in Nat \ {0}
  BY <1>0, <1>3, <1>7
<1>. HIDE DEF n2, net
<1>9. existing \in Nat /\ existing * PreciseUnit <= s.held[c] * PreciseUnit + i
  BY ExistingCovered
<1>10. M \in Nat
  <2>1. s.positionMultiplier \in Nat /\ s.totalSupply \in Nat
    BY DEF Inv, SetTokenState
  <2>. QED  BY <1>8, <2>1, MultiplierShrinks
<1>. HIDE DEF existing, supply
<1>11. x \in Nat /\ u \in Nat /\ u * n2 <= x * PreciseUnit
  BY <1>6, <1>8, <1>9, QuotientNatural
<1>. HIDE DEF x, u, M
<1>. DEFINE a == transferFrom(s, c, net)
<1>12. PICK b \in updatePositions(a, c, info) : t \in mint(b, NavModule, minted)
  BY <1>1, <1>4 DEF net
<1>13. /\ Inv(a) /\ Untouched(s, a)
       /\ a.held = [s.held EXCEPT ![c] = s.held[c] + net]
       /\ a.virtualUnit = s.virtualUnit /\ a.components = s.components
       /\ a.externalPositionModules = s.externalPositionModules
  BY <1>6, TransferInEffect
<1>. HIDE DEF a
<1>14. info.newPositionMultiplier \in Nat /\ info.newReservePositionUnit \in Nat
  BY <1>4, <1>10, <1>11
<1>15. Repositioned(a, b, c, M, u)
  BY <1>4, <1>12, <1>13, <1>14, UpdatePositionsEffect
<1>16. Inv(t)
  <2>1. Inv(b)
    BY <1>15 DEF Repositioned
  <2>. QED  BY <1>0, <1>7, <1>12, <2>1, SupplyAndLockInv
<1>17. /\ t.totalSupply = b.totalSupply + minted /\ t.virtualUnit = b.virtualUnit
       /\ t.positionMultiplier = b.positionMultiplier /\ t.held = b.held
       /\ t.moduleStates = b.moduleStates
  <2>1. t = [b EXCEPT !.totalSupply = b.totalSupply + minted] /\ b \in SetTokenState
    BY <1>12, <1>15 DEF mint, Require, Repositioned, Inv
  <2>. QED  BY <2>1 DEF SetTokenState
<1>18. /\ t.totalSupply = n2 /\ t.moduleStates = s.moduleStates /\ t.positionMultiplier = M
       /\ t.held = [s.held EXCEPT ![c] = s.held[c] + net]
       /\ \A d \in Tokens \ {c} : t.virtualUnit[d] = s.virtualUnit[d]
       /\ t.virtualUnit[c] * t.positionMultiplier <= u * PreciseUnit
  BY <1>13, <1>15, <1>17 DEF Repositioned, Untouched, n2, supply
<1>19. /\ \A d \in Tokens \ {c} : t.virtualUnit[d] = s.virtualUnit[d] /\ t.held[d] = s.held[d]
       /\ t.held[c] = s.held[c] + net
  BY <1>0, <1>18
<1>20. x * PreciseUnit <= t.held[c] * PreciseUnit + i
  <2>. DEFINE h == s.held[c]
  <2>1. h \in Nat /\ PreciseUnit \in Nat
    BY <1>0, PreciseUnitAssumption
  <2>2. existing * PreciseUnit <= h * PreciseUnit + i /\ t.held[c] = h + net /\ x = existing + net
    BY <1>9, <1>19 DEF x
  <2>. HIDE DEF h
  <2>3. /\ (existing + net) * PreciseUnit = existing * PreciseUnit + net * PreciseUnit
        /\ (h + net) * PreciseUnit = h * PreciseUnit + net * PreciseUnit
        /\ existing * PreciseUnit \in Nat /\ net * PreciseUnit \in Nat /\ h * PreciseUnit \in Nat
    BY <1>6, <1>9, <2>1
  <2>. QED  BY <2>2, <2>3
<1>21. t.positionMultiplier = getPositionMultiplier(s, n2)
  BY <1>18 DEF M
<1>. QED  BY <1>8, <1>11, <1>16, <1>18, <1>19, <1>20, <1>21, RepositionedCovered

\* redeemForReserve: the reserve and the fees paid out are taken off what the
\* remaining sets share.
LEMMA RedeemForReserveKeeps ==
    ASSUME NEW s, NEW i \in Nat, Inv(s), Covered(s, i), NEW n, NavSound(n), NEW quotes,
           NEW c \in Tokens, NEW quantity \in Nat, NEW minReceive,
           NEW t \in redeemForReserve(s, n, quotes, c, quantity, minReceive)
    PROVE  Kept(s, t, i)
<1>. DEFINE supply == s.totalSupply
            n2 == supply - quantity
            existing == preciseMul(getDefaultPositionRealUnit(s, c), supply)
<1>0. /\ supply \in Nat /\ s.held \in [Tokens -> Nat] /\ n \in NAVIssuanceSettings
      /\ NavModule \in Modules /\ s \in SetTokenState
  BY NavModulesAssumption DEF Inv, SetTokenState, NavSound
<1>1. PICK info \in createRedemptionInfo(s, n, quotes, c, quantity) :
          \E b \in burn(s, NavModule, quantity) :
              \E a1 \in strictInvokeTransfer(b, NavModule, c, info.fees.netFlowQuantity) :
                  \E a2 \in payProtocolFeeFromSetToken(a1, NavModule, c, info.fees.protocolFees) :
                      \E a3 \in strictInvokeTransfer(a2, NavModule, c, info.fees.managerFee) :
                          t \in updatePositions(a3, c, info)
  BY DEF redeemForReserve
<1>2. PICK preFee \in getRedeemReserveQuantity(s, n, quotes, c, quantity) :
          \E fees \in getFees(n, preFee, "redeem") :
              \E unit \in getRedeemPositionUnit(s, c, fees, n2) :
                  /\ n2 > 0
                  /\ info = [fees |-> fees, setTokenQuantity |-> quantity, newSetTokenSupply |-> n2,
                             newPositionMultiplier |-> getPositionMultiplier(s, n2),
                             newReservePositionUnit |-> unit]
  BY DEF createRedemptionInfo
<1>3. PICK fees \in getFees(n, preFee, "redeem") :
              \E unit \in getRedeemPositionUnit(s, c, fees, n2) :
                  /\ n2 > 0
                  /\ info = [fees |-> fees, setTokenQuantity |-> quantity, newSetTokenSupply |-> n2,
                             newPositionMultiplier |-> getPositionMultiplier(s, n2),
                             newReservePositionUnit |-> unit]
  BY <1>2
<1>. DEFINE M == getPositionMultiplier(s, n2)
            p == fees.netFlowQuantity
            q == fees.protocolFees
            r == fees.managerFee
            x == existing - (p + q + r)
            u == preciseDiv(x, n2)
<1>4. /\ n2 > 0 /\ existing >= p + q + r
      /\ info.fees = fees /\ info.newPositionMultiplier = M /\ info.newReservePositionUnit = u
  BY <1>3 DEF getRedeemPositionUnit, Require
<1>5. preFee \in Nat
  BY <1>2, RedeemedNatural
<1>6. p \in Nat /\ q \in Nat /\ r \in Nat
  <2>1. SplitOf(fees, preFee)
    BY <1>0, <1>5, FeesSplit
  <2>. QED  BY <2>1 DEF SplitOf
<1>7. n2 \in Nat \ {0}
  BY <1>0, <1>4
<1>8. existing \in Nat /\ existing * PreciseUnit <= s.held[c] * PreciseUnit + i
  BY ExistingCovered
<1>9. M \in Nat
  <2>1. s.positionMultiplier \in Nat /\ s.totalSupply \in Nat
    BY DEF Inv, SetTokenState
  <2>. HIDE DEF n2
  <2>. QED  BY <1>7, <2>1, MultiplierShrinks
<1>10. PICK b \in burn(s, NavModule, quantity) :
           \E a1 \in strictInvokeTransfer(b, NavModule, c, p) :
               \E a2 \in strictInvokeTransfer(a1, NavModule, c, q) :
                   \E a3 \in strictInvokeTransfer(a2, NavModule, c, r) :
                       t \in updatePositions(a3, c, info)
  BY <1>1, <1>4 DEF payProtocolFeeFromSetToken
<1>11. PICK a1 \in strictInvokeTransfer(b, NavModule, c, p) :
               \E a2 \in strictInvokeTransfer(a1, NavModule, c, q) :
                   \E a3 \in strictInvokeTransfer(a2, NavModule, c, r) :
                       t \in updatePositions(a3, c, info)
  BY <1>10
<1>12. PICK a2 \in strictInvokeTransfer(a1, NavModule, c, q) :
                   \E a3 \in strictInvokeTransfer(a2, NavModule, c, r) :
                       t \in updatePositions(a3, c, info)
  BY <1>11
<1>13. PICK a3 \in strictInvokeTransfer(a2, NavModule, c, r) : t \in updatePositions(a3, c, info)
  BY <1>12
<1>. HIDE DEF n2, existing, M, p, q, r
<1>14. x \in Nat
  BY <1>4, <1>6, <1>8
<1>15. u \in Nat /\ u * n2 <= x * PreciseUnit
  <2>. HIDE DEF x
  <2>. QED  BY <1>7, <1>14, QuotientNatural
<1>. HIDE DEF x, u
<1>16. Inv(b)
  BY <1>0, <1>10, SupplyAndLockInv
<1>17. /\ b.totalSupply = n2 /\ b.virtualUnit = s.virtualUnit /\ b.held = s.held
       /\ b.moduleStates = s.moduleStates
  <2>1. b = [s EXCEPT !.totalSupply = s.totalSupply - quantity]
    BY <1>10 DEF burn, Require
  <2>. QED  BY <1>0, <2>1 DEF SetTokenState, n2
<1>18. SentOut(b, a1, c, p)
  BY <1>6, <1>11, <1>16, TransferOutEffect
<1>19. SentOut(a1, a2, c, q)
  <2>1. Inv(a1)
    BY <1>18 DEF SentOut
  <2>. QED  BY <1>6, <1>12, <2>1, TransferOutEffect
<1>20. SentOut(a2, a3, c, r)
  <2>1. Inv(a2)
    BY <1>19 DEF SentOut
  <2>. QED  BY <1>6, <1>13, <2>1, TransferOutEffect
<1>21. Repositioned(a3, t, c, M, u)
  <2>1. Inv(a3)
    BY <1>20 DEF SentOut
  <2>2. info.newPositionMultiplier \in Nat /\ info.newReservePositionUnit \in Nat
    BY <1>4, <1>9, <1>15
  <2>3. Repositioned(a3, t, c, info.newPositionMultiplier, info.newReservePositionUnit)
    BY <1>13, <2>1, <2>2, UpdatePositionsEffect
  <2>. QED  BY <1>4, <2>3
<1>22. /\ a3.virtualUnit = s.virtualUnit /\ a3.totalSupply = n2 /\ a3.moduleStates = s.moduleStates
  BY <1>17, <1>18, <1>19, <1>20 DEF SentOut, Untouched
<1>23. /\ a3.held[c] = s.held[c] - p - q - r
       /\ \A d \in Tokens \ {c} : a3.held[d] = s.held[d]
  <2>1. a1.held = [s.held EXCEPT ![c] = s.held[c] - p] /\ p <= s.held[c]
    BY <1>17, <1>18 DEF SentOut
  <2>2. a1.held[c] = s.held[c] - p /\ \A d \in Tokens \ {c} : a1.held[d] = s.held[d]
    BY <1>0, <2>1
  <2>3. a2.held = [a1.held EXCEPT ![c] = a1.held[c] - q] /\ a1.held \in [Tokens -> Nat]
    BY <1>18, <1>19 DEF SentOut, Inv, SetTokenState
  <2>4. a2.held[c] = a1.held[c] - q /\ \A d \in Tokens \ {c} : a2.held[d] = a1.held[d]
    BY <2>3
  <2>5. a3.held = [a2.held EXCEPT ![c] = a2.held[c] - r] /\ a2.held \in [Tokens -> Nat]
    BY <1>19, <1>20 DEF SentOut, Inv, SetTokenState
  <2>6. a3.held[c] = a2.held[c] - r /\ \A d \in Tokens \ {c} : a3.held[d] = a2.held[d]
    BY <2>5
  <2>. QED  BY <2>2, <2>4, <2>6
<1>24. /\ Inv(t) /\ t.totalSupply = n2 /\ t.moduleStates = s.moduleStates /\ t.positionMultiplier = M
       /\ t.held = a3.held
       /\ \A d \in Tokens \ {c} : t.virtualUnit[d] = s.virtualUnit[d]
       /\ t.virtualUnit[c] * t.positionMultiplier <= u * PreciseUnit
  BY <1>21, <1>22 DEF Repositioned
<1>25. \A d \in Tokens \ {c} : t.virtualUnit[d] = s.virtualUnit[d] /\ t.held[d] = s.held[d]
  BY <1>23, <1>24
<1>26. x * PreciseUnit <= t.held[c] * PreciseUnit + i
  <2>. DEFINE h == s.held[c]
              out == p + q + r
  <2>1. h \in Nat /\ PreciseUnit \in Nat /\ out \in Nat
    BY <1>0, <1>6, PreciseUnitAssumption
  <2>2. /\ existing * PreciseUnit <= h * PreciseUnit + i
        /\ t.held[c] = h - out /\ x = existing - out
    BY <1>6, <1>8, <1>23, <1>24, <2>1 DEF x
  <2>. HIDE DEF h, out
  <2>3. /\ (existing - out) * PreciseUnit = existing * PreciseUnit - out * PreciseUnit
        /\ (h - out) * PreciseUnit = h * PreciseUnit - out * PreciseUnit
        /\ existing * PreciseUnit \in Nat /\ out * PreciseUnit \in Nat /\ h * PreciseUnit \in Nat
    BY <1>8, <2>1
  <2>. QED  BY <2>2, <2>3
<1>27. t.positionMultiplier = getPositionMultiplier(s, n2)
  BY <1>24 DEF M
<1>. QED  BY <1>7, <1>14, <1>15, <1>24, <1>25, <1>26, <1>27, RepositionedCovered
-----------------------------------------------------------------------------
(* Issuing and redeeming for components, and the modules' life cycle. *)

\* issue of BasicIssuanceModule adds its quantity to the allowance.
LEMMA BasicIssueKeeps ==
    ASSUME NEW s, NEW i \in Nat, Inv(s), Covered(s, i), NEW q \in Nat, NEW t \in issue(s, q)
    PROVE  Kept(s, t, i + q)
<1>0. IssuanceModule \in Modules
  BY NavModulesAssumption
<1>1. /\ Inv(t) /\ t.totalSupply = s.totalSupply + q
      /\ t.virtualUnit = s.virtualUnit /\ t.positionMultiplier = s.positionMultiplier
      /\ t.moduleStates = s.moduleStates
      /\ \A c \in Tokens :
             t.held[c] = s.held[c] + IF c \in s.components
                                     THEN preciseMulCeil(getDefaultPositionRealUnit(s, c), q)
                                     ELSE 0
  BY <1>0, IssueEffect
<1>2. s.totalSupply \in Nat /\ s.held \in [Tokens -> Nat] /\ Listed(s)
  BY DEF Inv, SetTokenState
<1>3. ASSUME NEW c \in Tokens
      PROVE  t.virtualUnit[c] * t.positionMultiplier * t.totalSupply
                 <= PreciseUnit * (t.held[c] * PreciseUnit + (i + q))
  <2>. DEFINE v == s.virtualUnit[c]
              real == getDefaultPositionRealUnit(s, c)
              claim == v * s.positionMultiplier
              n == s.totalSupply
              h == s.held[c]
              paid == IF c \in s.components THEN preciseMulCeil(real, q) ELSE 0
  <2>1. /\ v \in Nat /\ real \in Nat /\ claim \in Nat /\ claim < (real + 1) * PreciseUnit
        /\ real * PreciseUnit <= claim
    BY RealUnitBrackets
  <2>2. n \in Nat /\ h \in Nat /\ t.held[c] = h + paid /\ t.totalSupply = n + q
    BY <1>1, <1>2
  <2>3. c \notin s.components => real = 0
    <3>1. c \notin s.components => v = 0
      BY <1>2 DEF Listed
    <3>2. v = 0 => claim = 0
      BY DEF Inv, SetTokenState
    <3>. HIDE DEF claim, real
    <3>. QED  BY <2>1, <3>1, <3>2, PreciseUnitAssumption
  <2>4. paid \in Nat /\ real * q <= paid * PreciseUnit
    <3>1. CASE c \in s.components
      BY <2>1, <3>1, PreciseMulCeilRoundsUp
    <3>2. CASE c \notin s.components
      BY <2>3, <3>2, PreciseUnitAssumption
    <3>. QED  BY <3>1, <3>2
  <2>5. claim * n <= PreciseUnit * (h * PreciseUnit + i)
    BY DEF Covered
  <2>6. t.virtualUnit[c] * t.positionMultiplier = claim
    BY <1>1
  <2>. HIDE DEF v, real, claim, n, h, paid
  <2>7. claim * (n + q) <= PreciseUnit * ((h + paid) * PreciseUnit + (i + q))
    BY <2>1, <2>2, <2>4, <2>5, IssueCovers
  <2>. QED  BY <2>2, <2>6, <2>7
<1>. QED  BY <1>1, <1>3 DEF Kept, Covered

\* redeem of BasicIssuanceModule takes no more than the claims it burns.
LEMMA BasicRedeemKeeps ==
    ASSUME NEW s, NEW i \in Nat, Inv(s), Covered(s, i), NEW q \in Nat, NEW t \in redeem(s, q)
    PROVE  Kept(s, t, i)
<1>. DEFINE redeemed == redeemedUnits(s, q)
<1>0. IssuanceModule \in Modules
  BY NavModulesAssumption
<1>1. /\ Inv(t) /\ q <= s.totalSupply /\ t.totalSupply = s.totalSupply - q
      /\ t.virtualUnit = s.virtualUnit /\ t.positionMultiplier = s.positionMultiplier
      /\ t.moduleStates = s.moduleStates
      /\ \A c \in Tokens :
             /\ redeemed[c] \in Nat /\ redeemed[c] <= s.held[c]
             /\ t.held[c] = s.held[c] - redeemed[c]
             /\ redeemed[c] * PreciseUnit <= q * getDefaultPositionRealUnit(s, c)
  BY <1>0, RedeemEffect
<1>2. s.totalSupply \in Nat /\ s.held \in [Tokens -> Nat]
  BY DEF Inv, SetTokenState
<1>. HIDE DEF redeemed
<1>3. ASSUME NEW c \in Tokens
      PROVE  t.virtualUnit[c] * t.positionMultiplier * t.totalSupply
                 <= PreciseUnit * (t.held[c] * PreciseUnit + i)
  <2>. DEFINE real == getDefaultPositionRealUnit(s, c)
              claim == s.virtualUnit[c] * s.positionMultiplier
              n == s.totalSupply
              h == s.held[c]
              paid == redeemed[c]
  <2>1. real \in Nat /\ claim \in Nat /\ real * PreciseUnit <= claim
    BY RealUnitBrackets
  <2>2. /\ n \in Nat /\ h \in Nat /\ q <= n /\ paid \in Nat /\ paid <= h
        /\ t.held[c] = h - paid /\ t.totalSupply = n - q
        /\ paid * PreciseUnit <= q * real
    BY <1>1, <1>2
  <2>3. claim * n <= PreciseUnit * (h * PreciseUnit + i)
    BY DEF Covered
  <2>4. t.virtualUnit[c] * t.positionMultiplier = claim
    BY <1>1
  <2>. HIDE DEF real, claim, n, h, paid
  <2>5. claim * (n - q) <= PreciseUnit * ((h - paid) * PreciseUnit + i)
    BY <2>1, <2>2, <2>3, RedeemCovers
  <2>. QED  BY <2>2, <2>4, <2>5
<1>. QED  BY <1>1, <1>3 DEF Kept, Covered

\* A module's state is all that changes.
LEMMA LifecycleKeeps ==
    ASSUME NEW s, NEW i \in Nat, Inv(s), Covered(s, i), NEW caller \in Managers, NEW m \in Modules,
           NEW t \in initializeModule(s, m) \cup addModule(s, caller, m) \cup removeModule(s, caller, m)
    PROVE  /\ Inv(t) /\ Covered(t, i)
           /\ \A k \in Modules \ {m} : t.moduleStates[k] = s.moduleStates[k]
           /\ t \in initializeModule(s, m) =>
                  s.moduleStates[m] = "PENDING" /\ t.moduleStates[m] = "INITIALIZED"
           /\ t \in addModule(s, caller, m) =>
                  s.moduleStates[m] = "NONE"
<1>1. Inv(t)
  BY LifecycleInv
<1>2. s \in SetTokenState
  BY DEF Inv
<1>3. PICK state : t = [s EXCEPT !.moduleStates = [s.moduleStates EXCEPT ![m] = state]]
  BY DEF initializeModule, addModule, removeModule, Require
<1>4. /\ t.virtualUnit = s.virtualUnit /\ t.positionMultiplier = s.positionMultiplier
      /\ t.totalSupply = s.totalSupply /\ t.held = s.held
      /\ t.moduleStates = [s.moduleStates EXCEPT ![m] = state]
      /\ s.moduleStates \in [Modules -> ModuleState]
  BY <1>2, <1>3 DEF SetTokenState
<1>5. Covered(t, i)
  BY <1>4 DEF Covered
<1>6. \A k \in Modules \ {m} : t.moduleStates[k] = s.moduleStates[k]
  BY <1>4
<1>7. ASSUME t \in initializeModule(s, m)
      PROVE  s.moduleStates[m] = "PENDING" /\ t.moduleStates[m] = "INITIALIZED"
  <2>1. s.moduleStates[m] = "PENDING" /\ t = [s EXCEPT !.moduleStates[m] = "INITIALIZED"]
    BY <1>7 DEF initializeModule, Require
  <2>. QED  BY <1>2, <2>1 DEF SetTokenState
<1>8. t \in addModule(s, caller, m) => s.moduleStates[m] = "NONE"
  BY DEF addModule, Require
<1>. QED  BY <1>1, <1>5, <1>6, <1>7, <1>8
-----------------------------------------------------------------------------
(* The inductive invariant. *)

\* ShortfallBounded alone says nothing of the signs and of the readability of
\* the units that the next transaction computes with; ReserveAssetsIndexed
\* alone nothing of the percentages that bound what a redemption pays.
NInv ==
    /\ Inv(set) /\ Covered(set, issued) /\ NavSound(nav)
    /\ set.moduleStates[NavModule] # "INITIALIZED" => nav = noNavSettings
    /\ prices \in [Tokens -> Nat \ {0}]
    /\ issued \in Nat /\ flows \in Nat

\* A set as it is created, before the module is initialized.
LEMMA NavInit == Init => NInv
<1>. SUFFICES ASSUME Init PROVE NInv
  OBVIOUS
<1>1. PICK units \in InitialUnits, manager \in Managers \ {ZeroAddress} :
          set = newSetToken(units, Modules, manager)
  BY DEF Init
<1>2. /\ DOMAIN units \subseteq Tokens /\ \A c \in DOMAIN units : units[c] \in Nat \ {0}
      /\ manager \in Managers /\ Modules \in SUBSET Modules
  BY NavInputsAssumption
<1>3. Inv(set)
  BY <1>1, <1>2, NewSetTokenInv
<1>4. set.totalSupply = 0 /\ set.held = [c \in Tokens |-> 0]
  BY <1>1 DEF newSetToken
<1>5. issued = 0 /\ flows = 0 /\ nav = noNavSettings /\ prices \in Prices
  BY DEF Init
<1>6. Covered(set, issued)
  <2>. SUFFICES ASSUME NEW c \in Tokens
                PROVE  set.virtualUnit[c] * set.positionMultiplier * set.totalSupply
                           <= PreciseUnit * (set.held[c] * PreciseUnit + issued)
    BY DEF Covered
  <2>1. set.virtualUnit[c] * set.positionMultiplier \in Nat
    BY <1>3, RealUnitBrackets
  <2>2. set.held[c] = 0
    BY <1>4
  <2>. DEFINE claim == set.virtualUnit[c] * set.positionMultiplier
  <2>. HIDE DEF claim
  <2>3. claim * 0 = 0 /\ PreciseUnit * (0 * PreciseUnit + 0) = 0
    BY <2>1, PreciseUnitAssumption DEF claim
  <2>. QED  BY <1>4, <1>5, <2>2, <2>3 DEF claim
<1>. QED  BY <1>3, <1>5, <1>6, NoSettingsSound, NavInputsAssumption DEF NInv

\* Each of the holders' four transactions preserves the invariant.
LEMMA HolderStep == NInv /\ HolderNext => NInv'
<1>. SUFFICES ASSUME NInv, HolderNext PROVE NInv'
  OBVIOUS
<1>0. /\ Inv(set) /\ Covered(set, issued) /\ NavSound(nav) /\ issued \in Nat /\ flows \in Nat
      /\ IssueQuantities \subseteq Nat /\ RedeemQuantities \subseteq Nat
      /\ ReserveQuantities \subseteq Nat /\ SetQuantities \subseteq Nat
  BY NavInputsAssumption DEF NInv
<1>1. ASSUME NEW q \in IssueQuantities, BasicIssue(q) PROVE NInv'
  <2>1. /\ set' \in issue(set, q) /\ issued' = issued + q /\ UNCHANGED <<nav, prices, flows>>
        /\ q \in Nat
    BY <1>0, <1>1 DEF BasicIssue
  <2>2. Kept(set, set', issued + q)
    BY <1>0, <2>1, BasicIssueKeeps
  <2>3. issued' \in Nat
    BY <1>0, <2>1
  <2>. QED  BY <2>1, <2>2, <2>3 DEF NInv, Kept
<1>2. ASSUME NEW q \in RedeemQuantities, BasicRedeem(q) PROVE NInv'
  <2>1. /\ set' \in redeem(set, q) /\ UNCHANGED <<nav, prices, issued, flows>> /\ q \in Nat
    BY <1>0, <1>2 DEF BasicRedeem
  <2>2. Kept(set, set', issued)
    BY <1>0, <2>1, BasicRedeemKeeps
  <2>. QED  BY <2>1, <2>2 DEF NInv, Kept
<1>3. ASSUME NEW c \in Tokens, NEW q \in ReserveQuantities, NEW minReceive \in MinReceives,
             IssueForReserve(c, q, minReceive)
      PROVE  NInv'
  <2>1. /\ set' \in issueForReserve(set, nav, prices, c, q, minReceive) /\ q \in Nat
        /\ flows' = flows + 1 /\ UNCHANGED <<nav, prices, issued>>
    BY <1>0, <1>3 DEF IssueForReserve
  <2>2. Kept(set, set', issued)
    BY <1>0, <2>1, IssueForReserveKeeps
  <2>3. flows' \in Nat
    BY <1>0, <2>1
  <2>. QED  BY <2>1, <2>2, <2>3 DEF NInv, Kept
<1>4. ASSUME NEW c \in Tokens, NEW q \in SetQuantities, NEW minReceive \in MinReceives,
             RedeemForReserve(c, q, minReceive)
      PROVE  NInv'
  <2>1. /\ set' \in redeemForReserve(set, nav, prices, c, q, minReceive) /\ q \in Nat
        /\ flows' = flows + 1 /\ UNCHANGED <<nav, prices, issued>>
    BY <1>0, <1>4 DEF RedeemForReserve
  <2>2. Kept(set, set', issued)
    BY <1>0, <2>1, RedeemForReserveKeeps
  <2>3. flows' \in Nat
    BY <1>0, <2>1
  <2>. QED  BY <2>1, <2>2, <2>3 DEF NInv, Kept
<1>. QED  BY <1>1, <1>2, <1>3, <1>4 DEF HolderNext

\* A change of settings: only an initialized module accepts it.
LEMMA SettingsStep ==
    ASSUME NInv, NavSound(nav'), UNCHANGED <<set, prices, issued, flows>>,
           NEW caller, onlyManagerAndValidSet(set, NavModule, caller)
    PROVE  NInv'
<1>1. set.moduleStates[NavModule] = "INITIALIZED"
  BY DEF onlyManagerAndValidSet, validAndInitializedSet
<1>. QED  BY <1>1 DEF NInv

\* Each of the manager's transactions preserves it.
LEMMA ManagerStep ==
    ASSUME NInv, NEW caller \in Managers, ManagerNext(caller)
    PROVE  NInv'
<1>0. /\ Inv(set) /\ Covered(set, issued) /\ NavSound(nav) /\ issued \in Nat
      /\ NavModule \in Modules /\ IssuanceModule \in Modules /\ IssuanceModule # NavModule
      /\ NewPremiums \subseteq Nat /\ NewFees \subseteq Nat
  BY NavModulesAssumption, NavInputsAssumption DEF NInv
<1>1. ASSUME NEW c \in Tokens, AddReserveAsset(caller, c) PROVE NInv'
  <2>1. nav' \in addReserveAsset(set, nav, caller, c) /\ UNCHANGED <<set, prices, issued, flows>>
    BY <1>1 DEF AddReserveAsset
  <2>2. NavSound(nav')
    BY <1>0, <2>1, AddReserveAssetSound
  <2>3. onlyManagerAndValidSet(set, NavModule, caller)
    BY <2>1 DEF addReserveAsset, Require
  <2>. QED  BY <2>1, <2>2, <2>3, SettingsStep
<1>2. ASSUME NEW c \in Tokens, RemoveReserveAsset(caller, c) PROVE NInv'
  <2>1. nav' \in removeReserveAsset(set, nav, caller, c) /\ UNCHANGED <<set, prices, issued, flows>>
    BY <1>2 DEF RemoveReserveAsset
  <2>2. NavSound(nav')
    BY <1>0, <2>1, RemoveReserveAssetSound
  <2>3. onlyManagerAndValidSet(set, NavModule, caller)
    BY <2>1 DEF removeReserveAsset
  <2>. QED  BY <2>1, <2>2, <2>3, SettingsStep
<1>3. ASSUME NEW premium \in NewPremiums, EditPremium(caller, premium) PROVE NInv'
  <2>1. /\ nav' \in editPremium(set, nav, caller, premium) /\ premium \in Nat
        /\ UNCHANGED <<set, prices, issued, flows>>
    BY <1>0, <1>3 DEF EditPremium
  <2>2. NavSound(nav')
    BY <1>0, <2>1, EditSettingsSound
  <2>3. onlyManagerAndValidSet(set, NavModule, caller)
    BY <2>1 DEF editPremium, Require
  <2>. QED  BY <2>1, <2>2, <2>3, SettingsStep
<1>4. ASSUME NEW fee \in NewFees, NEW side \in {"issue", "redeem"},
             EditManagerFee(caller, fee, side)
      PROVE  NInv'
  <2>1. /\ nav' \in editManagerFee(set, nav, caller, fee, side) /\ fee \in Nat
        /\ UNCHANGED <<set, prices, issued, flows>>
    BY <1>0, <1>4 DEF EditManagerFee
  <2>2. NavSound(nav')
    BY <1>0, <2>1, EditSettingsSound
  <2>3. onlyManagerAndValidSet(set, NavModule, caller)
    BY <2>1 DEF editManagerFee, Require
  <2>. QED  BY <2>1, <2>2, <2>3, SettingsStep
<1>5. ASSUME NEW recipient \in NavRecipients, EditFeeRecipient(caller, recipient) PROVE NInv'
  <2>1. /\ nav' \in editNavFeeRecipient(set, nav, caller, recipient)
        /\ UNCHANGED <<set, prices, issued, flows>>
    BY <1>5 DEF EditFeeRecipient
  <2>2. NavSound(nav')
    BY <1>0, <2>1, EditSettingsSound
  <2>3. onlyManagerAndValidSet(set, NavModule, caller)
    BY <2>1 DEF editNavFeeRecipient, Require
  <2>. QED  BY <2>1, <2>2, <2>3, SettingsStep
<1>6. ASSUME InitializeIssuance(caller) PROVE NInv'
  <2>1. set' \in initializeModule(set, IssuanceModule) /\ UNCHANGED <<nav, prices, issued, flows>>
    BY <1>6 DEF InitializeIssuance, initializeIssuance
  <2>2. /\ Inv(set') /\ Covered(set', issued)
        /\ set'.moduleStates[NavModule] = set.moduleStates[NavModule]
    BY <1>0, <2>1, LifecycleKeeps
  <2>. QED  BY <2>1, <2>2 DEF NInv
<1>7. ASSUME NEW settings \in NavSettings, InitializeNav(caller, settings) PROVE NInv'
  <2>1. PICK r \in initializeNav(set, nav, caller, settings) : set' = r.set /\ nav' = r.nav
    BY <1>7 DEF InitializeNav
  <2>2. UNCHANGED <<prices, issued, flows>>
    BY <1>7 DEF InitializeNav
  <2>3. set.moduleStates[NavModule] = "PENDING"
    BY <2>1 DEF initializeNav, validAndPendingSet
  <2>4. nav = noNavSettings
    BY <2>3 DEF NInv
  <2>5. NavSound(nav') /\ set' \in initializeModule(set, NavModule)
    BY <2>1, <2>4, InitializeNavSound
  <2>6. Inv(set') /\ Covered(set', issued) /\ set'.moduleStates[NavModule] = "INITIALIZED"
    BY <1>0, <2>5, LifecycleKeeps
  <2>. QED  BY <2>2, <2>5, <2>6 DEF NInv
<1>8. ASSUME NEW m \in Modules, AddModule(caller, m) PROVE NInv'
  <2>1. set' \in addModule(set, caller, m) /\ UNCHANGED <<nav, prices, issued, flows>>
    BY <1>8 DEF AddModule
  <2>2. /\ Inv(set') /\ Covered(set', issued) /\ set.moduleStates[m] = "NONE"
        /\ \A k \in Modules \ {m} : set'.moduleStates[k] = set.moduleStates[k]
    BY <1>0, <2>1, LifecycleKeeps
  <2>. QED  BY <1>0, <2>1, <2>2 DEF NInv
<1>9. ASSUME NEW m \in Modules, RemoveModule(caller, m) PROVE NInv'
  <2>1. /\ set' \in removeModule(set, caller, m) /\ nav' = removeNav(nav)
        /\ UNCHANGED <<prices, issued, flows>>
    BY <1>9 DEF RemoveModule
  <2>2. Inv(set') /\ Covered(set', issued)
    BY <1>0, <2>1, LifecycleKeeps
  <2>3. nav' = noNavSettings
    BY <1>0, <2>1, RemoveNavClears
  <2>. QED  BY <2>1, <2>2, <2>3, NoSettingsSound DEF NInv
<1>. QED  BY <1>1, <1>2, <1>3, <1>4, <1>5, <1>6, <1>7, <1>8, <1>9 DEF ManagerNext

\* Every step preserves it.
LEMMA NavStep == NInv /\ [Next]_vars => NInv'
<1>. SUFFICES ASSUME NInv, [Next]_vars PROVE NInv'
  OBVIOUS
<1>1. CASE HolderNext
  BY <1>1, HolderStep
<1>2. ASSUME NEW caller \in Managers \ {ZeroAddress}, ManagerNext(caller) PROVE NInv'
  BY <1>2, ManagerStep
<1>3. CASE UpdatePrices
  BY <1>3, NavInputsAssumption DEF UpdatePrices, NInv
<1>4. CASE UNCHANGED vars
  BY <1>4 DEF vars, NInv
<1>. QED  BY <1>1, <1>2, <1>3, <1>4 DEF Next

\* Issuing and redeeming for components and at net asset value, in any order,
\* with the manager changing the settings and the oracle the prices in between,
\* keeps the set consistent, its claims covered and the settings in step.
THEOREM NavInvariant == Spec => []NInv
BY NavInit, NavStep, PTL DEF Spec

\* Every state of the set and of the module has the contracts' types.
THEOREM NavTypeCorrect == Spec => []TypeOK
<1>1. NInv => TypeOK
  BY DEF NInv, TypeOK, Inv, NavSound
<1>. QED  BY <1>1, NavInvariant, PTL

\* The roundings of issueForReserve and redeemForReserve never add a claim: the
\* shortfall stays within one unit for every set issued for components.
THEOREM NavShortfallBounded == Spec => []ShortfallBounded
<1>1. NInv => ShortfallBounded
  BY DEF NInv, Covered, ShortfallBounded
<1>. QED  BY <1>1, NavInvariant, PTL

\* The array and the mapping of reserve assets always agree, and a removed
\* module leaves nothing behind.
THEOREM ReserveAssetsAlwaysIndexed == Spec => []ReserveAssetsIndexed
<1>1. NInv => ReserveAssetsIndexed
  BY DEF NInv, NavSound, ReserveAssetsIndexed
<1>. QED  BY <1>1, NavInvariant, PTL
-----------------------------------------------------------------------------
(* The tests' formulas.  U stands for PreciseUnit, B for a base unit, p for   *)
(* a premium and f for the fees of manager and protocol together.            *)

\* A positive factor cancels.
LEMMA CancelFactor ==
    ASSUME NEW x \in Int, NEW y \in Int, NEW k \in Nat \ {0}, x * k < y * k
    PROVE  x < y
<1>1. SUFFICES ASSUME y <= x PROVE FALSE
  OBVIOUS
<1>2. x * k = y * k + (x - y) * k
  OBVIOUS
<1>3. x - y \in Nat /\ (x - y) * k \in Nat /\ x * k \in Int /\ y * k \in Int
  BY <1>1
<1>. QED  BY <1>2, <1>3

\* Factors below their bounds.
LEMMA ProductBelow ==
    ASSUME NEW x \in Nat, NEW y \in Nat, NEW a \in Nat, NEW b \in Nat, x <= a, y <= b
    PROVE  x * y \in Nat /\ a * b \in Nat /\ x * y <= a * b
<1>1. x * y \in Nat /\ x * y <= a * y /\ a * y \in Nat
  BY ProductGrows
<1>2. y * a \in Nat /\ b * a \in Nat /\ y * a <= b * a
  BY ProductGrows
<1>3. y * a = a * y /\ b * a = a * b
  OBVIOUS
<1>. QED  BY <1>1, <1>2, <1>3

\* The div of BigNumber drops the fraction, of whatever sign.
LEMMA BigNumberDiv ==
    ASSUME NEW a \in Nat, NEW b \in Nat \ {0}
    PROVE  /\ Ref!quotient(a, b) = a \div b
           /\ Ref!quotient(-a, b) = -(a \div b)
<1>1. Ref!quotient(a, b) = a \div b
  BY DEF Ref!quotient
<1>2. CASE a = 0
  <2>1. -a = a
    <3>1. -a <= a /\ a <= -a /\ -a \in Int
      BY <1>2
    <3>. QED  BY <3>1
  <2>2. a \div b \in Nat /\ (a \div b) * b <= 0
    BY <1>2, DivisionBrackets
  <2>3. a \div b < 1
    BY <2>2, CancelFactor
  <2>. QED  BY <1>1, <2>1, <2>2, <2>3
<1>3. CASE a > 0
  <2>1. -a < 0 /\ ~(b < 0) /\ -(-a) = a
    BY <1>3
  <2>. QED  BY <1>1, <2>1 DEF Ref!quotient
<1>. QED  BY <1>1, <1>2, <1>3

\* On natural numbers mathUtils.ts and PreciseUnitMath.sol compute the same.
LEMMA SameArithmetic ==
    ASSUME NEW a \in Nat, NEW b \in Nat
    PROVE  /\ Ref!preciseMul(a, b) = preciseMul(a, b)
           /\ Ref!preciseMulCeil(a, b) = preciseMulCeil(a, b)
           /\ b # 0 => Ref!preciseDiv(a, b) = preciseDiv(a, b)
           /\ b # 0 => Ref!preciseDivCeil(a, b) = preciseDivCeil(a, b)
<1>0. PreciseUnit \in Nat \ {0}
  BY PreciseUnitAssumption
<1>1. a * b \in Nat /\ a * PreciseUnit \in Nat
  BY <1>0
<1>2. Ref!preciseMul(a, b) = preciseMul(a, b)
  BY <1>0, <1>1, BigNumberDiv DEF Ref!preciseMul, preciseMul
<1>3. b # 0 => Ref!preciseDiv(a, b) = preciseDiv(a, b)
  BY <1>1, BigNumberDiv DEF Ref!preciseDiv, preciseDiv
<1>4. Ref!preciseMulCeil(a, b) = preciseMulCeil(a, b)
  <2>1. a # 0 /\ b # 0 => a * b - 1 \in Nat
    OBVIOUS
  <2>. QED  BY <1>0, <2>1, BigNumberDiv DEF Ref!preciseMulCeil, preciseMulCeil
<1>5. b # 0 => Ref!preciseDivCeil(a, b) = preciseDivCeil(a, b)
  <2>1. a # 0 => a * PreciseUnit - 1 \in Nat
    BY <1>0
  <2>. QED  BY <2>1, BigNumberDiv DEF Ref!preciseDivCeil, preciseDivCeil
<1>. QED  BY <1>2, <1>3, <1>4, <1>5

\* Two products rounded down apart, and two others of the same sum.
LEMMA SplitRoundings ==
    ASSUME NEW U \in Nat \ {0},
           NEW x1 \in Nat, NEW x2 \in Nat, NEW y1 \in Nat, NEW y2 \in Nat, x1 + x2 = y1 + y2,
           NEW a1 \in Nat, a1 * U <= x1, x1 < (a1 + 1) * U,
           NEW a2 \in Nat, a2 * U <= x2, x2 < (a2 + 1) * U,
           NEW b1 \in Nat, b1 * U <= y1, y1 < (b1 + 1) * U,
           NEW b2 \in Nat, b2 * U <= y2, y2 < (b2 + 1) * U
    PROVE  /\ (a1 + a2) - (b1 + b2) <= 1
           /\ (b1 + b2) - (a1 + a2) <= 1
<1>1. /\ (a1 + 1) * U = a1 * U + U /\ (a2 + 1) * U = a2 * U + U
      /\ (b1 + 1) * U = b1 * U + U /\ (b2 + 1) * U = b2 * U + U
      /\ (a1 + a2) * U = a1 * U + a2 * U /\ (b1 + b2) * U = b1 * U + b2 * U
      /\ (a1 + a2 + 2) * U = a1 * U + a2 * U + 2 * U
      /\ (b1 + b2 + 2) * U = b1 * U + b2 * U + 2 * U
      /\ a1 * U \in Nat /\ a2 * U \in Nat /\ b1 * U \in Nat /\ b2 * U \in Nat
  OBVIOUS
<1>2. (a1 + a2) * U < (b1 + b2 + 2) * U /\ (b1 + b2) * U < (a1 + a2 + 2) * U
  BY <1>1
<1>3. a1 + a2 < b1 + b2 + 2 /\ b1 + b2 < a1 + a2 + 2
  BY <1>2, CancelFactor
<1>. QED  BY <1>3

\* A multiplier M spread from a supply S over a supply N, in one division (new) and through a
\* rounded ratio k (expected); c is M in whole units.
LEMMA MultiplierRoundings ==
    ASSUME NEW U \in Nat \ {0}, NEW S \in Nat, NEW N \in Nat \ {0}, NEW M \in Nat,
           NEW k \in Nat, k * N <= S * U, S * U < (k + 1) * N,
           NEW expected \in Nat, expected * U <= M * k, M * k < (expected + 1) * U,
           NEW new \in Nat, new * N <= M * S, M * S < (new + 1) * N,
           NEW c \in Nat, M <= c * U
    PROVE  expected <= new /\ new <= expected + c
<1>1. expected < new + 1
  <2>1. (expected * U) * N <= (M * k) * N
    BY ProductGrows
  <2>2. (k * N) * M <= (S * U) * M
    BY ProductGrows
  <2>3. (M * S) * U < ((new + 1) * N) * U
    <3>1. M * S + 1 <= (new + 1) * N /\ M * S + 1 \in Nat /\ (new + 1) * N \in Nat
      OBVIOUS
    <3>2. (M * S + 1) * U <= ((new + 1) * N) * U
      BY <3>1, ProductGrows
    <3>3. (M * S + 1) * U = (M * S) * U + U /\ (M * S) * U \in Nat /\ ((new + 1) * N) * U \in Nat
      OBVIOUS
    <3>. QED  BY <3>2, <3>3
  <2>4. /\ (M * k) * N = (k * N) * M /\ (S * U) * M = (M * S) * U
        /\ (expected * U) * N = expected * (U * N)
        /\ ((new + 1) * N) * U = (new + 1) * (U * N) /\ U * N \in Nat \ {0}
    OBVIOUS
  <2>5. expected * (U * N) < (new + 1) * (U * N)
    BY <2>1, <2>2, <2>3, <2>4
  <2>. QED  BY <2>4, <2>5, CancelFactor
<1>2. new < expected + 1 + c
  <2>1. (new * N) * U <= (M * S) * U
    BY ProductGrows
  <2>2. (S * U) * M <= ((k + 1) * N) * M
    BY ProductGrows
  <2>3. (M * S) * U = (S * U) * M /\ (new * N) * U = (new * U) * N
        /\ ((k + 1) * N) * M = (M * k + M) * N
    OBVIOUS
  <2>4. M * k + M < (expected + 1 + c) * U
    <3>1. (expected + 1 + c) * U = (expected + 1) * U + c * U
      OBVIOUS
    <3>. QED  BY <3>1
  <2>5. new * U <= M * k + M
    <3>1. SUFFICES ASSUME M * k + M < new * U PROVE FALSE
      OBVIOUS
    <3>2. M * k + M + 1 <= new * U /\ M * k + M + 1 \in Nat /\ new * U \in Nat
      BY <3>1
    <3>3. (M * k + M + 1) * N <= (new * U) * N
      BY <3>2, ProductGrows
    <3>4. (M * k + M + 1) * N = (M * k + M) * N + N /\ (M * k + M) * N \in Nat
      OBVIOUS
    <3>. QED  BY <2>1, <2>2, <2>3, <3>3, <3>4
  <2>6. new * U < (expected + 1 + c) * U
    BY <2>4, <2>5
  <2>. QED  BY <2>6, CancelFactor
<1>. QED  BY <1>1, <1>2

\* A quantity A spread over a supply N, and one that is larger or smaller by one: the units
\* differ by no more than d, one spread over N and rounded up.
LEMMA SpreadRoundings ==
    ASSUME NEW U \in Nat \ {0}, NEW N \in Nat \ {0}, NEW d \in Nat, U <= d * N,
           NEW A \in Nat, NEW A2 \in Int, A2 - A <= 1, A - A2 <= 1
    PROVE  LET x == (A * U) \div N
               y == Ref!quotient(A2 * U, N)
           IN  y \in Int /\ y - x <= d /\ x - y <= d
<1>. DEFINE x == (A * U) \div N
            y == Ref!quotient(A2 * U, N)
<1>0. A * U \in Nat
  OBVIOUS
<1>1. x \in Nat /\ x * N <= A * U /\ A * U < (x + 1) * N
  BY <1>0, DivisionBrackets
<1>2. CASE A2 >= 0
  <2>0. A2 * U \in Nat
    BY <1>2
  <2>1. y = (A2 * U) \div N
    BY <2>0, BigNumberDiv
  <2>2. y \in Nat /\ y * N <= A2 * U /\ A2 * U < (y + 1) * N
    BY <2>0, <2>1, DivisionBrackets
  <2>. HIDE DEF x, y
  <2>3. A2 * U <= A * U + U /\ A * U <= A2 * U + U
    <3>1. A2 * U <= (A + 1) * U /\ A * U <= (A2 + 1) * U
      BY <1>2, ProductGrows
    <3>2. (A + 1) * U = A * U + U /\ (A2 + 1) * U = A2 * U + U
      OBVIOUS
    <3>. QED  BY <3>1, <3>2
  <2>4. /\ (x + 1 + d) * N = (x + 1) * N + d * N /\ (y + 1 + d) * N = (y + 1) * N + d * N
        /\ x * N \in Nat /\ y * N \in Nat /\ d * N \in Nat
        /\ (x + 1) * N \in Nat /\ (y + 1) * N \in Nat
    BY <1>1, <2>2
  <2>5. y * N < (x + 1 + d) * N /\ x * N < (y + 1 + d) * N
    BY <1>0, <1>1, <2>0, <2>2, <2>3, <2>4
  <2>6. y < x + 1 + d /\ x < y + 1 + d
    BY <1>1, <2>2, <2>5, CancelFactor
  <2>. QED  BY <1>1, <2>2, <2>6 DEF x, y
<1>3. CASE A2 < 0
  <2>1. A = 0 /\ A2 = -1
    BY <1>3
  <2>2. A * U = 0 /\ A2 * U = -U
    BY <2>1
  <2>3. y = -(U \div N)
    BY <2>2, BigNumberDiv
  <2>. DEFINE z == U \div N
  <2>4. z \in Nat /\ z * N <= U
    BY DivisionBrackets
  <2>. HIDE DEF x, y, z
  <2>5. x * N < 1 * N
    BY <1>1, <2>2
  <2>6. x < 1
    BY <1>1, <2>5, CancelFactor
  <2>7. z * N < (d + 1) * N
    <3>1. (d + 1) * N = d * N + N /\ d * N \in Nat /\ z * N \in Nat
      BY <2>4
    <3>. QED  BY <2>4, <3>1
  <2>8. z < d + 1
    BY <2>4, <2>7, CancelFactor
  <2>. QED  BY <1>1, <2>3, <2>4, <2>6, <2>8 DEF x, y, z
<1>. QED  BY <1>2, <1>3

\* A natural number through a multiplier and back loses no more than e, one unit over the
\* multiplier and rounded up.
LEMMA ThereAndBack ==
    ASSUME NEW U \in Nat \ {0}, NEW M \in Nat \ {0}, NEW e \in Nat, U <= e * M, NEW u \in Nat
    PROVE  LET there == (u * M) \div U
               back == (there * U) \div M
           IN  there \in Nat /\ back \in Nat /\ back <= u /\ u <= back + e
<1>. DEFINE there == (u * M) \div U
            back == (there * U) \div M
<1>1. u * M \in Nat
  OBVIOUS
<1>2. there \in Nat /\ there * U <= u * M /\ u * M < (there + 1) * U
  BY <1>1, DivisionBrackets
<1>. HIDE DEF there
<1>3. there * U \in Nat /\ (there + 1) * U = there * U + U
  BY <1>2
<1>4. back \in Nat /\ back * M <= there * U /\ there * U < (back + 1) * M
  BY <1>3, DivisionBrackets
<1>. HIDE DEF back
<1>5. back * M < (u + 1) * M /\ u * M < (back + 1 + e) * M
  <2>1. /\ (u + 1) * M = u * M + M /\ (back + 1 + e) * M = (back + 1) * M + e * M
        /\ back * M \in Nat /\ e * M \in Nat /\ (back + 1) * M \in Nat
    BY <1>4
  <2>. QED  BY <1>1, <1>2, <1>3, <1>4, <2>1
<1>6. back < u + 1 /\ u < back + 1 + e
  BY <1>4, <1>5, CancelFactor
<1>. QED  BY <1>2, <1>4, <1>6 DEF there, back

\* roundDownPositionUnit, for a unit of either sign.
LEMMA RoundDownNear ==
    ASSUME NEW M \in Nat \ {0}, NEW e \in Nat, PreciseUnit <= e * M, NEW u \in Int
    PROVE  LET r == Ref!roundDownPositionUnit(u, M)
           IN  r \in Int /\ u - r <= e /\ r - u <= e
<1>. DEFINE U == PreciseUnit
            r == Ref!roundDownPositionUnit(u, M)
<1>0. U \in Nat \ {0}
  BY PreciseUnitAssumption
<1>1. r = Ref!quotient(Ref!quotient(u * M, U) * U, M)
  BY DEF Ref!roundDownPositionUnit, Ref!preciseMul, Ref!preciseDiv
<1>2. CASE u >= 0
  <2>. DEFINE there == (u * M) \div U
              back == (there * U) \div M
  <2>1. there \in Nat /\ back \in Nat /\ back <= u /\ u <= back + e
    BY <1>0, <1>2, ThereAndBack
  <2>2. u * M \in Nat /\ there * U \in Nat
    BY <1>0, <1>2, <2>1
  <2>3. r = back
    BY <1>0, <1>1, <2>2, BigNumberDiv
  <2>. QED  BY <2>1, <2>3
<1>3. CASE u < 0
  <2>. DEFINE w == -u
              there == (w * M) \div U
              back == (there * U) \div M
  <2>0. w \in Nat
    BY <1>3
  <2>1. there \in Nat /\ back \in Nat /\ back <= w /\ w <= back + e
    BY <1>0, <2>0, ThereAndBack
  <2>2. w * M \in Nat /\ there * U \in Nat /\ u * M = -(w * M) /\ (-there) * U = -(there * U)
    BY <1>0, <2>0, <2>1
  <2>. HIDE DEF there
  <2>3. Ref!quotient(u * M, U) = -there
    BY <1>0, <2>2, BigNumberDiv DEF there
  <2>4. r = -back
    BY <1>1, <2>2, <2>3, BigNumberDiv
  <2>. HIDE DEF back, r
  <2>. QED  BY <2>0, <2>1, <2>4 DEF r
<1>. QED  BY <1>2, <1>3

\* A value v less a premium p, brought to the reserve's decimals last (value2 * B) and first
\* (paid * U): the two are apart by less than two units one way and one unit the other.
LEMMA PremiumRoundings ==
    ASSUME NEW U \in Nat \ {0}, NEW B \in Nat, B <= U, NEW p \in Nat, p <= U, NEW v \in Nat,
           NEW w \in Nat, w * U <= v * B, v * B < (w + 1) * U,
           NEW C \in Nat, v * p <= C * U, C * U < v * p + U,
           NEW E \in Nat, w * p <= E * U, E * U < w * p + U
    PROVE  LET z == (v - C) * B - (w - E) * U
           IN  z \in Int /\ -U < z /\ z < 2 * U
<1>. DEFINE z == (v - C) * B - (w - E) * U
            rho == v * B - w * U
            c == C * U - v * p
            e == E * U - w * p
<1>1. rho \in Nat /\ rho <= U - 1 /\ c \in Nat /\ c <= U - 1 /\ e \in Nat /\ e <= U - 1
  <2>1. (w + 1) * U = w * U + U /\ w * U \in Nat /\ v * B \in Nat
    OBVIOUS
  <2>2. C * U \in Nat /\ v * p \in Nat /\ E * U \in Nat /\ w * p \in Nat
    OBVIOUS
  <2>. QED  BY <2>1, <2>2
<1>2. z * U = rho * (U - p) + e * U - c * B
  OBVIOUS
<1>3. z \in Int
  OBVIOUS
<1>. HIDE DEF z, rho, c, e
<1>4. /\ rho * (U - p) \in Nat /\ rho * (U - p) <= (U - 1) * U
      /\ e * U \in Nat /\ e * U <= (U - 1) * U
      /\ c * B \in Nat /\ c * B <= (U - 1) * U
  <2>1. U - 1 \in Nat /\ U - p \in Nat /\ U - p <= U
    OBVIOUS
  <2>. QED  BY <1>1, <2>1, ProductBelow
<1>5. /\ (U - 1) * U = U * U - U /\ (2 * U) * U = 2 * (U * U) /\ (-U) * U = -(U * U)
      /\ U * U \in Nat /\ z * U \in Int
  BY <1>3
<1>6. (-U) * U < z * U /\ z * U < (2 * U) * U
  BY <1>2, <1>4, <1>5
<1>7. -U < z /\ z < 2 * U
  BY <1>3, <1>6, CancelFactor
<1>. QED  BY <1>3, <1>7 DEF z

\* The reserve that leaves the set: rounded down once more on one side, it is apart by one.
LEMMA ReserveNear ==
    ASSUME NEW U \in Nat \ {0}, NEW a \in Nat, NEW paid \in Int,
           -U < a - paid * U, a - paid * U < 2 * U,
           NEW x \in Nat, x * U <= a, a < (x + 1) * U
    PROVE  x - paid <= 1 /\ paid - x <= 1
<1>1. /\ (x + 1) * U = x * U + U /\ (x + 2) * U = x * U + 2 * U /\ (paid + 2) * U = paid * U + 2 * U
      /\ x * U \in Int /\ paid * U \in Int
  OBVIOUS
<1>2. x * U < (paid + 2) * U /\ paid * U < (x + 2) * U
  BY <1>1
<1>3. x < paid + 2 /\ paid < x + 2
  BY <1>2, CancelFactor
<1>. QED  BY <1>3

\* The same after fees f, which either side rounds down in two parts: value2 is left of the value
\* (and out of it in the reserve's decimals), net of what is paid.
LEMMA NetNear ==
    ASSUME NEW U \in Nat \ {0}, NEW B \in Nat, B <= U, NEW f \in Nat, f <= U,
           NEW value \in Nat, NEW paid \in Nat,
           -U < value * B - paid * U, value * B - paid * U < 2 * U,
           NEW value2 \in Int, NEW net \in Int, NEW out \in Nat,
           value * (U - f) <= value2 * U, value2 * U < value * (U - f) + 2 * U,
           paid * (U - f) <= net * U, net * U < paid * (U - f) + 2 * U,
           out * U <= value2 * B, value2 * B < (out + 1) * U
    PROVE  out - net <= 3 /\ net - out <= 3
<1>. DEFINE z == value * B - paid * U
            g == U - f
            a == value2 * U - value * g
            b == net * U - paid * g
            r == value2 * B - out * U
<1>1. z \in Int /\ -U < z /\ z < 2 * U /\ g \in Nat /\ g <= U
  OBVIOUS
<1>2. a \in Nat /\ a <= 2 * U - 1 /\ b \in Nat /\ b <= 2 * U - 1
  <2>1. value2 * U \in Int /\ value * g \in Int /\ net * U \in Int /\ paid * g \in Int
    OBVIOUS
  <2>. QED  BY <2>1
<1>3. r \in Nat /\ r <= U - 1
  <2>1. (out + 1) * U = out * U + U /\ out * U \in Int /\ value2 * B \in Int
    OBVIOUS
  <2>. QED  BY <2>1
<1>4. (out - net) * (U * U) = g * z + a * B - r * U - b * U
  OBVIOUS
<1>. HIDE DEF z, g, a, b, r
<1>5. a * B \in Nat /\ r * U \in Nat /\ b * U \in Nat /\ a * B <= (2 * U - 1) * U
      /\ r * U <= (U - 1) * U /\ b * U <= (2 * U - 1) * U
  BY <1>2, <1>3, ProductBelow
<1>6. (2 * U - 1) * U = 2 * (U * U) - U /\ (U - 1) * U = U * U - U /\ U * U \in Nat \ {0}
  OBVIOUS
<1>7. g * z \in Int /\ -(U * U) < g * z /\ g * z < 2 * (U * U)
  <2>1. CASE z >= 0
    <3>1. g * z \in Nat /\ g * z <= U * (2 * U - 1)
      BY <1>1, <2>1, ProductBelow
    <3>2. U * (2 * U - 1) = 2 * (U * U) - U
      OBVIOUS
    <3>. QED  BY <1>6, <3>1, <3>2
  <2>2. CASE z < 0
    <3>1. -z \in Nat /\ -z <= U - 1 /\ U - 1 \in Nat
      BY <1>1, <2>2
    <3>2. g * (-z) \in Nat /\ g * (-z) <= U * (U - 1)
      BY <1>1, <3>1, ProductBelow
    <3>3. U * (U - 1) = U * U - U /\ g * z = -(g * (-z))
      BY <1>1
    <3>. QED  BY <1>6, <3>2, <3>3
  <2>. QED  BY <1>1, <2>1, <2>2
<1>8. /\ (out - net) * (U * U) < 4 * (U * U) /\ (-4) * (U * U) < (out - net) * (U * U)
  BY <1>4, <1>5, <1>6, <1>7
<1>9. out - net < 4 /\ -4 < out - net
  BY <1>6, <1>8, CancelFactor
<1>. QED  BY <1>9

\* getExpectedPostFeeQuantity: what is left after fees, up to the fractions of two roundings.
LEMMA ExpectedPostFee ==
    ASSUME NEW x \in Nat, NEW m \in Nat, NEW D \in Nat
    PROVE  LET g == Ref!getExpectedPostFeeQuantity(x, m, D)
           IN  /\ g \in Int
               /\ x * (PreciseUnit - (m + D)) <= g * PreciseUnit
               /\ g * PreciseUnit < x * (PreciseUnit - (m + D)) + 2 * PreciseUnit
<1>. DEFINE U == PreciseUnit
            a == preciseMul(x, m)
            b == preciseMul(x, D)
            g == Ref!getExpectedPostFeeQuantity(x, m, D)
<1>0. U \in Nat \ {0}
  BY PreciseUnitAssumption
<1>1. g = x - a - b
  BY SameArithmetic DEF Ref!getExpectedPostFeeQuantity
<1>2. a \in Nat /\ a * U <= x * m /\ x * m < (a + 1) * U
  BY PreciseMulRoundsDown
<1>3. b \in Nat /\ b * U <= x * D /\ x * D < (b + 1) * U
  BY PreciseMulRoundsDown
<1>. HIDE DEF a, b, U
<1>4. /\ (a + 1) * U = a * U + U /\ (b + 1) * U = b * U + U
      /\ (x - a - b) * U = x * U - a * U - b * U /\ x * (U - (m + D)) = x * U - x * m - x * D
      /\ a * U \in Nat /\ b * U \in Nat /\ x * U \in Nat /\ x * m \in Nat /\ x * D \in Nat
  BY <1>0, <1>2, <1>3
<1>5. (x - a - b) * U >= x * (U - (m + D)) /\ (x - a - b) * U < x * (U - (m + D)) + 2 * U
  BY <1>0, <1>2, <1>3, <1>4
<1>. HIDE DEF g
<1>. QED  BY <1>1, <1>2, <1>3, <1>5 DEF U, g

\* _getFees: the same bounds, and one more or less than the tests expect.
LEMMA FeesNear ==
    ASSUME NEW n \in NAVIssuanceSettings, NEW q \in Nat, NEW side \in {"issue", "redeem"},
           NEW fees \in getFees(n, q, side)
    PROVE  LET net == fees.netFlowQuantity
               m == n.managerFees[side]
               g == Ref!getExpectedPostFeeQuantity(q, m, DirectFee[side])
           IN  /\ m \in Nat /\ DirectFee[side] \in Nat /\ net \in Nat /\ g \in Int
               /\ g - net <= 1 /\ net - g <= 1
               /\ q * (PreciseUnit - (m + DirectFee[side])) <= net * PreciseUnit
               /\ net * PreciseUnit < q * (PreciseUnit - (m + DirectFee[side])) + 2 * PreciseUnit
<1>. DEFINE U == PreciseUnit
            D == DirectFee[side]
            m == n.managerFees[side]
            share == preciseMul(FeeShare[side], m)
            a == preciseMul(share + D, q)
            b == preciseMul(m - share, q)
            net == fees.netFlowQuantity
            g == Ref!getExpectedPostFeeQuantity(q, m, D)
            a2 == preciseMul(q, m)
            b2 == preciseMul(q, D)
<1>0. FeeShare[side] \in Nat /\ D \in Nat /\ m \in Nat /\ U \in Nat \ {0}
  BY NavInputsAssumption, PreciseUnitAssumption DEF NAVIssuanceSettings
<1>1. share <= m /\ net = q - a - b
  BY DEF getFees, Require
<1>2. g = q - a2 - b2
  BY <1>0, SameArithmetic DEF Ref!getExpectedPostFeeQuantity
<1>3. net \in Nat
  BY FeesSplit DEF SplitOf
<1>. HIDE DEF m, D
<1>4. share \in Nat
  BY <1>0, PreciseMulRoundsDown
<1>. HIDE DEF share, net, g
<1>5. share + D \in Nat /\ m - share \in Nat
  BY <1>0, <1>1, <1>4
<1>6. /\ a \in Nat /\ a * U <= (share + D) * q /\ (share + D) * q < (a + 1) * U
      /\ b \in Nat /\ b * U <= (m - share) * q /\ (m - share) * q < (b + 1) * U
  BY <1>5, PreciseMulRoundsDown
<1>7. /\ a2 \in Nat /\ a2 * U <= q * m /\ q * m < (a2 + 1) * U
      /\ b2 \in Nat /\ b2 * U <= q * D /\ q * D < (b2 + 1) * U
  BY <1>0, PreciseMulRoundsDown
<1>. HIDE DEF U, a, b, a2, b2
<1>8. /\ q * m \in Nat /\ q * D \in Nat
      /\ (share + D) * q \in Nat /\ (m - share) * q \in Nat
      /\ q * m + q * D = (share + D) * q + (m - share) * q
  BY <1>0, <1>4, <1>5
<1>9. (a2 + b2) - (a + b) <= 1 /\ (a + b) - (a2 + b2) <= 1
  <2>. DEFINE x1 == q * m
              x2 == q * D
              y1 == (share + D) * q
              y2 == (m - share) * q
  <2>1. /\ U \in Nat \ {0} /\ a \in Nat /\ b \in Nat /\ a2 \in Nat /\ b2 \in Nat
        /\ x1 \in Nat /\ x2 \in Nat /\ y1 \in Nat /\ y2 \in Nat /\ x1 + x2 = y1 + y2
        /\ a2 * U <= x1 /\ x1 < (a2 + 1) * U /\ b2 * U <= x2 /\ x2 < (b2 + 1) * U
        /\ a * U <= y1 /\ y1 < (a + 1) * U /\ b * U <= y2 /\ y2 < (b + 1) * U
    BY <1>0, <1>6, <1>7, <1>8
  <2>. HIDE DEF x1, x2, y1, y2
  <2>. QED  BY <2>1, SplitRoundings
<1>10. g - net <= 1 /\ net - g <= 1 /\ g \in Int
  BY <1>1, <1>2, <1>6, <1>7, <1>9
<1>11. /\ (a + 1) * U = a * U + U /\ (b + 1) * U = b * U + U
       /\ (q - a - b) * U = q * U - a * U - b * U
       /\ q * (U - (m + D)) = q * U - q * m - q * D
       /\ a * U \in Nat /\ b * U \in Nat /\ q * U \in Nat
  BY <1>0, <1>6
<1>12. q * (U - (m + D)) <= (q - a - b) * U
       /\ (q - a - b) * U < q * (U - (m + D)) + 2 * U
  BY <1>0, <1>6, <1>8, <1>11
<1>13. q * (U - (m + D)) <= net * U /\ net * U < q * (U - (m + D)) + 2 * U
  BY <1>1, <1>12
<1>. QED  BY <1>0, <1>3, <1>10, <1>13 DEF U, m, D, net, g

\* Both multipliers, through an inflation rounded up and a deflation rounded down.
LEMMA MultipliersNear ==
    ASSUME NEW s, s.positionMultiplier \in Nat, s.totalSupply \in Nat, NEW N \in Nat \ {0}
    PROVE  LET M == s.positionMultiplier
               S == s.totalSupply
               new == getPositionMultiplier(s, N)
               grown == Ref!getExpectedIssuePositionMultiplier(M, S, N)
               shrunk == Ref!getExpectedRedeemPositionMultiplier(M, S, N)
           IN  /\ S <= N => grown <= new /\ new <= grown + preciseMulCeil(M, 1) + 1
               /\ N <= S => shrunk <= new /\ new <= shrunk + preciseMulCeil(M, 1) + 1
<1>. DEFINE U == PreciseUnit
            M == s.positionMultiplier
            S == s.totalSupply
            new == getPositionMultiplier(s, N)
            c == preciseMulCeil(M, 1)
            Between(k) ==
                LET expected == preciseMul(M, k)
                IN  /\ k \in Nat /\ k * N <= S * U /\ S * U < (k + 1) * N
                    => expected \in Nat /\ expected <= new /\ new <= expected + c
<1>0. U \in Nat \ {0} /\ M \in Nat /\ S \in Nat
  BY PreciseUnitAssumption
<1>1. new \in Nat /\ new * N <= M * S /\ M * S < (new + 1) * N
  <2>1. M * S \in Nat /\ new = truncDiv(M * S, N)
    BY <1>0 DEF getPositionMultiplier
  <2>2. truncDiv(M * S, N) = (M * S) \div N
    BY <2>1 DEF truncDiv, abs
  <2>. QED  BY <2>1, <2>2, DivisionBrackets
<1>2. c \in Nat /\ M <= c * U
  <2>1. c \in Nat /\ M * 1 <= c * U
    BY <1>0, PreciseMulCeilRoundsUp
  <2>. QED  BY <1>0, <2>1
<1>. HIDE DEF new, c, M, S
<1>3. \A k : Between(k)
  <2>. SUFFICES ASSUME NEW k, k \in Nat, k * N <= S * U, S * U < (k + 1) * N
                PROVE  preciseMul(M, k) \in Nat /\ preciseMul(M, k) <= new /\ new <= preciseMul(M, k) + c
    OBVIOUS
  <2>. DEFINE expected == preciseMul(M, k)
  <2>1. expected \in Nat /\ expected * U <= M * k /\ M * k < (expected + 1) * U
    BY <1>0, PreciseMulRoundsDown
  <2>. HIDE DEF expected
  <2>2. expected <= new /\ new <= expected + c
    BY <1>0, <1>1, <1>2, <2>1, MultiplierRoundings
  <2>. QED  BY <2>1, <2>2 DEF expected
<1>. HIDE DEF Between
<1>4. ASSUME S <= N
      PROVE  LET grown == Ref!getExpectedIssuePositionMultiplier(M, S, N)
             IN  grown <= new /\ new <= grown + c + 1
  <2>. DEFINE i == preciseDivCeil(N - S, N)
              k == U - i
  <2>1. N - S \in Nat
    BY <1>0, <1>4
  <2>2. i \in Nat /\ (N - S) * U <= i * N /\ i * N < (N - S) * U + N
    BY <2>1, PreciseDivCeilRoundsUp
  <2>3. i = Ref!preciseDivCeil(N - S, N)
    BY <2>1, SameArithmetic
  <2>. HIDE DEF i
  <2>4. /\ (N - S) * U = U * N - S * U /\ U * N \in Nat /\ S * U \in Nat /\ i * N \in Nat
        /\ (U + 1) * N = U * N + N /\ k * N = U * N - i * N /\ (k + 1) * N = U * N - i * N + N
    BY <1>0, <2>2
  <2>5. i * N < (U + 1) * N
    BY <2>2, <2>4
  <2>6. i < U + 1
    BY <1>0, <2>2, <2>5, CancelFactor
  <2>7. k \in Nat /\ k * N <= S * U /\ S * U < (k + 1) * N
    BY <1>0, <2>2, <2>4, <2>6
  <2>8. Ref!getExpectedIssuePositionMultiplier(M, S, N) = Ref!preciseMul(M, k)
    BY <2>3 DEF Ref!getExpectedIssuePositionMultiplier
  <2>. HIDE DEF k
  <2>9. Ref!preciseMul(M, k) = preciseMul(M, k)
    BY <1>0, <2>7, SameArithmetic
  <2>10. preciseMul(M, k) \in Nat /\ preciseMul(M, k) <= new /\ new <= preciseMul(M, k) + c
    BY <1>3, <2>7 DEF Between
  <2>. QED  BY <1>1, <1>2, <2>8, <2>9, <2>10
<1>5. ASSUME N <= S
      PROVE  LET shrunk == Ref!getExpectedRedeemPositionMultiplier(M, S, N)
             IN  shrunk <= new /\ new <= shrunk + c + 1
  <2>. DEFINE i == preciseDiv(S - N, N)
              k == U + i
  <2>1. S - N \in Nat /\ (S - N) * U \in Nat
    BY <1>0, <1>5
  <2>2. i \in Nat /\ i * N <= (S - N) * U /\ (S - N) * U < (i + 1) * N
    BY <2>1, DivisionBrackets DEF preciseDiv
  <2>3. i = Ref!preciseDiv(S - N, N)
    BY <2>1, SameArithmetic
  <2>. HIDE DEF i
  <2>4. /\ (S - N) * U = S * U - U * N /\ U * N \in Nat /\ S * U \in Nat /\ i * N \in Nat
        /\ (i + 1) * N = i * N + N /\ k * N = U * N + i * N /\ (k + 1) * N = U * N + i * N + N
    BY <1>0, <2>2
  <2>7. k \in Nat /\ k * N <= S * U /\ S * U < (k + 1) * N
    BY <1>0, <2>2, <2>4
  <2>8. Ref!getExpectedRedeemPositionMultiplier(M, S, N) = Ref!preciseMul(M, k)
    BY <2>3 DEF Ref!getExpectedRedeemPositionMultiplier
  <2>. HIDE DEF k
  <2>9. Ref!preciseMul(M, k) = preciseMul(M, k)
    BY <1>0, <2>7, SameArithmetic
  <2>10. preciseMul(M, k) \in Nat /\ preciseMul(M, k) <= new /\ new <= preciseMul(M, k) + c
    BY <1>3, <2>7 DEF Between
  <2>. QED  BY <1>1, <1>2, <2>8, <2>9, <2>10
<1>. QED  BY <1>4, <1>5 DEF M, S, new, c

\* The reserve's unit, when what it is computed from differs by one.
LEMMA UnitsNear ==
    ASSUME NEW A \in Nat, NEW A2 \in Int, A2 - A <= 1, A - A2 <= 1,
           NEW N \in Nat \ {0}, NEW M \in Nat \ {0}
    PROVE  near(Ref!roundDownPositionUnit(Ref!preciseDiv(A2, N), M), preciseDiv(A, N),
                preciseDivCeil(1, N) + preciseDivCeil(1, M))
<1>. DEFINE x == preciseDiv(A, N)
            y == Ref!preciseDiv(A2, N)
            r == Ref!roundDownPositionUnit(y, M)
            d == preciseDivCeil(1, N)
            e == preciseDivCeil(1, M)
<1>0. PreciseUnit \in Nat \ {0} /\ 1 \in Nat /\ 1 * PreciseUnit = PreciseUnit
  BY PreciseUnitAssumption
<1>1. d \in Nat /\ PreciseUnit <= d * N /\ e \in Nat /\ PreciseUnit <= e * M
  BY <1>0, PreciseDivCeilRoundsUp
<1>. HIDE DEF d, e
<1>2. x = (A * PreciseUnit) \div N /\ y = Ref!quotient(A2 * PreciseUnit, N)
  BY DEF preciseDiv, Ref!preciseDiv
<1>3. y \in Int /\ y - x <= d /\ x - y <= d
  <2>1. LET x2 == (A * PreciseUnit) \div N
            y2 == Ref!quotient(A2 * PreciseUnit, N)
        IN  y2 \in Int /\ y2 - x2 <= d /\ x2 - y2 <= d
    BY <1>0, <1>1, SpreadRoundings
  <2>. QED  BY <1>2, <2>1
<1>4. x \in Nat
  BY QuotientNatural
<1>. HIDE DEF x, y
<1>5. r \in Int /\ y - r <= e /\ r - y <= e
  BY <1>1, <1>3, RoundDownNear
<1>. HIDE DEF r
<1>6. r - x <= d + e /\ x - r <= d + e
  BY <1>1, <1>3, <1>4, <1>5
<1>7. near(r, x, d + e)
  BY <1>1, <1>4, <1>5, <1>6 DEF near, abs
<1>. QED  BY <1>7 DEF r, x, y, d, e

\* A set has one valuation.
LEMMA OneValuation ==
    ASSUME NEW s, NEW quotes, NEW c, NEW v \in calculateSetTokenValuation(s, quotes, c),
           NEW w \in calculateSetTokenValuation(s, quotes, c)
    PROVE  v = w
BY DEF calculateSetTokenValuation, Require

\* For the same net quantity the tests expect the sets that are minted.
LEMMA MintedAsExpected ==
    ASSUME NEW s, s.totalSupply \in Nat, NEW n, NavSound(n), NEW quotes, NEW c \in Tokens,
           NEW q \in Nat, NEW fees, SplitOf(fees, q),
           NEW minted \in getSetTokenMintQuantity(s, n, quotes, c, fees),
           NEW value \in calculateSetTokenValuation(s, quotes, c), NEW fee,
           Ref!getExpectedPostFeeQuantity(q, fee, DirectFee.issue) = fees.netFlowQuantity
    PROVE  Ref!getExpectedSetTokenIssueQuantity(value, s.totalSupply, BaseUnit[c], q, fee, DirectFee.issue,
                                                n.premiumPercentage) = minted
<1>. DEFINE net == fees.netFlowQuantity
            S == s.totalSupply
            p == n.premiumPercentage
            premiumValue == preciseMul(net, p)
            left == net - premiumValue
            netFees == preciseDiv(net, BaseUnit[c])
            netFeesAndPremium == preciseDiv(left, BaseUnit[c])
            total == preciseMul(S, value)
            denominator == total + netFees - netFeesAndPremium
<1>1. net \in Nat /\ BaseUnit[c] \in Nat \ {0} /\ value \in Nat /\ S \in Nat
  BY BaseUnitAssumption, ValuationNatural DEF SplitOf
<1>2. p \in Nat /\ p < PreciseUnit
  BY PreciseUnitAssumption DEF NavSound, NAVIssuanceSettings
<1>3. PICK v \in calculateSetTokenValuation(s, quotes, c) :
          /\ preciseMul(S, v) + netFees - netFeesAndPremium > 0
          /\ minted = preciseDiv(preciseMul(netFeesAndPremium, S),
                                 preciseMul(S, v) + netFees - netFeesAndPremium)
  BY DEF getSetTokenMintQuantity
<1>4. v = value
  BY OneValuation
<1>5. denominator > 0 /\ minted = preciseDiv(preciseMul(netFeesAndPremium, S), denominator)
  BY <1>3, <1>4
<1>6. premiumValue \in Nat /\ premiumValue <= net /\ Ref!preciseMul(net, p) = premiumValue
  BY <1>1, <1>2, ShareWithinWhole, SameArithmetic
<1>7. left \in Nat
  BY <1>1, <1>6
<1>8. Ref!getExpectedSetTokenIssueQuantity(value, S, BaseUnit[c], q, fee, DirectFee.issue, p)
        = Ref!preciseDiv(Ref!preciseMul(Ref!preciseDiv(left, BaseUnit[c]), S),
                         Ref!preciseMul(S, value) + Ref!preciseDiv(net, BaseUnit[c])
                            - Ref!preciseDiv(left, BaseUnit[c]))
  BY <1>6 DEF Ref!getExpectedSetTokenIssueQuantity
<1>. HIDE DEF net, S, p, premiumValue, left
<1>9. /\ netFees \in Nat /\ Ref!preciseDiv(net, BaseUnit[c]) = netFees
      /\ netFeesAndPremium \in Nat /\ Ref!preciseDiv(left, BaseUnit[c]) = netFeesAndPremium
  BY <1>1, <1>7, QuotientNatural, SameArithmetic
<1>. HIDE DEF netFees, netFeesAndPremium
<1>10. /\ total \in Nat /\ Ref!preciseMul(S, value) = total
       /\ preciseMul(netFeesAndPremium, S) \in Nat
       /\ Ref!preciseMul(netFeesAndPremium, S) = preciseMul(netFeesAndPremium, S)
  BY <1>1, <1>9, PreciseMulRoundsDown, SameArithmetic
<1>. HIDE DEF total
<1>11. denominator \in Nat \ {0}
  BY <1>5, <1>9, <1>10
<1>12. Ref!getExpectedSetTokenIssueQuantity(value, S, BaseUnit[c], q, fee, DirectFee.issue, p)
         = Ref!preciseDiv(preciseMul(netFeesAndPremium, S), denominator)
  BY <1>8, <1>9, <1>10
<1>. HIDE DEF denominator
<1>13. Ref!preciseDiv(preciseMul(netFeesAndPremium, S), denominator)
         = preciseDiv(preciseMul(netFeesAndPremium, S), denominator)
  BY <1>10, <1>11, SameArithmetic
<1>. QED  BY <1>5, <1>12, <1>13 DEF S, p

\* Every issue is what getExpectedIssue... of navIssuanceModuleUtils.ts say.
LEMMA IssuesAsExpected == NInv => IssueMatchesReference
<1>. SUFFICES ASSUME NInv, NEW c \in nav.isReserveAsset, NEW quantity \in ReserveQuantities,
                     NEW info \in createIssuanceInfo(set, nav, prices, c, quantity),
                     NEW value \in calculateSetTokenValuation(set, prices, c),
                     info.newPositionMultiplier > 0
              PROVE  LET fee == nav.managerFees.issue
                         supply == set.totalSupply
                         net == Ref!getExpectedPostFeeQuantity(quantity, fee, DirectFee.issue)
                         minted == Ref!getExpectedSetTokenIssueQuantity(
                                       value, supply, BaseUnit[c], quantity, fee, DirectFee.issue,
                                       nav.premiumPercentage)
                         multiplier == Ref!getExpectedIssuePositionMultiplier(
                                           set.positionMultiplier, supply, info.newSetTokenSupply)
                         unit == Ref!getExpectedIssuePositionUnit(
                                     getDefaultPositionRealUnit(set, c), quantity, supply,
                                     info.newSetTokenSupply, info.newPositionMultiplier, fee, DirectFee.issue)
                     IN  /\ near(net, info.fees.netFlowQuantity, 1)
                         /\ net = info.fees.netFlowQuantity => minted = info.setTokenQuantity
                         /\ multiplier <= info.newPositionMultiplier
                         /\ info.newPositionMultiplier
                                <= multiplier + preciseMulCeil(set.positionMultiplier, 1) + 1
                         /\ near(unit, info.newReservePositionUnit,
                                 preciseDivCeil(1, info.newSetTokenSupply)
                                    + preciseDivCeil(1, info.newPositionMultiplier))
  BY DEF IssueMatchesReference
<1>. DEFINE S == set.totalSupply
            fee == nav.managerFees.issue
            g == Ref!getExpectedPostFeeQuantity(quantity, fee, DirectFee.issue)
            real == getDefaultPositionRealUnit(set, c)
<1>0. /\ Inv(set) /\ NavSound(nav) /\ nav \in NAVIssuanceSettings /\ c \in Tokens
      /\ quantity \in Nat /\ S \in Nat /\ set.positionMultiplier \in Nat
  <2>1. Inv(set) /\ NavSound(nav) /\ nav \in NAVIssuanceSettings
    BY DEF NInv, NavSound
  <2>2. c \in Tokens
    BY <2>1 DEF NAVIssuanceSettings
  <2>3. quantity \in Nat
    BY NavInputsAssumption
  <2>4. S \in Nat /\ set.positionMultiplier \in Nat
    BY <2>1 DEF Inv, SetTokenState
  <2>. QED  BY <2>1, <2>2, <2>3, <2>4
<1>1. PICK fees \in getFees(nav, quantity, "issue") :
          \E q \in getSetTokenMintQuantity(set, nav, prices, c, fees) :
              /\ S + q > 0
              /\ info = [fees |-> fees, setTokenQuantity |-> q, newSetTokenSupply |-> S + q,
                         newPositionMultiplier |-> getPositionMultiplier(set, S + q),
                         newReservePositionUnit |->
                             getIssuePositionUnit(set, c, fees.netFlowQuantity, S + q)]
  BY DEF createIssuanceInfo
<1>2. PICK q \in getSetTokenMintQuantity(set, nav, prices, c, fees) :
              /\ S + q > 0
              /\ info = [fees |-> fees, setTokenQuantity |-> q, newSetTokenSupply |-> S + q,
                         newPositionMultiplier |-> getPositionMultiplier(set, S + q),
                         newReservePositionUnit |->
                             getIssuePositionUnit(set, c, fees.netFlowQuantity, S + q)]
  BY <1>1
<1>. DEFINE net == fees.netFlowQuantity
            N == S + q
            M == getPositionMultiplier(set, N)
            existing == preciseMul(real, S)
<1>3. /\ info.fees = fees /\ info.setTokenQuantity = q /\ info.newSetTokenSupply = N
      /\ info.newPositionMultiplier = M
      /\ info.newReservePositionUnit = preciseDiv(existing + net, N)
  BY <1>2 DEF getIssuePositionUnit
<1>4. SplitOf(fees, quantity)
  BY <1>0, <1>1, FeesSplit
<1>5. q \in Nat
  BY <1>0, <1>2, <1>4, MintedNatural
<1>6. N \in Nat \ {0} /\ S <= N
  BY <1>0, <1>2, <1>5
<1>. HIDE DEF N
<1>7. net \in Nat /\ g \in Int /\ g - net <= 1 /\ net - g <= 1
  BY <1>0, <1>1, FeesNear
<1>8. near(g, net, 1)
  BY <1>7 DEF near, abs
<1>9. g = net => Ref!getExpectedSetTokenIssueQuantity(
                     value, S, BaseUnit[c], quantity, fee, DirectFee.issue, nav.premiumPercentage) = q
  BY <1>0, <1>2, <1>4, MintedAsExpected
<1>10. LET multiplier == Ref!getExpectedIssuePositionMultiplier(set.positionMultiplier, S, N)
       IN  multiplier <= M /\ M <= multiplier + preciseMulCeil(set.positionMultiplier, 1) + 1
  BY <1>0, <1>6, MultipliersNear
<1>11. M \in Nat \ {0}
  <2>1. M \in Nat
    BY <1>0, <1>6, MultiplierShrinks
  <2>. QED  BY <1>3, <2>1
<1>12. real \in Nat
  BY <1>0, RealUnitBrackets
<1>13. /\ existing \in Nat /\ Ref!preciseMul(S, real) = existing
  <2>1. S * real = real * S
    BY <1>0, <1>12
  <2>. QED  BY <1>0, <1>12, <2>1, PreciseMulRoundsDown, SameArithmetic DEF preciseMul
<1>. HIDE DEF M, net, g, real, existing
<1>14. Ref!getExpectedIssuePositionUnit(real, quantity, S, N, M, fee, DirectFee.issue)
         = Ref!roundDownPositionUnit(Ref!preciseDiv(existing + g, N), M)
  BY <1>13 DEF Ref!getExpectedIssuePositionUnit, g
<1>15. /\ existing + net \in Nat /\ existing + g \in Int
       /\ (existing + g) - (existing + net) <= 1 /\ (existing + net) - (existing + g) <= 1
  BY <1>7, <1>13
<1>16. near(Ref!roundDownPositionUnit(Ref!preciseDiv(existing + g, N), M),
            preciseDiv(existing + net, N), preciseDivCeil(1, N) + preciseDivCeil(1, M))
  BY <1>6, <1>11, <1>15, UnitsNear
<1>. QED  BY <1>3, <1>8, <1>9, <1>10, <1>14, <1>16 DEF net, g, real

\* What the tests expect to be paid, and to leave the set with fees and all, against a redemption
\* that pays `paid' before fees.
LEMMA RedeemedNear ==
    ASSUME NEW s, NEW n, NavSound(n), NEW quotes, NEW c \in Tokens, BaseUnit[c] <= PreciseUnit,
           NEW q \in Nat, NEW paid \in getRedeemReserveQuantity(s, n, quotes, c, q),
           NEW value \in calculateSetTokenValuation(s, quotes, c),
           NEW fees \in getFees(n, paid, "redeem"),
           n.managerFees.redeem + DirectFee.redeem <= PreciseUnit
    PROVE  LET p == n.premiumPercentage
               reserve == Ref!preciseMul(Ref!redeemValueSubPremium(q, value, p), BaseUnit[c])
               out == Ref!getExpectedReserveRedeemQuantity(q, value, BaseUnit[c],
                                                           n.managerFees.redeem, DirectFee.redeem, p)
           IN  /\ reserve \in Nat /\ reserve - paid <= 1 /\ paid - reserve <= 1
               /\ out \in Nat /\ fees.netFlowQuantity \in Nat
               /\ out - fees.netFlowQuantity <= 3 /\ fees.netFlowQuantity - out <= 3
<1>. DEFINE U == PreciseUnit
            B == BaseUnit[c]
            p == n.premiumPercentage
            m == n.managerFees.redeem
            v == preciseMul(q, value)
            w == preciseMul(v, B)
            C == preciseMulCeil(v, p)
            E == preciseMulCeil(w, p)
            left == v - C
            net == fees.netFlowQuantity
            left2 == Ref!getExpectedPostFeeQuantity(left, m, DirectFee.redeem)
<1>0. U \in Nat \ {0} /\ B \in Nat /\ B <= U /\ value \in Nat
  BY PreciseUnitAssumption, BaseUnitAssumption, ValuationNatural
<1>1. p \in Nat /\ p < U /\ m \in Nat /\ n \in NAVIssuanceSettings
  BY PreciseUnitAssumption DEF NavSound, NAVIssuanceSettings
<1>2. v \in Nat
  BY <1>0, PreciseMulRoundsDown
<1>3. paid = w - E
  <2>1. PICK x \in calculateSetTokenValuation(s, quotes, c) :
            paid = preciseMul(preciseMul(q, x), B) - preciseMulCeil(preciseMul(preciseMul(q, x), B), p)
    BY DEF getRedeemReserveQuantity
  <2>2. x = value
    BY OneValuation
  <2>. QED  BY <2>1, <2>2
<1>4. Ref!redeemValueSubPremium(q, value, p) = left
  <2>1. value * q = q * value
    BY <1>0
  <2>2. Ref!preciseMul(value, q) = v
    BY <1>0, <2>1, SameArithmetic DEF preciseMul
  <2>3. Ref!preciseMulCeil(v, p) = C
    BY <1>1, <1>2, SameArithmetic
  <2>. HIDE DEF v, C
  <2>. QED  BY <2>2, <2>3 DEF Ref!redeemValueSubPremium
<1>. HIDE DEF v, U, B, p, m
<1>5. w \in Nat /\ w * U <= v * B /\ v * B < (w + 1) * U
  BY <1>0, <1>2, PreciseMulRoundsDown DEF U
<1>. HIDE DEF w
<1>6. C \in Nat /\ v * p <= C * U /\ C * U < v * p + U /\ C <= v
  BY <1>1, <1>2, PreciseMulCeilRoundsUp, ShareWithinWhole DEF U
<1>7. E \in Nat /\ w * p <= E * U /\ E * U < w * p + U /\ E <= w
  BY <1>1, <1>5, PreciseMulCeilRoundsUp, ShareWithinWhole DEF U
<1>. HIDE DEF C, E
<1>8. left \in Nat /\ paid \in Nat
  BY <1>2, <1>3, <1>5, <1>6, <1>7
<1>9. -U < left * B - paid * U /\ left * B - paid * U < 2 * U
  <2>1. p <= U
    BY <1>0, <1>1
  <2>2. LET z == (v - C) * B - (w - E) * U
        IN  z \in Int /\ -U < z /\ z < 2 * U
    BY <1>0, <1>1, <1>2, <1>5, <1>6, <1>7, <2>1, PremiumRoundings
  <2>. QED  BY <1>3, <2>2
<1>. HIDE DEF left
<1>10. LET reserve == Ref!preciseMul(left, B)
       IN  reserve \in Nat /\ reserve - paid <= 1 /\ paid - reserve <= 1
  <2>. DEFINE reserve == preciseMul(left, B)
  <2>1. reserve \in Nat /\ reserve * U <= left * B /\ left * B < (reserve + 1) * U
    BY <1>0, <1>8, PreciseMulRoundsDown DEF U
  <2>2. Ref!preciseMul(left, B) = reserve
    BY <1>0, <1>8, SameArithmetic
  <2>. HIDE DEF reserve
  <2>3. left * B \in Nat
    BY <1>0, <1>8
  <2>. DEFINE a == left * B
  <2>4. a \in Nat /\ reserve * U <= a /\ a < (reserve + 1) * U /\ -U < a - paid * U
        /\ a - paid * U < 2 * U
    BY <1>9, <2>1, <2>3
  <2>. HIDE DEF a
  <2>5. reserve - paid <= 1 /\ paid - reserve <= 1
    BY <1>0, <1>8, <2>1, <2>4, ReserveNear
  <2>. QED  BY <2>1, <2>2, <2>5
<1>11. /\ m \in Nat /\ DirectFee.redeem \in Nat /\ net \in Nat
       /\ paid * (U - (m + DirectFee.redeem)) <= net * U
       /\ net * U < paid * (U - (m + DirectFee.redeem)) + 2 * U
  <2>1. n.managerFees["redeem"] = m
    BY DEF m
  <2>. QED  BY <1>1, <1>8, <2>1, FeesNear DEF U
<1>12. /\ left2 \in Int /\ left * (U - (m + DirectFee.redeem)) <= left2 * U
       /\ left2 * U < left * (U - (m + DirectFee.redeem)) + 2 * U
  BY <1>8, <1>11, ExpectedPostFee DEF U
<1>. DEFINE f == m + DirectFee.redeem
<1>13. f \in Nat /\ f <= U
  BY <1>11 DEF U, m
<1>14. left2 \in Nat
  <2>1. U - f \in Nat /\ left * (U - f) \in Nat
    BY <1>0, <1>8, <1>13
  <2>2. left2 * U \in Int /\ 0 <= left2 * U
    BY <1>0, <1>12, <2>1
  <2>3. (-1) * U < left2 * U
    BY <1>0, <1>12, <2>2
  <2>4. -1 < left2
    BY <1>0, <1>12, <2>3, CancelFactor
  <2>. QED  BY <1>12, <2>4
<1>15. Ref!getExpectedReserveRedeemQuantity(q, value, B, m, DirectFee.redeem, p) = Ref!preciseMul(left2, B)
  BY <1>4 DEF Ref!getExpectedReserveRedeemQuantity
<1>. HIDE DEF left2, net
<1>. DEFINE out == preciseMul(left2, B)
<1>16. Ref!preciseMul(left2, B) = out /\ out \in Nat /\ out * U <= left2 * B /\ left2 * B < (out + 1) * U
  BY <1>0, <1>14, PreciseMulRoundsDown, SameArithmetic DEF U
<1>. HIDE DEF out
<1>17. out - net <= 3 /\ net - out <= 3
  <2>1. /\ left * (U - f) <= left2 * U /\ left2 * U < left * (U - f) + 2 * U
        /\ paid * (U - f) <= net * U /\ net * U < paid * (U - f) + 2 * U
    BY <1>11, <1>12
  <2>. HIDE DEF f
  <2>2. left2 \in Int /\ net \in Int
    BY <1>11, <1>12
  <2>. QED  BY <1>0, <1>8, <1>9, <1>13, <1>16, <2>1, <2>2, NetNear
<1>. QED  BY <1>4, <1>10, <1>11, <1>15, <1>16, <1>17 DEF B, m, p, net

\* Every redemption is what getExpectedRedeem... of navIssuanceModuleUtils.ts say.
LEMMA RedemptionsAsExpected == NInv => RedeemMatchesReference
<1>. SUFFICES ASSUME NInv, NEW c \in nav.isReserveAsset, NEW quantity \in SetQuantities,
                     NEW info \in createRedemptionInfo(set, nav, prices, c, quantity),
                     NEW value \in calculateSetTokenValuation(set, prices, c),
                     BaseUnit[c] <= PreciseUnit,
                     nav.managerFees.redeem + DirectFee.redeem <= PreciseUnit
              PROVE  LET fee == nav.managerFees.redeem
                         supply == set.totalSupply
                         net == Ref!getExpectedReserveRedeemQuantity(
                                    quantity, value, BaseUnit[c], fee, DirectFee.redeem, nav.premiumPercentage)
                         multiplier == Ref!getExpectedRedeemPositionMultiplier(
                                           set.positionMultiplier, supply, info.newSetTokenSupply)
                         unit == Ref!getExpectedRedeemPositionUnit(
                                     getDefaultPositionRealUnit(set, c), quantity, value, BaseUnit[c],
                                     supply, info.newSetTokenSupply, info.newPositionMultiplier,
                                     nav.premiumPercentage)
                     IN  /\ near(net, info.fees.netFlowQuantity, 3)
                         /\ multiplier <= info.newPositionMultiplier
                         /\ info.newPositionMultiplier
                                <= multiplier + preciseMulCeil(set.positionMultiplier, 1) + 1
                         /\ near(unit, info.newReservePositionUnit,
                                 preciseDivCeil(1, info.newSetTokenSupply)
                                    + preciseDivCeil(1, info.newPositionMultiplier))
  BY DEF RedeemMatchesReference
<1>. DEFINE S == set.totalSupply
            p == nav.premiumPercentage
            fee == nav.managerFees.redeem
            N == S - quantity
            M == getPositionMultiplier(set, N)
            real == getDefaultPositionRealUnit(set, c)
            existing == preciseMul(real, S)
<1>0. /\ Inv(set) /\ NavSound(nav) /\ nav \in NAVIssuanceSettings /\ c \in Tokens
      /\ quantity \in Nat /\ S \in Nat /\ set.positionMultiplier \in Nat \ {0}
  <2>1. Inv(set) /\ NavSound(nav) /\ nav \in NAVIssuanceSettings
    BY DEF NInv, NavSound
  <2>2. c \in Tokens
    BY <2>1 DEF NAVIssuanceSettings
  <2>3. quantity \in Nat
    BY NavInputsAssumption
  <2>4. S \in Nat /\ set.positionMultiplier \in Nat \ {0}
    BY <2>1 DEF Inv, SetTokenState
  <2>. QED  BY <2>1, <2>2, <2>3, <2>4
<1>1. PICK paid \in getRedeemReserveQuantity(set, nav, prices, c, quantity) :
          \E fees \in getFees(nav, paid, "redeem") :
              /\ N > 0
              /\ \E unit \in getRedeemPositionUnit(set, c, fees, N) :
                    info = [fees |-> fees, setTokenQuantity |-> quantity, newSetTokenSupply |-> N,
                            newPositionMultiplier |-> M, newReservePositionUnit |-> unit]
  BY DEF createRedemptionInfo
<1>2. PICK fees \in getFees(nav, paid, "redeem") :
              /\ N > 0
              /\ \E unit \in getRedeemPositionUnit(set, c, fees, N) :
                    info = [fees |-> fees, setTokenQuantity |-> quantity, newSetTokenSupply |-> N,
                            newPositionMultiplier |-> M, newReservePositionUnit |-> unit]
  BY <1>1
<1>3. PICK unit \in getRedeemPositionUnit(set, c, fees, N) :
          info = [fees |-> fees, setTokenQuantity |-> quantity, newSetTokenSupply |-> N,
                  newPositionMultiplier |-> M, newReservePositionUnit |-> unit]
  BY <1>2
<1>4. paid \in Nat
  BY <1>0, RedeemedNatural
<1>5. SplitOf(fees, paid)
  BY <1>0, <1>4, FeesSplit
<1>6. existing >= paid /\ unit = preciseDiv(existing - paid, N)
  <2>1. /\ existing >= fees.netFlowQuantity + fees.protocolFees + fees.managerFee
        /\ unit = preciseDiv(existing - (fees.netFlowQuantity + fees.protocolFees + fees.managerFee), N)
    BY DEF getRedeemPositionUnit, Require
  <2>. QED  BY <1>5, <2>1 DEF SplitOf
<1>7. /\ info.fees = fees /\ info.newSetTokenSupply = N /\ info.newPositionMultiplier = M
      /\ info.newReservePositionUnit = unit
  BY <1>3
<1>8. N \in Nat \ {0} /\ N <= S
  BY <1>0, <1>2
<1>. HIDE DEF N
<1>. DEFINE reserve == Ref!preciseMul(Ref!redeemValueSubPremium(quantity, value, p), BaseUnit[c])
            out == Ref!getExpectedReserveRedeemQuantity(quantity, value, BaseUnit[c], fee, DirectFee.redeem, p)
<1>9. /\ reserve \in Nat /\ reserve - paid <= 1 /\ paid - reserve <= 1
      /\ out \in Nat /\ fees.netFlowQuantity \in Nat
      /\ out - fees.netFlowQuantity <= 3 /\ fees.netFlowQuantity - out <= 3
  BY <1>0, RedeemedNear
<1>. HIDE DEF out, reserve
<1>10. near(out, fees.netFlowQuantity, 3)
  BY <1>9 DEF near, abs
<1>11. LET multiplier == Ref!getExpectedRedeemPositionMultiplier(set.positionMultiplier, S, N)
       IN  multiplier <= M /\ M <= multiplier + preciseMulCeil(set.positionMultiplier, 1) + 1
  BY <1>0, <1>8, MultipliersNear
<1>12. M \in Nat \ {0}
  <2>. DEFINE a == set.positionMultiplier * S
  <2>1. a \in Nat /\ N <= a
    <3>1. 1 * S <= set.positionMultiplier * S /\ 1 * S = S /\ a \in Nat
      BY <1>0, ProductGrows
    <3>. QED  BY <1>0, <1>8, <3>1
  <2>2. M = truncDiv(a, N)
    BY DEF getPositionMultiplier
  <2>. HIDE DEF a
  <2>3. truncDiv(a, N) = a \div N
    BY <1>8, <2>1 DEF truncDiv, abs
  <2>4. M \in Nat /\ a < (M + 1) * N
    BY <1>8, <2>1, <2>2, <2>3, DivisionBrackets
  <2>. HIDE DEF M
  <2>5. 1 * N < (M + 1) * N
    BY <1>8, <2>1, <2>4
  <2>6. 1 < M + 1
    BY <1>8, <2>4, <2>5, CancelFactor
  <2>. QED  BY <2>4, <2>6
<1>13. real \in Nat
  BY <1>0, RealUnitBrackets
<1>14. existing \in Nat /\ Ref!preciseMul(S, real) = existing
  <2>1. S * real = real * S
    BY <1>0, <1>13
  <2>. QED  BY <1>0, <1>13, <2>1, PreciseMulRoundsDown, SameArithmetic DEF preciseMul
<1>. HIDE DEF M, real, existing
<1>15. Ref!getExpectedRedeemPositionUnit(real, quantity, value, BaseUnit[c], S, N, M, p)
         = Ref!roundDownPositionUnit(Ref!preciseDiv(existing - reserve, N), M)
  BY <1>14 DEF Ref!getExpectedRedeemPositionUnit, reserve
<1>16. /\ existing - paid \in Nat /\ existing - reserve \in Int
       /\ (existing - reserve) - (existing - paid) <= 1
       /\ (existing - paid) - (existing - reserve) <= 1
  BY <1>4, <1>6, <1>9, <1>14
<1>17. near(Ref!roundDownPositionUnit(Ref!preciseDiv(existing - reserve, N), M),
            preciseDiv(existing - paid, N), preciseDivCeil(1, N) + preciseDivCeil(1, M))
  BY <1>8, <1>12, <1>16, UnitsNear
<1>. QED  BY <1>6, <1>7, <1>10, <1>11, <1>15, <1>17 DEF out, real

\* CustomOracleNAVIssuanceModule computes what utils/common/navIssuanceModuleUtils.ts has the tests
\* expect, up to the stated roundings, for all supplies, multipliers, prices, decimals, fees and
\* premiums that a sequence of transactions can bring about.
THEOREM FlowsAlwaysMatchReference == Spec => []FlowsMatchReference
<1>1. NInv => FlowsMatchReference
  BY IssuesAsExpected, RedemptionsAsExpected DEF FlowsMatchReference
<1>. QED  BY <1>1, NavInvariant, PTL
=============================================================================

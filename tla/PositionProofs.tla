--------------------------- MODULE PositionProofs ---------------------------
(***************************************************************************)
(* The rounding of PreciseUnitMath.sol, and what every call of             *)
(* SetToken.sol, every edit of a position through Position.sol and every   *)
(* issue and redemption for components preserves, for any state of a set,  *)
(* any tokens and modules and any PreciseUnit.  The proofs about the       *)
(* systems built on the set (SetTokenModules, IndexSystem, NavIssuance)    *)
(* rest on these lemmas.                                                   *)
(***************************************************************************)
EXTENDS BasicIssuanceModule, TLAPS

\* Euclidean division, with the quotient and remainder named.
LEMMA Euclid ==
    ASSUME NEW a \in Nat, NEW b \in Nat \ {0}
    PROVE  /\ a \div b \in Nat /\ a % b \in 0 .. (b - 1)
           /\ a = b * (a \div b) + (a % b)
OBVIOUS

\* The quotient brackets the dividend.
LEMMA DivisionBrackets ==
    ASSUME NEW a \in Nat, NEW b \in Nat \ {0}
    PROVE  /\ a \div b \in Nat
           /\ (a \div b) * b <= a
           /\ a < (a \div b + 1) * b
<1>. DEFINE q == a \div b
            r == a % b
<1>1. q \in Nat /\ r \in 0 .. (b - 1) /\ a = b * q + r
  BY Euclid
<1>. HIDE DEF q, r
<1>2. q * b = b * q /\ (q + 1) * b = b * q + b /\ b * q \in Nat
  BY <1>1
<1>. QED  BY <1>1, <1>2 DEF q

\* preciseMul drops less than one unit: the product rounded down.
THEOREM PreciseMulRoundsDown ==
    ASSUME NEW a \in Nat, NEW b \in Nat
    PROVE  /\ preciseMul(a, b) \in Nat
           /\ preciseMul(a, b) * PreciseUnit <= a * b
           /\ a * b < (preciseMul(a, b) + 1) * PreciseUnit
BY DivisionBrackets, PreciseUnitAssumption DEF preciseMul

\* preciseMulCeil adds less than one unit: whoever pays it pays the product.
THEOREM PreciseMulCeilRoundsUp ==
    ASSUME NEW a \in Nat, NEW b \in Nat
    PROVE  /\ preciseMulCeil(a, b) \in Nat
           /\ a * b <= preciseMulCeil(a, b) * PreciseUnit
           /\ preciseMulCeil(a, b) * PreciseUnit < a * b + PreciseUnit
<1>1. CASE a = 0 \/ b = 0
  BY <1>1, PreciseUnitAssumption DEF preciseMulCeil
<1>2. CASE a # 0 /\ b # 0
  <2>. DEFINE n == a * b - 1
              q == n \div PreciseUnit
  <2>1. n \in Nat
    BY <1>2
  <2>2. preciseMulCeil(a, b) = q + 1
    BY <1>2 DEF preciseMulCeil
  <2>3. q \in Nat /\ q * PreciseUnit <= n /\ n < (q + 1) * PreciseUnit
    BY <2>1, DivisionBrackets, PreciseUnitAssumption
  <2>4. a * b = n + 1
    OBVIOUS
  <2>. HIDE DEF n, q
  <2>5. (q + 1) * PreciseUnit = q * PreciseUnit + PreciseUnit /\ q * PreciseUnit \in Nat
    BY <2>3, PreciseUnitAssumption
  <2>. QED  BY <2>1, <2>2, <2>3, <2>4, <2>5, PreciseUnitAssumption
<1>. QED  BY <1>1, <1>2

\* preciseDivCeil is the quotient rounded up.
THEOREM PreciseDivCeilRoundsUp ==
    ASSUME NEW a \in Nat, NEW b \in Nat \ {0}
    PROVE  /\ preciseDivCeil(a, b) \in Nat
           /\ a * PreciseUnit <= preciseDivCeil(a, b) * b
           /\ preciseDivCeil(a, b) * b < a * PreciseUnit + b
<1>1. CASE a = 0
  BY <1>1, PreciseUnitAssumption DEF preciseDivCeil
<1>2. CASE a # 0
  <2>. DEFINE n == a * PreciseUnit - 1
              q == n \div b
  <2>1. n \in Nat
    BY <1>2, PreciseUnitAssumption
  <2>2. preciseDivCeil(a, b) = q + 1
    BY <1>2 DEF preciseDivCeil
  <2>3. q \in Nat /\ q * b <= n /\ n < (q + 1) * b
    BY <2>1, DivisionBrackets
  <2>4. a * PreciseUnit = n + 1
    BY PreciseUnitAssumption
  <2>. HIDE DEF n, q
  <2>5. (q + 1) * b = q * b + b /\ q * b \in Nat
    BY <2>3
  <2>. QED  BY <2>1, <2>2, <2>3, <2>4, <2>5
<1>. QED  BY <1>1, <1>2

\* divDown rounds towards minus infinity although Solidity's division rounds
\* towards zero: on debt, a negative unit, that is in the set's favour.
THEOREM DivDownIsFloor ==
    ASSUME NEW a \in Int, NEW b \in Nat \ {0}
    PROVE  /\ divDown(a, b) \in Int
           /\ divDown(a, b) * b <= a
           /\ a < (divDown(a, b) + 1) * b
<1>1. CASE a >= 0
  <2>1. divDown(a, b) = a \div b
    BY <1>1 DEF divDown, truncDiv, signsDiffer, dividesEvenly, abs
  <2>. QED  BY <1>1, <2>1, DivisionBrackets
<1>2. CASE a < 0
  <2>. DEFINE n == -a
              q == n \div b
              r == n % b
  <2>1. divDown(a, b) = -q - (IF r # 0 THEN 1 ELSE 0)
    BY <1>2 DEF divDown, truncDiv, signsDiffer, dividesEvenly, abs
  <2>2. n \in Nat /\ a = -n
    BY <1>2
  <2>. HIDE DEF n
  <2>3. q \in Nat /\ r \in 0 .. (b - 1) /\ n = b * q + r
    BY <2>2, Euclid
  <2>. HIDE DEF q, r
  <2>4. CASE r = 0
    <3>1. divDown(a, b) = -q
      BY <2>1, <2>3, <2>4
    <3>2. (-q) * b = -(b * q) /\ (-q + 1) * b = -(b * q) + b /\ b * q \in Nat
      BY <2>3
    <3>. QED  BY <2>2, <2>3, <2>4, <3>1, <3>2
  <2>5. CASE r # 0
    <3>1. divDown(a, b) = -q - 1
      BY <2>1, <2>3, <2>5
    <3>2. (-q - 1) * b = -(b * q) - b /\ (-q - 1 + 1) * b = -(b * q) /\ b * q \in Nat
      BY <2>3
    <3>. QED  BY <2>2, <2>3, <2>5, <3>1, <3>2
  <2>. QED  BY <2>4, <2>5
<1>. QED  BY <1>1, <1>2
-----------------------------------------------------------------------------
(* Rounding down keeps a sign. *)

\* A quotient of natural numbers is positive from the divisor on.
LEMMA DivideSign ==
    ASSUME NEW a \in Nat, NEW b \in Nat \ {0}
    PROVE  a \div b \in Nat /\ (a >= b <=> a \div b > 0) /\ (a = 0 => a \div b = 0)
OBVIOUS

\* divDown of PreciseUnitMath.sol by a positive divisor: a whole number that is
\* negative exactly when the dividend is, and positive only when the dividend
\* reaches the divisor.
LEMMA DivDownSign ==
    ASSUME NEW a \in Int, NEW b \in Nat \ {0}
    PROVE  /\ divDown(a, b) \in Int
           /\ a >= 0 => divDown(a, b) >= 0
           /\ a < 0 <=> divDown(a, b) < 0
           /\ a = 0 => divDown(a, b) = 0
           /\ a >= b <=> divDown(a, b) > 0
<1>1. CASE a >= 0
  <2>1. divDown(a, b) = a \div b
    BY <1>1 DEF divDown, truncDiv, signsDiffer, dividesEvenly, abs
  <2>. QED  BY <1>1, <2>1, DivideSign
<1>2. CASE a < 0
  <2>. DEFINE n == -a
  <2>0. n \in Nat /\ n > 0
    BY <1>2
  <2>1. divDown(a, b) = -(n \div b) - (IF n % b # 0 THEN 1 ELSE 0)
    BY <1>2 DEF divDown, truncDiv, signsDiffer, dividesEvenly, abs
  <2>2. n \div b \in Nat /\ n % b \in Nat /\ n = b * (n \div b) + (n % b)
    BY <2>0
  <2>3. n \div b = 0 => n % b # 0
    BY <2>0, <2>2
  <2>4. divDown(a, b) \in Int /\ divDown(a, b) < 0
    <3>. DEFINE q == n \div b
                r == n % b
    <3>1. /\ q \in Nat /\ r \in Nat
          /\ q = 0 => r # 0
          /\ divDown(a, b) = -q - (IF r # 0 THEN 1 ELSE 0)
      BY <2>1, <2>2, <2>3
    <3>. HIDE DEF q, r
    <3>. QED  BY <3>1
  <2>. QED  BY <1>2, <2>4
<1>. QED  BY <1>1, <1>2

\* A positive factor keeps the sign.
LEMMA ProductSign ==
    ASSUME NEW a \in Int, NEW b \in Nat \ {0}
    PROVE  /\ a * b \in Int
           /\ a > 0 => a * b > 0
           /\ a < 0 => a * b < 0
           /\ a = 0 => a * b = 0
OBVIOUS
-----------------------------------------------------------------------------
(* The invariant, of any state s of a SetToken. *)

Listed(s) ==
    \A c \in Tokens :
        c \in s.components <=> s.virtualUnit[c] # 0 \/ s.externalPositionModules[c] # {}

ExternalListed(s) ==
    \A c \in Tokens, m \in Modules :
        m \in s.externalPositionModules[c] <=> s.externalUnit[c][m] # 0

DefaultReadable(s) ==
    \A c \in Tokens :
        /\ s.virtualUnit[c] >= 0
        /\ s.virtualUnit[c] > 0 => convertVirtualToRealUnit(s, s.virtualUnit[c]) > 0

ExternalReadable(s) ==
    \A c \in Tokens, m \in Modules :
        s.externalUnit[c][m] > 0 => convertVirtualToRealUnit(s, s.externalUnit[c][m]) > 0

LockHeld(s) ==
    /\ s.isLocked <=> s.locker # ZeroAddress
    /\ s.isLocked => s.moduleStates[s.locker] = "INITIALIZED"

Inv(s) ==
    /\ s \in SetTokenState
    /\ s.positionMultiplier > 0
    /\ Listed(s)
    /\ ExternalListed(s)
    /\ DefaultReadable(s)
    /\ ExternalReadable(s)
    /\ LockHeld(s)

\* Reading a stored unit through a positive multiplier never turns its sign;
\* only a positive unit can be read as zero.
LEMMA ReadBack ==
    ASSUME NEW s \in SetTokenState, s.positionMultiplier > 0, NEW v \in Int
    PROVE  LET real == convertVirtualToRealUnit(s, v)
           IN  /\ real \in Int
               /\ v >= 0 => real >= 0
               /\ v < 0 => real < 0
               /\ v = 0 => real = 0
<1>. DEFINE m == s.positionMultiplier
<1>1. m \in Nat \ {0}
  BY DEF SetTokenState
<1>. HIDE DEF m
<1>2. /\ v * m \in Int
      /\ v > 0 => v * m > 0
      /\ v < 0 => v * m < 0
      /\ v = 0 => v * m = 0
  BY <1>1, ProductSign
<1>3. convertVirtualToRealUnit(s, v) = divDown(v * m, PreciseUnit)
  BY DEF convertVirtualToRealUnit, conservativePreciseMul, m
<1>. DEFINE p == v * m
<1>. HIDE DEF p
<1>4. /\ divDown(p, PreciseUnit) \in Int
      /\ p >= 0 => divDown(p, PreciseUnit) >= 0
      /\ p < 0 => divDown(p, PreciseUnit) < 0
      /\ p = 0 => divDown(p, PreciseUnit) = 0
  BY <1>2, DivDownSign, PreciseUnitAssumption DEF p
<1>. QED  BY <1>2, <1>3, <1>4 DEF p

\* What _convertRealToVirtualUnit stores has the sign of the unit it was given
\* and is read back with that sign.
LEMMA StoredUnit ==
    ASSUME NEW s \in SetTokenState, s.positionMultiplier > 0, NEW u \in Int,
           NEW v \in convertRealToVirtualUnit(s, u)
    PROVE  /\ v \in Int
           /\ u = 0 => v = 0
           /\ u < 0 => v < 0
           /\ u > 0 => v > 0 /\ convertVirtualToRealUnit(s, v) > 0
<1>. DEFINE m == s.positionMultiplier
            p == u * PreciseUnit
<1>1. m \in Nat \ {0}
  BY DEF SetTokenState
<1>2. /\ p \in Int
      /\ u > 0 => p > 0
      /\ u < 0 => p < 0
      /\ u = 0 => p = 0
  BY ProductSign, PreciseUnitAssumption
<1>3. /\ v = divDown(p, m)
      /\ u > 0 => v # 0 /\ convertVirtualToRealUnit(s, v) # 0
  BY DEF convertRealToVirtualUnit, Require, conservativePreciseDiv
<1>. HIDE DEF m, p
<1>4. /\ v \in Int
      /\ p >= 0 => v >= 0
      /\ p < 0 => v < 0
      /\ p = 0 => v = 0
  BY <1>1, <1>2, <1>3, DivDownSign
<1>5. v >= 0 => convertVirtualToRealUnit(s, v) \in Int /\ convertVirtualToRealUnit(s, v) >= 0
  BY <1>4, ReadBack
<1>. QED  BY <1>2, <1>3, <1>4, <1>5
-----------------------------------------------------------------------------
(* Each call of SetToken.sol and Position.sol preserves it. *)

\* editDefaultPosition of Position.sol, whichever of its branches is taken:
\* the component is listed afterwards exactly when it has a position left.
LEMMA EditDefaultPositionInv ==
    ASSUME NEW s, Inv(s), NEW caller, NEW c \in Tokens, NEW u \in Nat,
           NEW t \in editDefaultPosition(s, caller, c, u)
    PROVE  Inv(t)
<1>. DEFINE found == hasDefaultPosition(s, c)
            external == hasExternalPosition(s, c)
            K == IF u > 0 \/ external THEN s.components \cup {c} ELSE s.components \ {c}
<1>0. s \in SetTokenState /\ s.positionMultiplier > 0
  BY DEF Inv
<1>1. found <=> s.virtualUnit[c] # 0
  <2>1. s.virtualUnit[c] \in Int /\ s.virtualUnit[c] >= 0
    BY <1>0 DEF Inv, DefaultReadable, SetTokenState
  <2>2. s.virtualUnit[c] > 0 => convertVirtualToRealUnit(s, s.virtualUnit[c]) > 0
    BY DEF Inv, DefaultReadable
  <2>3. s.virtualUnit[c] = 0 => convertVirtualToRealUnit(s, s.virtualUnit[c]) = 0
    BY <1>0, <2>1, ReadBack
  <2>. QED  BY <2>1, <2>2, <2>3 DEF hasDefaultPosition, getDefaultPositionRealUnit
<1>2. c \in s.components <=> found \/ external
  BY <1>1 DEF Inv, Listed, hasExternalPosition
<1>3. PICK r : /\ r = [s EXCEPT !.components = K]
               /\ t \in editDefaultPositionUnit(r, caller, c, u)
  <2>0. [s EXCEPT !.components = s.components] = s
    BY <1>0 DEF SetTokenState
  <2>1. CASE ~found /\ u > 0 /\ ~external
    BY <2>1 DEF editDefaultPosition, addComponent, Require
  <2>2. CASE found /\ u = 0 /\ ~external
    BY <2>2 DEF editDefaultPosition, removeComponent, Require
  <2>3. CASE ~(~found /\ u > 0 /\ ~external) /\ ~(found /\ u = 0 /\ ~external)
    <3>1. t \in editDefaultPositionUnit(s, caller, c, u)
      BY <2>3 DEF editDefaultPosition
    <3>2. K = s.components
      BY <2>3, <1>2
    <3>. QED  BY <3>1, <3>2, <2>0
  <2>. QED  BY <2>1, <2>2, <2>3
<1>4. r \in SetTokenState /\ r.positionMultiplier = s.positionMultiplier
  BY <1>0, <1>3 DEF SetTokenState
<1>5. PICK v \in convertRealToVirtualUnit(r, u) : t = [r EXCEPT !.virtualUnit[c] = v]
  BY <1>3 DEF editDefaultPositionUnit
<1>6. v \in Int /\ (u = 0 => v = 0) /\ (u > 0 => v > 0 /\ convertVirtualToRealUnit(r, v) > 0)
  BY <1>0, <1>4, <1>5, StoredUnit
<1>7. t \in SetTokenState
  BY <1>4, <1>5, <1>6 DEF SetTokenState
<1>8. /\ t.components = K
      /\ t.virtualUnit = [s.virtualUnit EXCEPT ![c] = v]
      /\ t.externalPositionModules = s.externalPositionModules
      /\ t.externalUnit = s.externalUnit
      /\ t.positionMultiplier = s.positionMultiplier
      /\ t.isLocked = s.isLocked /\ t.locker = s.locker /\ t.moduleStates = s.moduleStates
  BY <1>0, <1>3, <1>5 DEF SetTokenState
<1>9. \A x : /\ convertVirtualToRealUnit(t, x) = convertVirtualToRealUnit(s, x)
             /\ convertVirtualToRealUnit(r, x) = convertVirtualToRealUnit(s, x)
  BY <1>4, <1>8 DEF convertVirtualToRealUnit
<1>10. s.virtualUnit \in [Tokens -> Int]
  BY <1>0 DEF SetTokenState
<1>. HIDE DEF found, external, K
<1>11. Listed(t)
  BY <1>6, <1>8, <1>10 DEF Inv, Listed, K, external, hasExternalPosition
<1>12. DefaultReadable(t)
  BY <1>6, <1>8, <1>9, <1>10 DEF Inv, DefaultReadable
<1>13. ExternalListed(t) /\ ExternalReadable(t) /\ LockHeld(t)
  BY <1>8, <1>9 DEF Inv, ExternalListed, ExternalReadable, LockHeld
<1>. QED  BY <1>0, <1>7, <1>8, <1>11, <1>12, <1>13 DEF Inv

\* The part of editExternalPosition that opens or changes a position.
LEMMA OpenExternalPositionInv ==
    ASSUME NEW s, Inv(s), NEW caller, NEW c \in Tokens, NEW m \in Modules, NEW u \in Int, u # 0,
           NEW t \in openExternalPosition(s, caller, c, m, u)
    PROVE  Inv(t)
<1>. DEFINE listing == [s EXCEPT !.components = s.components \cup {c}]
            withComponent == IF c \notin s.components THEN addComponent(s, caller, c) ELSE {s}
<1>0. s \in SetTokenState /\ s.positionMultiplier > 0
  BY DEF Inv
<1>1. \A r \in withComponent : r = listing
  <2>1. c \in s.components => s.components \cup {c} = s.components
    OBVIOUS
  <2>2. [s EXCEPT !.components = s.components] = s
    BY <1>0 DEF SetTokenState
  <2>. QED  BY <2>1, <2>2 DEF addComponent, Require
<1>2. /\ listing \in SetTokenState
      /\ listing.components = s.components \cup {c}
      /\ listing.virtualUnit = s.virtualUnit
      /\ listing.externalPositionModules = s.externalPositionModules
      /\ listing.externalUnit = s.externalUnit
      /\ listing.positionMultiplier = s.positionMultiplier
      /\ listing.isLocked = s.isLocked /\ listing.locker = s.locker
      /\ listing.moduleStates = s.moduleStates
  BY <1>0 DEF SetTokenState
<1>. HIDE DEF listing
<1>3. PICK r : /\ r = [listing EXCEPT !.externalPositionModules[c] = @ \cup {m}]
               /\ t \in editExternalPositionUnit(r, caller, c, m, u)
  <2>. DEFINE F(r) == IF c \notin s.components \/ m \notin r.externalPositionModules[c]
                      THEN addExternalPositionModule(r, caller, c, m) ELSE {r}
  <2>1. PICK q \in UNION {F(r) : r \in withComponent} :
            t \in editExternalPositionUnit(q, caller, c, m, u)
    BY DEF openExternalPosition
  <2>2. q \in F(listing)
    BY <1>1, <2>1
  <2>3. CASE c \notin s.components \/ m \notin listing.externalPositionModules[c]
    BY <2>1, <2>2, <2>3 DEF addExternalPositionModule, Require
  <2>4. CASE ~(c \notin s.components \/ m \notin listing.externalPositionModules[c])
    <3>1. q = listing
      BY <2>2, <2>4
    <3>2. listing.externalPositionModules[c] \cup {m} = listing.externalPositionModules[c]
      BY <2>4
    <3>3. [listing EXCEPT !.externalPositionModules[c] = listing.externalPositionModules[c]]
              = listing
      BY <1>2 DEF SetTokenState
    <3>. QED  BY <2>1, <3>1, <3>2, <3>3
  <2>. QED  BY <2>3, <2>4
<1>4. r \in SetTokenState /\ r.positionMultiplier = s.positionMultiplier
  BY <1>2, <1>3 DEF SetTokenState
<1>5. PICK v \in convertRealToVirtualUnit(r, u) : t = [r EXCEPT !.externalUnit[c][m] = v]
  BY <1>3 DEF editExternalPositionUnit
<1>6. v \in Int /\ v # 0 /\ (v > 0 => convertVirtualToRealUnit(r, v) > 0)
  BY <1>0, <1>4, <1>5, StoredUnit
<1>7. t \in SetTokenState
  BY <1>4, <1>5, <1>6 DEF SetTokenState
<1>8. /\ t.components = s.components \cup {c}
      /\ t.virtualUnit = s.virtualUnit
      /\ t.externalPositionModules =
             [s.externalPositionModules EXCEPT ![c] = s.externalPositionModules[c] \cup {m}]
      /\ t.externalUnit = [s.externalUnit EXCEPT ![c] = [s.externalUnit[c] EXCEPT ![m] = v]]
      /\ t.positionMultiplier = s.positionMultiplier
      /\ t.isLocked = s.isLocked /\ t.locker = s.locker /\ t.moduleStates = s.moduleStates
  BY <1>2, <1>3, <1>4, <1>5 DEF SetTokenState
<1>9. \A x : /\ convertVirtualToRealUnit(t, x) = convertVirtualToRealUnit(s, x)
             /\ convertVirtualToRealUnit(r, x) = convertVirtualToRealUnit(s, x)
  BY <1>4, <1>8 DEF convertVirtualToRealUnit
<1>10. /\ s.externalPositionModules \in [Tokens -> SUBSET Modules]
       /\ s.externalUnit \in [Tokens -> [Modules -> Int]]
  BY <1>0 DEF SetTokenState
<1>11. Listed(t)
  <2>1. c \in t.components /\ t.externalPositionModules[c] # {}
    BY <1>8, <1>10
  <2>2. \A d \in Tokens : d # c =>
            /\ d \in t.components <=> d \in s.components
            /\ t.externalPositionModules[d] = s.externalPositionModules[d]
    BY <1>8, <1>10
  <2>. QED  BY <1>8, <2>1, <2>2 DEF Inv, Listed
<1>12. ExternalListed(t)
  BY <1>6, <1>8, <1>10 DEF Inv, ExternalListed
<1>13. ExternalReadable(t)
  BY <1>6, <1>8, <1>9, <1>10 DEF Inv, ExternalReadable
<1>14. DefaultReadable(t) /\ LockHeld(t)
  BY <1>8, <1>9 DEF Inv, DefaultReadable, LockHeld
<1>. QED  BY <1>0, <1>7, <1>8, <1>11, <1>12, <1>13, <1>14 DEF Inv

\* The part that closes one: the component goes with its last position.
LEMMA CloseExternalPositionInv ==
    ASSUME NEW s, Inv(s), NEW caller, NEW c \in Tokens, NEW m \in Modules,
           NEW t \in closeExternalPosition(s, caller, c, m)
    PROVE  Inv(t)
<1>. DEFINE modules == s.externalPositionModules[c]
            isLast == /\ getDefaultPositionRealUnit(s, c) = 0
                      /\ \E only \in modules : modules = {only}
            K == IF isLast THEN s.components \ {c} ELSE s.components
<1>0. s \in SetTokenState /\ s.positionMultiplier > 0
  BY DEF Inv
<1>1. /\ s.externalPositionModules \in [Tokens -> SUBSET Modules]
      /\ s.externalUnit \in [Tokens -> [Modules -> Int]]
      /\ s.virtualUnit[c] \in Int /\ s.externalUnit[c][m] \in Int
  BY <1>0 DEF SetTokenState
<1>2. CASE getExternalPositionRealUnit(s, c, m) = 0
  BY <1>2 DEF closeExternalPosition
<1>3. CASE getExternalPositionRealUnit(s, c, m) # 0
  <2>1. m \in modules
    <3>1. s.externalUnit[c][m] # 0
      BY <1>0, <1>1, <1>3, ReadBack DEF getExternalPositionRealUnit
    <3>. QED  BY <3>1 DEF Inv, ExternalListed
  <2>2. getDefaultPositionRealUnit(s, c) = 0 <=> s.virtualUnit[c] = 0
    <3>1. s.virtualUnit[c] = 0 => getDefaultPositionRealUnit(s, c) = 0
      BY <1>0, <1>1, ReadBack DEF getDefaultPositionRealUnit
    <3>2. s.virtualUnit[c] >= 0
      BY DEF Inv, DefaultReadable
    <3>3. s.virtualUnit[c] > 0 => getDefaultPositionRealUnit(s, c) > 0
      BY DEF Inv, DefaultReadable, getDefaultPositionRealUnit
    <3>. QED  BY <1>1, <3>1, <3>2, <3>3
  <2>3. PICK r : /\ r = [s EXCEPT !.components = K]
                 /\ t \in removeExternalPositionModule(r, caller, c, m)
    <3>1. [s EXCEPT !.components = s.components] = s
      BY <1>0 DEF SetTokenState
    <3>2. CASE ~isLast
      BY <1>3, <3>1, <3>2 DEF closeExternalPosition
    <3>3. CASE isLast
      BY <1>3, <3>3 DEF closeExternalPosition, removeComponent, Require
    <3>. QED  BY <3>2, <3>3
  <2>4. isLast => modules = {m}
    BY <2>1
  <2>. HIDE DEF K
  <2>5. /\ r \in SetTokenState /\ r.components = K
        /\ r.virtualUnit = s.virtualUnit
        /\ r.externalPositionModules = s.externalPositionModules
        /\ r.externalUnit = s.externalUnit
        /\ r.positionMultiplier = s.positionMultiplier
        /\ r.isLocked = s.isLocked /\ r.locker = s.locker /\ r.moduleStates = s.moduleStates
    <3>1. K \in SUBSET Tokens
      BY <1>0 DEF K, SetTokenState
    <3>. QED  BY <1>0, <2>3, <3>1 DEF SetTokenState
  <2>6. t = [r EXCEPT !.externalPositionModules[c] = @ \ {m}, !.externalUnit[c][m] = 0]
    BY <2>3 DEF removeExternalPositionModule, Require
  <2>7. t \in SetTokenState
    <3>. DEFINE q == [r EXCEPT !.externalPositionModules[c] = @ \ {m}]
    <3>1. q \in SetTokenState /\ t = [q EXCEPT !.externalUnit[c][m] = 0]
      BY <2>5, <2>6 DEF SetTokenState
    <3>. HIDE DEF q
    <3>. DEFINE units == [q.externalUnit EXCEPT ![c][m] = 0]
    <3>2. q.externalUnit \in [Tokens -> [Modules -> Int]]
      BY <3>1 DEF SetTokenState
    <3>3. units \in [Tokens -> [Modules -> Int]] /\ t = [q EXCEPT !.externalUnit = units]
      BY <3>1, <3>2
    <3>. HIDE DEF units
    <3>. QED  BY <3>1, <3>3 DEF SetTokenState
  <2>8. /\ t.components = K
        /\ t.virtualUnit = s.virtualUnit
        /\ t.externalPositionModules = [s.externalPositionModules EXCEPT ![c] = modules \ {m}]
        /\ t.externalUnit = [s.externalUnit EXCEPT ![c] = [s.externalUnit[c] EXCEPT ![m] = 0]]
        /\ t.positionMultiplier = s.positionMultiplier
        /\ t.isLocked = s.isLocked /\ t.locker = s.locker /\ t.moduleStates = s.moduleStates
    BY <2>5, <2>6 DEF SetTokenState
  <2>9. \A x : convertVirtualToRealUnit(t, x) = convertVirtualToRealUnit(s, x)
    BY <2>8 DEF convertVirtualToRealUnit
  <2>10. Listed(t)
    <3>1. c \in s.components
      BY <2>1 DEF Inv, Listed
    <3>2. c \in K <=> s.virtualUnit[c] # 0 \/ modules \ {m} # {}
      BY <2>1, <2>2, <2>4, <3>1 DEF K
    <3>3. \A d \in Tokens : d # c => (d \in K <=> d \in s.components)
      BY DEF K
    <3>. HIDE DEF modules
    <3>. QED  BY <1>1, <2>8, <3>2, <3>3 DEF Inv, Listed
  <2>11. ExternalListed(t)
    BY <1>1, <2>8 DEF Inv, ExternalListed
  <2>12. ExternalReadable(t)
    BY <1>1, <2>8, <2>9 DEF Inv, ExternalReadable
  <2>13. DefaultReadable(t) /\ LockHeld(t)
    BY <2>8, <2>9 DEF Inv, DefaultReadable, LockHeld
  <2>. QED  BY <1>0, <2>7, <2>8, <2>10, <2>11, <2>12, <2>13 DEF Inv
<1>. QED  BY <1>2, <1>3

\* Products of natural numbers grow with their factors.
LEMMA ProductGrows ==
    ASSUME NEW a \in Nat, NEW b \in Nat, NEW x \in Nat, a <= b
    PROVE  a * x \in Nat /\ b * x \in Nat /\ a * x <= b * x
<1>1. b * x = a * x + (b - a) * x
  OBVIOUS
<1>2. b - a \in Nat /\ a * x \in Nat /\ (b - a) * x \in Nat
  OBVIOUS
<1>. QED  BY <1>1, <1>2

\* A product that is positive over PreciseUnit has positive factors; a larger
\* unit then stays positive too.
LEMMA LargerUnitSurvives ==
    ASSUME NEW least \in Nat, NEW u \in Nat, least <= u, least > 0, NEW x \in Int,
           conservativePreciseMul(least, x) > 0
    PROVE  x > 0 /\ conservativePreciseMul(u, x) > 0
<1>1. least * x \in Int /\ least * x >= PreciseUnit
  BY DivDownSign, PreciseUnitAssumption DEF conservativePreciseMul
<1>2. x > 0
  <2>1. SUFFICES ASSUME x <= 0 PROVE least * x <= 0
    BY <1>1, PreciseUnitAssumption
  <2>2. x = 0 \/ x < 0
    BY <2>1
  <2>3. x * least <= 0 /\ x * least = least * x
    BY <2>2, ProductSign
  <2>. QED  BY <2>3
<1>3. u * x \in Int /\ u * x >= PreciseUnit
  <2>1. least * x \in Nat /\ u * x \in Nat /\ least * x <= u * x
    BY <1>2, ProductGrows
  <2>. QED  BY <1>1, <2>1, PreciseUnitAssumption
<1>. QED  BY <1>2, <1>3, DivDownSign, PreciseUnitAssumption DEF conservativePreciseMul

\* editPositionMultiplier: checking the smallest position is enough for all.
LEMMA EditPositionMultiplierInv ==
    ASSUME NEW s, Inv(s), NEW caller, NEW x \in Int,
           NEW t \in editPositionMultiplier(s, caller, x)
    PROVE  Inv(t)
<1>0. s \in SetTokenState
  BY DEF Inv
<1>1. validateNewMultiplier(s, x) /\ t = [s EXCEPT !.positionMultiplier = x]
  BY DEF editPositionMultiplier, Require
<1>2. /\ s.virtualUnit \in [Tokens -> Int]
      /\ s.externalUnit \in [Tokens -> [Modules -> Int]]
      /\ s.components \subseteq Tokens
      /\ s.externalPositionModules \in [Tokens -> SUBSET Modules]
  BY <1>0 DEF SetTokenState
<1>3. PICK least \in absVirtualUnits(s) :
          /\ \A u \in absVirtualUnits(s) : least <= u
          /\ conservativePreciseMul(least, x) > 0
  BY <1>1 DEF validateNewMultiplier
<1>4. least \in Nat /\ least > 0
  BY <1>2, <1>3 DEF absVirtualUnits, abs
<1>5. \A u \in Nat : u \in absVirtualUnits(s) => conservativePreciseMul(u, x) > 0
  BY <1>3, <1>4, LargerUnitSurvives
<1>6. x > 0
  BY <1>3, <1>4, LargerUnitSurvives
<1>7. t \in SetTokenState
  BY <1>0, <1>1 DEF SetTokenState
<1>8. /\ t.components = s.components
      /\ t.virtualUnit = s.virtualUnit
      /\ t.externalPositionModules = s.externalPositionModules
      /\ t.externalUnit = s.externalUnit
      /\ t.positionMultiplier = x
      /\ t.isLocked = s.isLocked /\ t.locker = s.locker /\ t.moduleStates = s.moduleStates
  BY <1>0, <1>1 DEF SetTokenState
<1>9. DefaultReadable(t)
  <2>. SUFFICES ASSUME NEW c \in Tokens
                PROVE  /\ s.virtualUnit[c] >= 0
                       /\ s.virtualUnit[c] > 0 => conservativePreciseMul(s.virtualUnit[c], x) > 0
    BY <1>8 DEF DefaultReadable, convertVirtualToRealUnit
  <2>1. s.virtualUnit[c] >= 0 /\ s.virtualUnit[c] \in Int
    BY <1>2 DEF Inv, DefaultReadable
  <2>2. s.virtualUnit[c] > 0 => s.virtualUnit[c] \in absVirtualUnits(s)
    BY <2>1 DEF Inv, Listed, absVirtualUnits
  <2>. QED  BY <1>5, <2>1, <2>2
<1>10. ExternalReadable(t)
  <2>. SUFFICES ASSUME NEW c \in Tokens, NEW m \in Modules, s.externalUnit[c][m] > 0
                PROVE  conservativePreciseMul(s.externalUnit[c][m], x) > 0
    BY <1>8 DEF ExternalReadable, convertVirtualToRealUnit
  <2>1. s.externalUnit[c][m] \in Nat /\ abs(s.externalUnit[c][m]) = s.externalUnit[c][m]
    BY <1>2 DEF abs
  <2>2. m \in s.externalPositionModules[c] /\ c \in s.components
    BY DEF Inv, Listed, ExternalListed
  <2>3. s.externalUnit[c][m] \in absVirtualUnits(s)
    BY <2>1, <2>2 DEF absVirtualUnits
  <2>. QED  BY <1>5, <2>1, <2>3
<1>11. Listed(t) /\ ExternalListed(t) /\ LockHeld(t)
  BY <1>8 DEF Inv, Listed, ExternalListed, LockHeld
<1>. QED  BY <1>6, <1>7, <1>8, <1>9, <1>10, <1>11 DEF Inv

\* A call that leaves positions and multiplier alone only has to keep the lock.
LEMMA PositionsUntouchedInv ==
    ASSUME NEW s, Inv(s), NEW t \in SetTokenState, LockHeld(t),
           t.components = s.components, t.virtualUnit = s.virtualUnit,
           t.externalPositionModules = s.externalPositionModules,
           t.externalUnit = s.externalUnit, t.positionMultiplier = s.positionMultiplier
    PROVE  Inv(t)
<1>1. \A x : convertVirtualToRealUnit(t, x) = convertVirtualToRealUnit(s, x)
  BY DEF convertVirtualToRealUnit
<1>. QED  BY <1>1 DEF Inv, Listed, ExternalListed, DefaultReadable, ExternalReadable

\* mint, burn, lock and unlock, called by module m.
LEMMA SupplyAndLockInv ==
    ASSUME NEW s, Inv(s), NEW m \in Modules, NEW q \in Nat,
           NEW t \in mint(s, m, q) \cup burn(s, m, q) \cup lock(s, m) \cup unlock(s, m)
    PROVE  Inv(t)
<1>0. s \in SetTokenState /\ LockHeld(s)
  BY DEF Inv
<1>1. CASE t \in mint(s, m, q)
  <2>1. t = [s EXCEPT !.totalSupply = s.totalSupply + q]
    BY <1>1 DEF mint, Require
  <2>2. s.totalSupply + q \in Nat
    BY <1>0 DEF SetTokenState
  <2>3. t \in SetTokenState
    BY <1>0, <2>1, <2>2 DEF SetTokenState
  <2>. QED  BY <1>0, <2>1, <2>3, PositionsUntouchedInv DEF SetTokenState, LockHeld
<1>2. CASE t \in burn(s, m, q)
  <2>1. t = [s EXCEPT !.totalSupply = s.totalSupply - q] /\ q <= s.totalSupply
    BY <1>2 DEF burn, Require
  <2>2. s.totalSupply - q \in Nat
    BY <1>0, <2>1 DEF SetTokenState
  <2>3. t \in SetTokenState
    BY <1>0, <2>1, <2>2 DEF SetTokenState
  <2>. QED  BY <1>0, <2>1, <2>3, PositionsUntouchedInv DEF SetTokenState, LockHeld
<1>3. CASE t \in lock(s, m)
  <2>1. /\ t = [s EXCEPT !.locker = m, !.isLocked = TRUE]
        /\ s.moduleStates[m] = "INITIALIZED"
    BY <1>3 DEF lock, Require, onlyModule
  <2>2. t \in SetTokenState
    BY <1>0, <2>1 DEF SetTokenState
  <2>3. LockHeld(t)
    BY <1>0, <2>1, ZeroAddressAssumption DEF SetTokenState, LockHeld
  <2>. QED  BY <1>0, <2>1, <2>2, <2>3, PositionsUntouchedInv DEF SetTokenState
<1>4. CASE t \in unlock(s, m)
  <2>1. t = [s EXCEPT !.locker = ZeroAddress, !.isLocked = FALSE]
    BY <1>4 DEF unlock, Require
  <2>2. t \in SetTokenState
    BY <1>0, <2>1 DEF SetTokenState
  <2>3. LockHeld(t)
    BY <1>0, <2>1 DEF SetTokenState, LockHeld
  <2>. QED  BY <1>0, <2>1, <2>2, <2>3, PositionsUntouchedInv DEF SetTokenState
<1>. QED  BY <1>1, <1>2, <1>3, <1>4

\* A module's state changes only while unlocked, or from "NONE": never under
\* a locker.
LEMMA ModuleStateInv ==
    ASSUME NEW s, Inv(s), NEW m \in Modules, NEW state \in ModuleState,
           ~s.isLocked \/ s.moduleStates[m] = "NONE",
           NEW t, t = [s EXCEPT !.moduleStates[m] = state]
    PROVE  Inv(t)
<1>0. s \in SetTokenState /\ LockHeld(s)
  BY DEF Inv
<1>1. t \in SetTokenState
  BY <1>0 DEF SetTokenState
<1>2. /\ t.isLocked = s.isLocked /\ t.locker = s.locker
      /\ t.moduleStates = [s.moduleStates EXCEPT ![m] = state]
      /\ s.moduleStates \in [Modules -> ModuleState]
      /\ s.locker \in Modules \cup {ZeroAddress}
  BY <1>0 DEF SetTokenState
<1>3. LockHeld(t)
  BY <1>0, <1>2 DEF LockHeld
<1>. QED  BY <1>0, <1>1, <1>3, PositionsUntouchedInv DEF SetTokenState

\* initializeModule and the manager's calls.
LEMMA LifecycleInv ==
    ASSUME NEW s, Inv(s), NEW caller, NEW m \in Modules, NEW newManager \in Managers,
           NEW t \in initializeModule(s, m) \cup addModule(s, caller, m)
                        \cup removeModule(s, caller, m) \cup removePendingModule(s, caller, m)
                        \cup setManager(s, caller, newManager)
    PROVE  Inv(t)
<1>1. CASE t \in initializeModule(s, m)
  BY <1>1, ModuleStateInv DEF initializeModule, Require, ModuleState
<1>2. CASE t \in addModule(s, caller, m)
  BY <1>2, ModuleStateInv DEF addModule, Require, ModuleState
<1>3. CASE t \in removeModule(s, caller, m)
  BY <1>3, ModuleStateInv DEF removeModule, Require, ModuleState
<1>4. CASE t \in removePendingModule(s, caller, m)
  BY <1>4, ModuleStateInv DEF removePendingModule, Require, ModuleState
<1>5. CASE t \in setManager(s, caller, newManager)
  <2>1. t = [s EXCEPT !.manager = newManager]
    BY <1>5 DEF setManager, Require
  <2>2. s \in SetTokenState /\ LockHeld(s)
    BY DEF Inv
  <2>3. t \in SetTokenState
    BY <2>1, <2>2 DEF SetTokenState
  <2>. QED  BY <2>1, <2>2, <2>3, PositionsUntouchedInv DEF SetTokenState, LockHeld
<1>. QED  BY <1>1, <1>2, <1>3, <1>4, <1>5

\* The Controller's answers may change at any time.
LEMMA ControllerInv ==
    ASSUME NEW s, Inv(s), NEW enabled \in SUBSET Modules,
           NEW t, t = [s EXCEPT !.isModule = enabled]
    PROVE  Inv(t)
<1>1. s \in SetTokenState /\ LockHeld(s)
  BY DEF Inv
<1>2. t \in SetTokenState
  BY <1>1 DEF SetTokenState
<1>. QED  BY <1>1, <1>2, PositionsUntouchedInv DEF SetTokenState, LockHeld
-----------------------------------------------------------------------------
\* A set as SetTokenCreator leaves it.
LEMMA NewSetTokenInv ==
    ASSUME NEW units, DOMAIN units \subseteq Tokens,
           \A c \in DOMAIN units : units[c] \in Nat \ {0},
           NEW requested \in SUBSET Modules, NEW manager \in Managers,
           NEW s, s = newSetToken(units, requested, manager)
    PROVE  Inv(s)
<1>2. s \in SetTokenState
  BY PreciseUnitAssumption DEF newSetToken, SetTokenState, ModuleState
<1>3. /\ s.components = DOMAIN units
      /\ s.virtualUnit = [c \in Tokens |-> IF c \in DOMAIN units THEN units[c] ELSE 0]
      /\ s.externalPositionModules = [c \in Tokens |-> {}]
      /\ s.externalUnit = [c \in Tokens |-> [m \in Modules |-> 0]]
      /\ s.positionMultiplier = PreciseUnit
      /\ s.isLocked = FALSE /\ s.locker = ZeroAddress
  BY DEF newSetToken
<1>4. DefaultReadable(s)
  <2>. SUFFICES ASSUME NEW c \in Tokens, c \in DOMAIN units
                PROVE  convertVirtualToRealUnit(s, units[c]) > 0
    BY <1>3 DEF DefaultReadable
  <2>1. units[c] * PreciseUnit \in Nat /\ units[c] * PreciseUnit >= PreciseUnit
    <3>1. 1 * PreciseUnit <= units[c] * PreciseUnit /\ units[c] * PreciseUnit \in Nat
      BY ProductGrows, PreciseUnitAssumption
    <3>. QED  BY <3>1, PreciseUnitAssumption
  <2>. QED  BY <2>1, <1>3, DivDownSign, PreciseUnitAssumption
            DEF convertVirtualToRealUnit, conservativePreciseMul
<1>5. Listed(s) /\ ExternalListed(s) /\ ExternalReadable(s) /\ LockHeld(s)
  BY <1>3 DEF Listed, ExternalListed, ExternalReadable, LockHeld
<1>. QED  BY <1>2, <1>3, <1>4, <1>5, PreciseUnitAssumption DEF Inv

\* A module that may not call in edits no position: Position.sol reaches the
\* set's storage only through privileged functions.
LEMMA PositionsNeedPrivilege ==
    ASSUME NEW s, NEW caller, ~privileged(s, caller), NEW c, NEW m, NEW u, NEW t
    PROVE  /\ t \notin editDefaultPosition(s, caller, c, u)
           /\ t \in editExternalPosition(s, caller, c, m, u) => t = s
<1>1. /\ addComponent(s, caller, c) = {}
      /\ removeComponent(s, caller, c) = {}
      /\ editDefaultPositionUnit(s, caller, c, u) = {}
      /\ addExternalPositionModule(s, caller, c, m) = {}
      /\ removeExternalPositionModule(s, caller, c, m) = {}
      /\ editExternalPositionUnit(s, caller, c, m, u) = {}
  BY DEF addComponent, removeComponent, editDefaultPositionUnit, addExternalPositionModule,
         removeExternalPositionModule, editExternalPositionUnit, Require
<1>2. t \notin editDefaultPosition(s, caller, c, u)
  BY <1>1 DEF editDefaultPosition
<1>3. t \notin openExternalPosition(s, caller, c, m, u)
  BY <1>1 DEF openExternalPosition
<1>4. t \in closeExternalPosition(s, caller, c, m) => t = s
  BY <1>1 DEF closeExternalPosition
<1>. QED  BY <1>2, <1>3, <1>4 DEF editExternalPosition
-----------------------------------------------------------------------------
(* What a call does to the balances and to the unrounded claims on them. *)

\* The fields that no transfer and no edit of a position touches.
Untouched(s, t) ==
    /\ t.positionMultiplier = s.positionMultiplier /\ t.totalSupply = s.totalSupply
    /\ t.moduleStates = s.moduleStates /\ t.isModule = s.isModule /\ t.isSet = s.isSet
    /\ t.isLocked = s.isLocked /\ t.locker = s.locker /\ t.manager = s.manager

\* A state that differs only in its balances is as sound as before.
LEMMA HeldInv ==
    ASSUME NEW s, Inv(s), NEW balances \in [Tokens -> Nat],
           NEW t, t = [s EXCEPT !.held = balances]
    PROVE  /\ Inv(t) /\ Untouched(s, t)
           /\ t.held = balances /\ t.virtualUnit = s.virtualUnit /\ t.components = s.components
           /\ t.externalPositionModules = s.externalPositionModules
<1>1. s \in SetTokenState /\ LockHeld(s)
  BY DEF Inv
<1>2. t \in SetTokenState
  BY <1>1 DEF SetTokenState
<1>3. /\ Untouched(s, t)
      /\ t.held = balances /\ t.virtualUnit = s.virtualUnit /\ t.components = s.components
      /\ t.externalPositionModules = s.externalPositionModules
      /\ t.externalUnit = s.externalUnit
  BY <1>1 DEF SetTokenState, Untouched
<1>4. LockHeld(t)
  BY <1>1, <1>3 DEF LockHeld, Untouched
<1>. QED  BY <1>2, <1>3, <1>4, PositionsUntouchedInv DEF Untouched

\* Tokens coming in (ExplicitERC20.transferFrom).
LEMMA TransferInEffect ==
    ASSUME NEW s, Inv(s), NEW c \in Tokens, NEW q \in Nat,
           NEW t, t = transferFrom(s, c, q)
    PROVE  /\ Inv(t) /\ Untouched(s, t)
           /\ t.held = [s.held EXCEPT ![c] = s.held[c] + q]
           /\ t.virtualUnit = s.virtualUnit /\ t.components = s.components
           /\ t.externalPositionModules = s.externalPositionModules
<1>. DEFINE balances == [s.held EXCEPT ![c] = s.held[c] + q]
<1>1. balances \in [Tokens -> Nat]
  BY DEF Inv, SetTokenState
<1>2. t = [s EXCEPT !.held = balances]
  BY DEF transferFrom
<1>. HIDE DEF balances
<1>3. /\ Inv(t) /\ Untouched(s, t) /\ t.held = balances
      /\ t.virtualUnit = s.virtualUnit /\ t.components = s.components
      /\ t.externalPositionModules = s.externalPositionModules
  BY <1>1, <1>2, HeldInv
<1>. QED  BY <1>1, <1>3 DEF balances

\* Of a set s, the quantity q of component c has left; t is what remains.
SentOut(s, t, c, q) ==
    /\ Inv(t) /\ Untouched(s, t)
    /\ q <= s.held[c] /\ t.held = [s.held EXCEPT ![c] = s.held[c] - q]
    /\ t.virtualUnit = s.virtualUnit /\ t.components = s.components
    /\ t.externalPositionModules = s.externalPositionModules

\* Tokens going out (Invoke.strictInvokeTransfer): never more than are held.
LEMMA TransferOutEffect ==
    ASSUME NEW s, Inv(s), NEW caller, NEW c \in Tokens, NEW q \in Nat,
           NEW t \in strictInvokeTransfer(s, caller, c, q)
    PROVE  SentOut(s, t, c, q)
<1>. DEFINE balances == [s.held EXCEPT ![c] = s.held[c] - q]
<1>0. s.held \in [Tokens -> Nat]
  BY DEF Inv, SetTokenState
<1>1. q <= s.held[c] /\ t = [s EXCEPT !.held = balances]
  BY <1>0 DEF strictInvokeTransfer, Require
<1>2. balances \in [Tokens -> Nat]
  BY <1>0, <1>1
<1>. HIDE DEF balances
<1>3. /\ Inv(t) /\ Untouched(s, t) /\ t.held = balances
      /\ t.virtualUnit = s.virtualUnit /\ t.components = s.components
      /\ t.externalPositionModules = s.externalPositionModules
  BY <1>1, <1>2, HeldInv
<1>. QED  BY <1>1, <1>3 DEF balances, SentOut

\* convertRealToVirtualUnit rounds down: what is stored claims no more than the
\* unit that was asked for.
LEMMA StoredUnitClaims ==
    ASSUME NEW s \in SetTokenState, s.positionMultiplier > 0, NEW u \in Int,
           NEW v \in convertRealToVirtualUnit(s, u)
    PROVE  /\ v \in Int /\ v * s.positionMultiplier <= u * PreciseUnit
           /\ u * PreciseUnit < (v + 1) * s.positionMultiplier
<1>1. s.positionMultiplier \in Nat \ {0}
  BY DEF SetTokenState
<1>2. v = divDown(u * PreciseUnit, s.positionMultiplier)
  BY DEF convertRealToVirtualUnit, Require, conservativePreciseDiv
<1>3. u * PreciseUnit \in Int
  BY PreciseUnitAssumption
<1>. QED  BY <1>1, <1>2, <1>3, DivDownIsFloor

\* editDefaultPosition of Position.sol changes one unit, to the largest that
\* claims no more than the unit asked for, and neither balances nor supply.
LEMMA EditDefaultPositionEffect ==
    ASSUME NEW s, Inv(s), NEW caller, NEW c \in Tokens, NEW u \in Nat,
           NEW t \in editDefaultPosition(s, caller, c, u)
    PROVE  /\ Inv(t) /\ Untouched(s, t) /\ t.held = s.held
           /\ t.externalPositionModules = s.externalPositionModules
           /\ \A d \in Tokens \ {c} : t.virtualUnit[d] = s.virtualUnit[d]
           /\ t.virtualUnit[c] \in Nat
           /\ t.virtualUnit[c] * s.positionMultiplier <= u * PreciseUnit
           /\ u * PreciseUnit < (t.virtualUnit[c] + 1) * s.positionMultiplier
           /\ privileged(s, caller)
<1>0. Inv(t)
  BY EditDefaultPositionInv
<1>1. s \in SetTokenState /\ s.positionMultiplier > 0 /\ s.virtualUnit \in [Tokens -> Int]
  BY DEF Inv, SetTokenState
<1>2. PICK K, r : /\ K \in SUBSET Tokens
                  /\ r = [s EXCEPT !.components = K]
                  /\ t \in editDefaultPositionUnit(r, caller, c, u)
  <2>0. [s EXCEPT !.components = s.components] = s /\ s.components \in SUBSET Tokens
    BY <1>1 DEF SetTokenState
  <2>1. CASE t \in editDefaultPositionUnit(s, caller, c, u)
    BY <2>0, <2>1
  <2>2. CASE \E r \in addComponent(s, caller, c) : t \in editDefaultPositionUnit(r, caller, c, u)
    <3>1. s.components \cup {c} \in SUBSET Tokens
      BY <2>0
    <3>. QED  BY <2>2, <3>1 DEF addComponent, Require
  <2>3. CASE \E r \in removeComponent(s, caller, c) : t \in editDefaultPositionUnit(r, caller, c, u)
    <3>1. s.components \ {c} \in SUBSET Tokens
      BY <2>0
    <3>. QED  BY <2>3, <3>1 DEF removeComponent, Require
  <2>. QED  BY <2>1, <2>2, <2>3 DEF editDefaultPosition
<1>3. /\ r \in SetTokenState /\ r.positionMultiplier = s.positionMultiplier
      /\ r.virtualUnit = s.virtualUnit /\ Untouched(s, r) /\ r.held = s.held
      /\ r.externalPositionModules = s.externalPositionModules
  BY <1>1, <1>2 DEF SetTokenState, Untouched
<1>4. PICK v \in convertRealToVirtualUnit(r, u) : t = [r EXCEPT !.virtualUnit[c] = v]
  BY <1>2 DEF editDefaultPositionUnit
<1>5. /\ v \in Int /\ v * s.positionMultiplier <= u * PreciseUnit
      /\ u * PreciseUnit < (v + 1) * s.positionMultiplier
  BY <1>1, <1>3, <1>4, StoredUnitClaims
<1>6. t.virtualUnit = [s.virtualUnit EXCEPT ![c] = v]
  BY <1>3, <1>4 DEF SetTokenState
<1>7. Untouched(r, t) /\ t.held = r.held /\ t.externalPositionModules = r.externalPositionModules
  BY <1>3, <1>4 DEF SetTokenState, Untouched
<1>8. t.virtualUnit[c] \in Nat
  BY <1>0 DEF Inv, DefaultReadable, SetTokenState
<1>9. privileged(r, caller)
  BY <1>2 DEF editDefaultPositionUnit
<1>10. privileged(s, caller)
  BY <1>3, <1>9 DEF Untouched, privileged, onlyModule, whenLockedOnlyLocker
<1>. QED  BY <1>0, <1>1, <1>3, <1>5, <1>6, <1>7, <1>8, <1>10 DEF Untouched

\* calculateDefaultEditPositionUnit spreads no more than the balance over the
\* supply: the unit is rounded down and airdropped tokens are left out.
LEMMA RecomputedUnitClaims ==
    ASSUME NEW supply \in Nat, NEW pre \in Nat, NEW post \in Nat, NEW unit \in Nat,
           NEW u \in calculateDefaultEditPositionUnit(supply, pre, post, unit)
    PROVE  u \in Nat /\ u * supply <= post * PreciseUnit
<1>. DEFINE airdropped == pre - preciseMul(unit, supply)
            x == post - airdropped
<1>0. preciseMul(unit, supply) \in Nat
  BY PreciseMulRoundsDown
<1>1. /\ airdropped >= 0 /\ post >= airdropped /\ supply > 0
      /\ u = (x * PreciseUnit) \div supply
  BY DEF calculateDefaultEditPositionUnit, Require, getDefaultPositionUnit, preciseDiv
<1>2. x \in Nat /\ x <= post
  BY <1>0, <1>1
<1>. HIDE DEF airdropped, x
<1>3. x * PreciseUnit \in Nat /\ x * PreciseUnit <= post * PreciseUnit
  BY <1>2, PreciseUnitAssumption
<1>4. u \in Nat /\ u * supply <= x * PreciseUnit
  BY <1>1, <1>3, DivisionBrackets
<1>. QED  BY <1>3, <1>4, PreciseUnitAssumption

\* Two roundings down in a row: a unit stored from a recomputed one claims no
\* more than the balance.
LEMMA ClaimsChain ==
    ASSUME NEW v \in Nat, NEW m \in Nat, NEW n \in Nat, NEW u \in Nat, NEW h \in Nat,
           v * m <= u * PreciseUnit, u * n <= h * PreciseUnit
    PROVE  v * m * n <= PreciseUnit * (h * PreciseUnit)
<1>. DEFINE a == v * m
            b == u * PreciseUnit
            d == u * n
            e == h * PreciseUnit
<1>1. a \in Nat /\ b \in Nat /\ d \in Nat /\ e \in Nat /\ a <= b /\ d <= e
  BY PreciseUnitAssumption
<1>2. b * n = d * PreciseUnit
  BY PreciseUnitAssumption
<1>. HIDE DEF a, b, d, e
<1>3. a * n <= b * n
  BY <1>1
<1>4. d * PreciseUnit <= e * PreciseUnit
  BY <1>1, PreciseUnitAssumption
<1>5. a * n \in Nat /\ b * n \in Nat /\ e * PreciseUnit = PreciseUnit * e
  BY <1>1, PreciseUnitAssumption
<1>6. a * n <= PreciseUnit * e
  BY <1>1, <1>2, <1>3, <1>4, <1>5, PreciseUnitAssumption
<1>. QED  BY <1>6 DEF a, e

\* From s to t the default position of component c was set anew, to a unit that
\* claims no more of it than the set holds.
Recomputed(s, t, c) ==
    /\ Inv(t) /\ Untouched(s, t) /\ t.held = s.held
    /\ t.externalPositionModules = s.externalPositionModules
    /\ \A d \in Tokens \ {c} : t.virtualUnit[d] = s.virtualUnit[d]
    /\ t.virtualUnit[c] * t.positionMultiplier * t.totalSupply
           <= PreciseUnit * (t.held[c] * PreciseUnit)

\* calculateAndEditDefaultPosition: whatever unit the component had, the one it
\* ends with claims no more of it than the set holds.
LEMMA RecomputedPositionEffect ==
    ASSUME NEW s, Inv(s), NEW caller, NEW c \in Tokens, NEW pre \in Nat,
           NEW t \in calculateAndEditDefaultPosition(s, caller, c, s.totalSupply, pre)
    PROVE  Recomputed(s, t, c) /\ privileged(s, caller)
<1>. DEFINE unit == getDefaultPositionRealUnit(s, c)
            newUnits == IF s.held[c] > 0
                        THEN calculateDefaultEditPositionUnit(s.totalSupply, pre, s.held[c], unit)
                        ELSE {0}
<1>1. /\ s.held[c] \in Nat /\ s.totalSupply \in Nat
      /\ s.positionMultiplier \in Nat /\ s.virtualUnit[c] \in Int
      /\ s \in SetTokenState /\ s.positionMultiplier > 0
  BY DEF Inv, SetTokenState
<1>2. unit \in Int
  BY <1>1, ReadBack DEF getDefaultPositionRealUnit
<1>3. unit >= 0 /\ \E u \in newUnits : t \in editDefaultPosition(s, caller, c, u)
  <2>1. t \in IF unit < 0 THEN {} ELSE UNION {editDefaultPosition(s, caller, c, u) : u \in newUnits}
    BY DEF calculateAndEditDefaultPosition
  <2>. HIDE DEF unit, newUnits
  <2>. QED  BY <1>2, <2>1
<1>4. PICK u \in newUnits : t \in editDefaultPosition(s, caller, c, u)
  BY <1>3
<1>5. u \in Nat /\ u * s.totalSupply <= s.held[c] * PreciseUnit
  <2>1. CASE s.held[c] > 0
    BY <1>1, <1>2, <1>3, <1>4, <2>1, RecomputedUnitClaims
  <2>2. CASE s.held[c] = 0
    BY <1>1, <1>4, <2>2, PreciseUnitAssumption
  <2>. QED  BY <1>1, <2>1, <2>2
<1>. HIDE DEF unit, newUnits
<1>6. /\ Inv(t) /\ Untouched(s, t) /\ t.held = s.held
      /\ t.externalPositionModules = s.externalPositionModules
      /\ \A d \in Tokens \ {c} : t.virtualUnit[d] = s.virtualUnit[d]
      /\ t.virtualUnit[c] \in Nat
      /\ t.virtualUnit[c] * s.positionMultiplier <= u * PreciseUnit
      /\ u * PreciseUnit < (t.virtualUnit[c] + 1) * s.positionMultiplier
      /\ privileged(s, caller)
  BY <1>4, <1>5, EditDefaultPositionEffect
<1>7. t.virtualUnit[c] * s.positionMultiplier * s.totalSupply
          <= PreciseUnit * (s.held[c] * PreciseUnit)
  BY <1>1, <1>5, <1>6, ClaimsChain
<1>8. t.virtualUnit[c] * t.positionMultiplier * t.totalSupply
          <= PreciseUnit * (t.held[c] * PreciseUnit)
  BY <1>6, <1>7 DEF Untouched
<1>. QED  BY <1>6, <1>8 DEF Recomputed

\* The stored unit of component c is the largest that claims no more than x
\* tokens spread over the supply, rounded down.
StoredFrom(t, c, x) ==
    LET u == (x * PreciseUnit) \div t.totalSupply
    IN  /\ t.virtualUnit[c] * t.positionMultiplier <= u * PreciseUnit
        /\ u * PreciseUnit < (t.virtualUnit[c] + 1) * t.positionMultiplier

\* What calculateAndEditDefaultPosition stores for a position that was covered:
\* the tokens it tracked, changed by as much as the balance has changed, also
\* when nothing is left and the code skips the computation.
LEMMA RecomputedPositionStores ==
    ASSUME NEW s, Inv(s), NEW caller, NEW c \in Tokens, NEW pre \in Nat,
           NEW t \in calculateAndEditDefaultPosition(s, caller, c, s.totalSupply, pre),
           s.totalSupply > 0, NEW x \in Nat,
           preciseMul(getDefaultPositionRealUnit(s, c), s.totalSupply) <= pre,
           x = s.held[c] - (pre - preciseMul(getDefaultPositionRealUnit(s, c), s.totalSupply))
    PROVE  StoredFrom(t, c, x)
<1>. DEFINE unit == getDefaultPositionRealUnit(s, c)
            tracked == preciseMul(unit, s.totalSupply)
            newUnits == IF s.held[c] > 0
                        THEN calculateDefaultEditPositionUnit(s.totalSupply, pre, s.held[c], unit)
                        ELSE {0}
            new == (x * PreciseUnit) \div s.totalSupply
<1>1. /\ s.held[c] \in Nat /\ s.totalSupply \in Nat
      /\ s.positionMultiplier \in Nat /\ s.virtualUnit[c] \in Int
      /\ s \in SetTokenState /\ s.positionMultiplier > 0
  BY DEF Inv, SetTokenState
<1>2. unit \in Int
  BY <1>1, ReadBack DEF getDefaultPositionRealUnit
<1>3. unit >= 0 /\ \E u \in newUnits : t \in editDefaultPosition(s, caller, c, u)
  <2>1. t \in IF unit < 0 THEN {} ELSE UNION {editDefaultPosition(s, caller, c, u) : u \in newUnits}
    BY DEF calculateAndEditDefaultPosition
  <2>. HIDE DEF unit, newUnits
  <2>. QED  BY <1>2, <2>1
<1>4. PICK u \in newUnits : t \in editDefaultPosition(s, caller, c, u)
  BY <1>3
<1>5. tracked \in Nat
  <2>1. unit \in Nat
    BY <1>2, <1>3
  <2>. HIDE DEF unit
  <2>. QED  BY <1>1, <2>1, PreciseMulRoundsDown
<1>6. u = new
  <2>1. CASE s.held[c] > 0
    <3>1. u \in calculateDefaultEditPositionUnit(s.totalSupply, pre, s.held[c], unit)
      BY <1>4, <2>1
    <3>2. u = ((s.held[c] - (pre - tracked)) * PreciseUnit) \div s.totalSupply
      BY <3>1 DEF calculateDefaultEditPositionUnit, Require, getDefaultPositionUnit, preciseDiv
    <3>. QED  BY <3>2
  <2>2. CASE s.held[c] = 0
    <3>1. u = 0 /\ x = 0
      <4>. HIDE DEF tracked
      <4>1. tracked <= pre /\ x = 0 - (pre - tracked)
        BY <2>2 DEF tracked
      <4>2. x = 0
        BY <1>5, <4>1
      <4>3. u = 0
        BY <1>1, <1>4, <2>2
      <4>. QED  BY <4>2, <4>3
    <3>2. 0 * PreciseUnit = 0 /\ 0 \div s.totalSupply = 0
      BY <1>1, PreciseUnitAssumption
    <3>. QED  BY <3>1, <3>2
  <2>. QED  BY <1>1, <2>1, <2>2
<1>7. new \in Nat
  <2>1. x * PreciseUnit \in Nat
    BY PreciseUnitAssumption
  <2>. QED  BY <1>1, <2>1, DivisionBrackets
<1>. HIDE DEF unit, newUnits, tracked, new
<1>8. /\ Untouched(s, t)
      /\ t.virtualUnit[c] * s.positionMultiplier <= u * PreciseUnit
      /\ u * PreciseUnit < (t.virtualUnit[c] + 1) * s.positionMultiplier
  BY <1>4, <1>6, <1>7, EditDefaultPositionEffect
<1>. QED  BY <1>6, <1>8 DEF StoredFrom, Untouched, new

\* A default unit as it is read: the unrounded claim of one set, rounded down.
LEMMA RealUnitBrackets ==
    ASSUME NEW s, Inv(s), NEW c \in Tokens
    PROVE  LET real == getDefaultPositionRealUnit(s, c)
               claim == s.virtualUnit[c] * s.positionMultiplier
           IN  /\ s.virtualUnit[c] \in Nat /\ s.positionMultiplier \in Nat /\ real \in Nat
               /\ claim \in Nat
               /\ real * PreciseUnit <= claim /\ claim < (real + 1) * PreciseUnit
<1>. DEFINE claim == s.virtualUnit[c] * s.positionMultiplier
<1>1. s \in SetTokenState /\ s.positionMultiplier > 0
  BY DEF Inv
<1>2. s.virtualUnit[c] \in Nat /\ s.positionMultiplier \in Nat
  BY <1>1 DEF Inv, DefaultReadable, SetTokenState
<1>3. claim \in Nat
  BY <1>2
<1>4. getDefaultPositionRealUnit(s, c) = divDown(claim, PreciseUnit)
  BY DEF getDefaultPositionRealUnit, convertVirtualToRealUnit, conservativePreciseMul
<1>5. getDefaultPositionRealUnit(s, c) >= 0
  BY <1>1, <1>2, ReadBack DEF getDefaultPositionRealUnit
<1>. HIDE DEF claim
<1>6. /\ divDown(claim, PreciseUnit) \in Int
      /\ divDown(claim, PreciseUnit) * PreciseUnit <= claim
      /\ claim < (divDown(claim, PreciseUnit) + 1) * PreciseUnit
  BY <1>3, DivDownIsFloor, PreciseUnitAssumption
<1>. QED  BY <1>2, <1>3, <1>4, <1>5, <1>6 DEF claim

\* Issuing: a deposit rounded up on a unit that was rounded down covers the new
\* claims up to one unit for every set issued.
LEMMA IssueCovers ==
    ASSUME NEW claim \in Nat, NEW n \in Nat, NEW q \in Nat, NEW h \in Nat, NEW i \in Nat,
           NEW real \in Nat, NEW paid \in Nat,
           claim < (real + 1) * PreciseUnit,
           real * q <= paid * PreciseUnit,
           claim * n <= PreciseUnit * (h * PreciseUnit + i)
    PROVE  claim * (n + q) <= PreciseUnit * ((h + paid) * PreciseUnit + (i + q))
<1>. DEFINE U == PreciseUnit
<1>0. U \in Nat
  BY PreciseUnitAssumption
<1>. HIDE DEF U
<1>1. claim * q <= ((real + 1) * U) * q
  BY <1>0 DEF U
<1>2. ((real + 1) * U) * q = U * (real * q) + U * q
  BY <1>0
<1>3. U * (real * q) <= U * (paid * U)
  <2>. DEFINE x == real * q
              y == paid * U
  <2>1. x \in Nat /\ y \in Nat /\ x <= y
    BY <1>0 DEF U
  <2>. HIDE DEF x, y
  <2>2. U * x <= U * y
    BY <1>0, <2>1
  <2>. QED  BY <2>2 DEF x, y
<1>4. claim * (n + q) = claim * n + claim * q
  BY <1>0
<1>5. U * ((h + paid) * U + (i + q)) = U * (h * U + i) + U * (paid * U) + U * q
  BY <1>0
<1>6. /\ claim * n \in Nat /\ claim * q \in Nat /\ U * (real * q) \in Nat /\ U * q \in Nat
      /\ U * (paid * U) \in Nat /\ U * (h * U + i) \in Nat
  BY <1>0
<1>7. claim * n <= U * (h * U + i)
  BY DEF U
<1>8. claim * (n + q) <= U * ((h + paid) * U + (i + q))
  BY <1>1, <1>2, <1>3, <1>4, <1>5, <1>6, <1>7
<1>. QED  BY <1>8 DEF U

\* Redeeming: a payout rounded down twice takes no more than the claims burned.
LEMMA RedeemCovers ==
    ASSUME NEW claim \in Nat, NEW n \in Nat, NEW q \in Nat, q <= n, NEW h \in Nat, NEW i \in Nat,
           NEW real \in Nat, NEW paid \in Nat, paid <= h,
           real * PreciseUnit <= claim,
           paid * PreciseUnit <= q * real,
           claim * n <= PreciseUnit * (h * PreciseUnit + i)
    PROVE  claim * (n - q) <= PreciseUnit * ((h - paid) * PreciseUnit + i)
<1>. DEFINE U == PreciseUnit
<1>0. U \in Nat
  BY PreciseUnitAssumption
<1>. HIDE DEF U
<1>1. (real * U) * q <= claim * q
  <2>. DEFINE x == real * U
  <2>1. x \in Nat /\ x <= claim
    BY <1>0 DEF U
  <2>. HIDE DEF x
  <2>2. x * q <= claim * q
    BY <2>1
  <2>. QED  BY <2>2 DEF x
<1>2. (real * U) * q = U * (q * real)
  BY <1>0
<1>3. U * (paid * U) <= U * (q * real)
  <2>. DEFINE x == paid * U
              y == q * real
  <2>1. x \in Nat /\ y \in Nat /\ x <= y
    BY <1>0 DEF U
  <2>. HIDE DEF x, y
  <2>2. U * x <= U * y
    BY <1>0, <2>1
  <2>. QED  BY <2>2 DEF x, y
<1>4. claim * (n - q) = claim * n - claim * q
  BY <1>0
<1>5. U * ((h - paid) * U + i) = U * (h * U + i) - U * (paid * U)
  BY <1>0
<1>6. /\ claim * n \in Nat /\ claim * q \in Nat /\ U * (q * real) \in Nat
      /\ U * (paid * U) \in Nat /\ U * (h * U + i) \in Nat
  BY <1>0
<1>7. claim * n <= U * (h * U + i)
  BY DEF U
<1>8. claim * (n - q) <= U * ((h - paid) * U + i)
  BY <1>1, <1>2, <1>3, <1>4, <1>5, <1>6, <1>7
<1>. QED  BY <1>8 DEF U
-----------------------------------------------------------------------------
(* BasicIssuanceModule. *)

\* ShortfallBounded of any state: what i sets were issued for covers the claims.
Covered(s, i) ==
    \A c \in Tokens :
        s.virtualUnit[c] * s.positionMultiplier * s.totalSupply
            <= PreciseUnit * (s.held[c] * PreciseUnit + i)

\* issue of BasicIssuanceModule: balances grow by the deposit, rounded up, and
\* the supply by the quantity; only a set nobody else holds locked is minted.
LEMMA IssueEffect ==
    ASSUME NEW s, Inv(s), IssuanceModule \in Modules, NEW q \in Nat, NEW t \in issue(s, q)
    PROVE  /\ Inv(t) /\ privileged(s, IssuanceModule)
           /\ t.totalSupply = s.totalSupply + q
           /\ t.virtualUnit = s.virtualUnit /\ t.positionMultiplier = s.positionMultiplier
           /\ t.moduleStates = s.moduleStates /\ t.isLocked = s.isLocked /\ t.locker = s.locker
           /\ \A c \in Tokens :
                  t.held[c] = s.held[c] + IF c \in s.components
                                          THEN preciseMulCeil(getDefaultPositionRealUnit(s, c), q)
                                          ELSE 0
<1>. DEFINE required == getRequiredComponentUnitsForIssue(s, q)
            balances == [c \in Tokens |-> s.held[c] + required[c]]
            funded == [s EXCEPT !.held = balances]
<1>0. s \in SetTokenState /\ s.held \in [Tokens -> Nat] /\ IssuanceModule \in Modules
  BY DEF Inv, SetTokenState
<1>1. \A c \in Tokens : required[c] \in Nat
  BY RealUnitBrackets, PreciseMulCeilRoundsUp DEF getRequiredComponentUnitsForIssue
<1>2. balances \in [Tokens -> Nat]
  BY <1>0, <1>1
<1>3. t \in mint(funded, IssuanceModule, q)
  BY DEF issue
<1>4. \A c \in Tokens : balances[c] = s.held[c] + IF c \in s.components
                                          THEN preciseMulCeil(getDefaultPositionRealUnit(s, c), q)
                                          ELSE 0
  BY DEF getRequiredComponentUnitsForIssue
<1>. HIDE DEF balances
<1>5. /\ Inv(funded) /\ Untouched(s, funded)
      /\ funded.held = balances /\ funded.virtualUnit = s.virtualUnit
  BY <1>2, HeldInv
<1>. HIDE DEF funded
<1>6. /\ privileged(funded, IssuanceModule)
      /\ t = [funded EXCEPT !.totalSupply = funded.totalSupply + q]
  BY <1>3 DEF mint, Require
<1>7. Inv(t)
  BY <1>0, <1>3, <1>5, SupplyAndLockInv
<1>8. /\ t.totalSupply = funded.totalSupply + q
      /\ t.virtualUnit = funded.virtualUnit /\ t.positionMultiplier = funded.positionMultiplier
      /\ t.moduleStates = funded.moduleStates /\ t.isLocked = funded.isLocked
      /\ t.locker = funded.locker /\ t.held = funded.held
  BY <1>5, <1>6 DEF Inv, SetTokenState
<1>9. privileged(s, IssuanceModule)
  BY <1>5, <1>6 DEF Untouched, privileged, onlyModule, whenLockedOnlyLocker
<1>. QED  BY <1>4, <1>5, <1>7, <1>8, <1>9 DEF Untouched

\* redeem: the quantity is burned and its claims, rounded down, are paid out.
LEMMA RedeemEffect ==
    ASSUME NEW s, Inv(s), IssuanceModule \in Modules, NEW q \in Nat, NEW t \in redeem(s, q)
    PROVE  /\ Inv(t) /\ privileged(s, IssuanceModule)
           /\ q <= s.totalSupply /\ t.totalSupply = s.totalSupply - q
           /\ t.virtualUnit = s.virtualUnit /\ t.positionMultiplier = s.positionMultiplier
           /\ t.moduleStates = s.moduleStates /\ t.isLocked = s.isLocked /\ t.locker = s.locker
           /\ \A c \in Tokens :
                  /\ redeemedUnits(s, q)[c] \in Nat /\ redeemedUnits(s, q)[c] <= s.held[c]
                  /\ t.held[c] = s.held[c] - redeemedUnits(s, q)[c]
                  /\ redeemedUnits(s, q)[c] * PreciseUnit <= q * getDefaultPositionRealUnit(s, c)
<1>. DEFINE redeemed == redeemedUnits(s, q)
<1>0. s \in SetTokenState /\ s.held \in [Tokens -> Nat] /\ IssuanceModule \in Modules
  BY DEF Inv, SetTokenState
<1>1. \A c \in Tokens : /\ redeemed[c] \in Nat
                        /\ redeemed[c] * PreciseUnit <= q * getDefaultPositionRealUnit(s, c)
  <2>. SUFFICES ASSUME NEW c \in Tokens
                PROVE  /\ redeemed[c] \in Nat
                       /\ redeemed[c] * PreciseUnit <= q * getDefaultPositionRealUnit(s, c)
    OBVIOUS
  <2>. DEFINE real == getDefaultPositionRealUnit(s, c)
  <2>1. real \in Nat
    BY RealUnitBrackets
  <2>2. redeemed[c] = IF c \in s.components THEN preciseMul(q, real) ELSE 0
    BY DEF redeemedUnits
  <2>. HIDE DEF real, redeemed
  <2>3. q * real \in Nat /\ 0 * PreciseUnit = 0
    BY <2>1, PreciseUnitAssumption
  <2>4. preciseMul(q, real) \in Nat /\ preciseMul(q, real) * PreciseUnit <= q * real
    BY <2>1, PreciseMulRoundsDown
  <2>5. redeemed[c] \in Nat /\ redeemed[c] * PreciseUnit <= q * real
    BY <2>2, <2>3, <2>4
  <2>. QED  BY <2>5 DEF real
<1>2. PICK b : /\ b \in burn(s, IssuanceModule, q)
               /\ t = [b EXCEPT !.held = [c \in Tokens |-> b.held[c] - redeemed[c]]]
               /\ \A c \in Tokens : redeemed[c] <= s.held[c]
  BY DEF redeem
<1>. HIDE DEF redeemed
<1>3. /\ privileged(s, IssuanceModule) /\ q <= s.totalSupply
      /\ b = [s EXCEPT !.totalSupply = s.totalSupply - q]
  BY <1>2 DEF burn, Require
<1>4. Inv(b)
  BY <1>0, <1>2, SupplyAndLockInv
<1>5. /\ b.totalSupply = s.totalSupply - q
      /\ b.virtualUnit = s.virtualUnit /\ b.positionMultiplier = s.positionMultiplier
      /\ b.moduleStates = s.moduleStates /\ b.isLocked = s.isLocked
      /\ b.locker = s.locker /\ b.held = s.held
  BY <1>0, <1>3 DEF SetTokenState
<1>. DEFINE balances == [c \in Tokens |-> b.held[c] - redeemed[c]]
<1>6. balances \in [Tokens -> Nat]
  BY <1>0, <1>1, <1>2, <1>5
<1>7. Inv(t) /\ Untouched(b, t) /\ t.held = balances /\ t.virtualUnit = b.virtualUnit
  <2>. HIDE DEF balances
  <2>1. t = [b EXCEPT !.held = balances]
    BY <1>2 DEF balances
  <2>. QED  BY <1>4, <1>6, <2>1, HeldInv
<1>8. \A c \in Tokens : t.held[c] = s.held[c] - redeemed[c]
  BY <1>5, <1>7
<1>. QED  BY <1>1, <1>2, <1>3, <1>5, <1>7, <1>8 DEF Untouched, redeemed
=============================================================================

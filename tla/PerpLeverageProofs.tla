------------------------- MODULE PerpLeverageProofs -------------------------
(***************************************************************************)
(* Proofs about PerpLeverage, for every set of markets, every limit on the *)
(* number of positions and every quantity, fee and price: the list of      *)
(* positions that issuing and redeeming scale leaves out no more than dust.*)
(***************************************************************************)
EXTENDS PerpLeverage, WellFoundedInduction, NaturalsInduction, TLAPS

-----------------------------------------------------------------------------
(* Induction over numbers, and the loops. *)

\* A set of numbers has a least one.
LEMMA LeastNumber ==
    ASSUME NEW T \in SUBSET Nat, T # {}
    PROVE  \E n \in T : \A m \in T : n <= m
<1>. DEFINE Less == {pair \in Nat \X Nat : pair[1] < pair[2]}
<1>1. OpToRel(<, Nat) = Less
  BY DEF OpToRel
<1>2. IsWellFoundedOn(Less, Nat)
  BY <1>1, NatLessThanWellFounded, Zenon
<1>3. \E x \in T : \A y \in T : ~(<<y, x>> \in Less)
  BY <1>2, WFMin, Zenon
<1>4. PICK x \in T : \A y \in T : ~(<<y, x>> \in Less)
  BY <1>3
<1>5. ASSUME NEW y \in T PROVE x <= y
  <2>1. x \in Nat /\ y \in Nat /\ ~(<<y, x>> \in Less)
    BY <1>4
  <2>2. ~(y < x)
    BY <2>1
  <2>. QED  BY <2>1, <2>2
<1>. QED  BY <1>5

\* A set that has 0 and the successor of every number it has has them all.
LEMMA NumberInduction ==
    ASSUME NEW T, 0 \in T, \A n \in Nat : n \in T => n + 1 \in T
    PROVE  Nat \subseteq T
<1>. SUFFICES ASSUME Nat \ T # {} PROVE FALSE
  OBVIOUS
<1>1. PICK n \in Nat \ T : \A m \in Nat \ T : n <= m
  BY LeastNumber
<1>2. n # 0 /\ n - 1 \in Nat
  BY <1>1
<1>. QED  BY <1>1, <1>2

\* The passes of syncPositionList over a list of n markets.
Synced(w, n) ==
    CHOOSE g : g = [i \in 0 .. n |-> IF i = 0 THEN {w}
                                     ELSE UNION {dropIfClosed(x, w.positions[i]) : x \in g[i - 1]}]

\* The loop of syncPositionList, pass by pass.
LEMMA SyncUnfolds ==
    ASSUME NEW w, NEW len \in Nat
    PROVE  /\ Synced(w, len)[0] = {w}
           /\ \A i \in 1 .. len : Synced(w, len)[i]
                = UNION {dropIfClosed(x, w.positions[i]) : x \in Synced(w, len)[i - 1]}
<1>. DEFINE After(worlds, i) == UNION {dropIfClosed(x, w.positions[i]) : x \in worlds}
            Body(g, i) == IF i = 0 THEN {w} ELSE After(g[i - 1], i)
            T == {k \in Nat : \E g : g = [i \in 0 .. k |-> Body(g, i)]}
<1>. HIDE DEF After
<1>1. 0 \in T
  <2>. DEFINE g == [i \in 0 .. 0 |-> {w}]
  <2>1. g = [i \in 0 .. 0 |-> Body(g, i)]
    OBVIOUS
  <2>. QED  BY <2>1
<1>2. ASSUME NEW k \in Nat, k \in T PROVE k + 1 \in T
  <2>1. PICK g : g = [i \in 0 .. k |-> Body(g, i)]
    BY <1>2
  <2>. DEFINE h == [i \in 0 .. (k + 1) |-> IF i <= k THEN g[i] ELSE After(g[k], k + 1)]
  <2>2. ASSUME NEW i \in 0 .. (k + 1) PROVE h[i] = Body(h, i)
    <3>1. i # 0 => h[i - 1] = g[i - 1]
      OBVIOUS
    <3>2. CASE i <= k
      <4>1. g[i] = Body(g, i)
        <5>. HIDE DEF Body
        <5>. QED  BY <2>1, <3>2
      <4>. QED  BY <3>1, <3>2, <4>1
    <3>3. CASE ~(i <= k)
      <4>1. i = k + 1 /\ i - 1 = k /\ i # 0
        BY <3>3
      <4>. QED  BY <3>1, <3>3, <4>1
    <3>. QED  BY <3>2, <3>3
  <2>3. h = [i \in 0 .. (k + 1) |-> h[i]]
    OBVIOUS
  <2>. HIDE DEF h
  <2>4. h = [i \in 0 .. (k + 1) |-> Body(h, i)]
    BY <2>2, <2>3
  <2>. QED  BY <2>4
<1>. HIDE DEF T
<1>3. Nat \subseteq T
  BY <1>1, <1>2, NumberInduction
<1>. DEFINE reached == Synced(w, len)
<1>4. \E g : g = [i \in 0 .. len |-> Body(g, i)]
  BY <1>3 DEF T
<1>5. reached = CHOOSE g : g = [i \in 0 .. len |-> Body(g, i)]
  BY DEF Synced, After
<1>6. \A i \in 0 .. len : reached[i] = Body(reached, i)
  <2>. HIDE DEF reached, Body
  <2>1. reached = [i \in 0 .. len |-> Body(reached, i)]
    BY <1>4, <1>5
  <2>. QED  BY <2>1
<1>. HIDE DEF reached
<1>7. reached[0] = {w} /\ \A i \in 1 .. len : reached[i] = After(reached[i - 1], i)
  BY <1>6
<1>. QED  BY <1>7 DEF After, reached

\* syncPositionList is what its last pass leaves.
LEMMA SyncIsLastPass ==
    ASSUME NEW w
    PROVE  syncPositionList(w) = Synced(w, Len(w.positions))[Len(w.positions)]
BY DEF syncPositionList, Synced

\* The share of the account that the trades of an issue or a redemption start with.
accountShare(w, quantity) ==
    [world |-> w, value |-> preciseMulInt(calculatePartialAccountValuePositionUnit(w), quantity)]

\* The passes of tradeShares over a list of n markets.
Traded(w, quantity, isIssue, isSimulation, n) ==
    CHOOSE g : g = [i \in 0 .. n |-> IF i = 0 THEN {accountShare(w, quantity)}
                                     ELSE UNION {tradeShare(x, w.positions[i], quantity, isIssue, isSimulation) : x \in g[i - 1]}]

\* The loop of tradeShares, pass by pass.
LEMMA TradesUnfold ==
    ASSUME NEW w, NEW quantity, NEW isIssue, NEW isSimulation, NEW len \in Nat
    PROVE  /\ Traded(w, quantity, isIssue, isSimulation, len)[0] = {accountShare(w, quantity)}
           /\ \A i \in 1 .. len : Traded(w, quantity, isIssue, isSimulation, len)[i]
                = UNION {tradeShare(x, w.positions[i], quantity, isIssue, isSimulation) : x \in Traded(w, quantity, isIssue, isSimulation, len)[i - 1]}
<1>. DEFINE After(worlds, i) == UNION {tradeShare(x, w.positions[i], quantity, isIssue, isSimulation) : x \in worlds}
            Body(g, i) == IF i = 0 THEN {accountShare(w, quantity)} ELSE After(g[i - 1], i)
            T == {k \in Nat : \E g : g = [i \in 0 .. k |-> Body(g, i)]}
<1>. HIDE DEF After
<1>1. 0 \in T
  <2>. DEFINE g == [i \in 0 .. 0 |-> {accountShare(w, quantity)}]
  <2>1. g = [i \in 0 .. 0 |-> Body(g, i)]
    OBVIOUS
  <2>. QED  BY <2>1
<1>2. ASSUME NEW k \in Nat, k \in T PROVE k + 1 \in T
  <2>1. PICK g : g = [i \in 0 .. k |-> Body(g, i)]
    BY <1>2
  <2>. DEFINE h == [i \in 0 .. (k + 1) |-> IF i <= k THEN g[i] ELSE After(g[k], k + 1)]
  <2>2. ASSUME NEW i \in 0 .. (k + 1) PROVE h[i] = Body(h, i)
    <3>1. i # 0 => h[i - 1] = g[i - 1]
      OBVIOUS
    <3>2. CASE i <= k
      <4>1. g[i] = Body(g, i)
        <5>. HIDE DEF Body
        <5>. QED  BY <2>1, <3>2
      <4>. QED  BY <3>1, <3>2, <4>1
    <3>3. CASE ~(i <= k)
      <4>1. i = k + 1 /\ i - 1 = k /\ i # 0
        BY <3>3
      <4>. QED  BY <3>1, <3>3, <4>1
    <3>. QED  BY <3>2, <3>3
  <2>3. h = [i \in 0 .. (k + 1) |-> h[i]]
    OBVIOUS
  <2>. HIDE DEF h
  <2>4. h = [i \in 0 .. (k + 1) |-> Body(h, i)]
    BY <2>2, <2>3
  <2>. QED  BY <2>4
<1>. HIDE DEF T
<1>3. Nat \subseteq T
  BY <1>1, <1>2, NumberInduction
<1>. DEFINE reached == Traded(w, quantity, isIssue, isSimulation, len)
<1>4. \E g : g = [i \in 0 .. len |-> Body(g, i)]
  BY <1>3 DEF T
<1>5. reached = CHOOSE g : g = [i \in 0 .. len |-> Body(g, i)]
  BY DEF Traded, After
<1>6. \A i \in 0 .. len : reached[i] = Body(reached, i)
  <2>. HIDE DEF reached, Body
  <2>1. reached = [i \in 0 .. len |-> Body(reached, i)]
    BY <1>4, <1>5
  <2>. QED  BY <2>1
<1>. HIDE DEF reached
<1>7. reached[0] = {accountShare(w, quantity)} /\ \A i \in 1 .. len : reached[i] = After(reached[i - 1], i)
  BY <1>6
<1>. QED  BY <1>7 DEF After, reached

\* tradeShares is what its last pass leaves.
LEMMA TradesAreLastPass ==
    ASSUME NEW w, NEW quantity, NEW isIssue, NEW isSimulation
    PROVE  tradeShares(w, quantity, isIssue, isSimulation)
            = Traded(w, quantity, isIssue, isSimulation, Len(w.positions))[Len(w.positions)]
BY DEF tradeShares, Traded, accountShare

\* The calls of n hooks by callModulePreHooks.
Called(w, quantity, isIssue, n) ==
    CHOOSE g : g = [i \in 0 .. n |-> IF i = 0 THEN {w}
                                     ELSE UNION {preHook(x, quantity, isIssue) : x \in g[i - 1]}]

\* The loop of callModulePreHooks, call by call.
LEMMA HooksUnfold ==
    ASSUME NEW w, NEW quantity, NEW isIssue, NEW len \in Nat
    PROVE  /\ Called(w, quantity, isIssue, len)[0] = {w}
           /\ \A i \in 1 .. len : Called(w, quantity, isIssue, len)[i]
                = UNION {preHook(x, quantity, isIssue) : x \in Called(w, quantity, isIssue, len)[i - 1]}
<1>. DEFINE After(worlds, i) == UNION {preHook(x, quantity, isIssue) : x \in worlds}
            Body(g, i) == IF i = 0 THEN {w} ELSE After(g[i - 1], i)
            T == {k \in Nat : \E g : g = [i \in 0 .. k |-> Body(g, i)]}
<1>. HIDE DEF After
<1>1. 0 \in T
  <2>. DEFINE g == [i \in 0 .. 0 |-> {w}]
  <2>1. g = [i \in 0 .. 0 |-> Body(g, i)]
    OBVIOUS
  <2>. QED  BY <2>1
<1>2. ASSUME NEW k \in Nat, k \in T PROVE k + 1 \in T
  <2>1. PICK g : g = [i \in 0 .. k |-> Body(g, i)]
    BY <1>2
  <2>. DEFINE h == [i \in 0 .. (k + 1) |-> IF i <= k THEN g[i] ELSE After(g[k], k + 1)]
  <2>2. ASSUME NEW i \in 0 .. (k + 1) PROVE h[i] = Body(h, i)
    <3>1. i # 0 => h[i - 1] = g[i - 1]
      OBVIOUS
    <3>2. CASE i <= k
      <4>1. g[i] = Body(g, i)
        <5>. HIDE DEF Body
        <5>. QED  BY <2>1, <3>2
      <4>. QED  BY <3>1, <3>2, <4>1
    <3>3. CASE ~(i <= k)
      <4>1. i = k + 1 /\ i - 1 = k /\ i # 0
        BY <3>3
      <4>. QED  BY <3>1, <3>3, <4>1
    <3>. QED  BY <3>2, <3>3
  <2>3. h = [i \in 0 .. (k + 1) |-> h[i]]
    OBVIOUS
  <2>. HIDE DEF h
  <2>4. h = [i \in 0 .. (k + 1) |-> Body(h, i)]
    BY <2>2, <2>3
  <2>. QED  BY <2>4
<1>. HIDE DEF T
<1>3. Nat \subseteq T
  BY <1>1, <1>2, NumberInduction
<1>. DEFINE reached == Called(w, quantity, isIssue, len)
<1>4. \E g : g = [i \in 0 .. len |-> Body(g, i)]
  BY <1>3 DEF T
<1>5. reached = CHOOSE g : g = [i \in 0 .. len |-> Body(g, i)]
  BY DEF Called, After
<1>6. \A i \in 0 .. len : reached[i] = Body(reached, i)
  <2>. HIDE DEF reached, Body
  <2>1. reached = [i \in 0 .. len |-> Body(reached, i)]
    BY <1>4, <1>5
  <2>. QED  BY <2>1
<1>. HIDE DEF reached
<1>7. reached[0] = {w} /\ \A i \in 1 .. len : reached[i] = After(reached[i - 1], i)
  BY <1>6
<1>. QED  BY <1>7 DEF After, reached

\* callModulePreHooks is what its last call leaves.
LEMMA HooksAreLastPass ==
    ASSUME NEW d, NEW w, NEW quantity, NEW isIssue
    PROVE  callModulePreHooks(d, w, quantity, isIssue)
            = Called(w, quantity, isIssue, Len(d.moduleIssuanceHooks))[Len(d.moduleIssuanceHooks)]
BY DEF callModulePreHooks, Called

\* The calls of n hooks by calculateAdjustments.
Adjusted(w, quantity, isIssue, n) ==
    CHOOSE g : g = [i \in 0 .. n |-> IF i = 0 THEN {[world |-> w, equity |-> 0]}
                                     ELSE UNION {adjust(x, quantity, isIssue) : x \in g[i - 1]}]

\* The loop of calculateAdjustments, call by call.
LEMMA AdjustmentsUnfold ==
    ASSUME NEW w, NEW quantity, NEW isIssue, NEW len \in Nat
    PROVE  /\ Adjusted(w, quantity, isIssue, len)[0] = {[world |-> w, equity |-> 0]}
           /\ \A i \in 1 .. len : Adjusted(w, quantity, isIssue, len)[i]
                = UNION {adjust(x, quantity, isIssue) : x \in Adjusted(w, quantity, isIssue, len)[i - 1]}
<1>. DEFINE After(worlds, i) == UNION {adjust(x, quantity, isIssue) : x \in worlds}
            Body(g, i) == IF i = 0 THEN {[world |-> w, equity |-> 0]} ELSE After(g[i - 1], i)
            T == {k \in Nat : \E g : g = [i \in 0 .. k |-> Body(g, i)]}
<1>. HIDE DEF After
<1>1. 0 \in T
  <2>. DEFINE g == [i \in 0 .. 0 |-> {[world |-> w, equity |-> 0]}]
  <2>1. g = [i \in 0 .. 0 |-> Body(g, i)]
    OBVIOUS
  <2>. QED  BY <2>1
<1>2. ASSUME NEW k \in Nat, k \in T PROVE k + 1 \in T
  <2>1. PICK g : g = [i \in 0 .. k |-> Body(g, i)]
    BY <1>2
  <2>. DEFINE h == [i \in 0 .. (k + 1) |-> IF i <= k THEN g[i] ELSE After(g[k], k + 1)]
  <2>2. ASSUME NEW i \in 0 .. (k + 1) PROVE h[i] = Body(h, i)
    <3>1. i # 0 => h[i - 1] = g[i - 1]
      OBVIOUS
    <3>2. CASE i <= k
      <4>1. g[i] = Body(g, i)
        <5>. HIDE DEF Body
        <5>. QED  BY <2>1, <3>2
      <4>. QED  BY <3>1, <3>2, <4>1
    <3>3. CASE ~(i <= k)
      <4>1. i = k + 1 /\ i - 1 = k /\ i # 0
        BY <3>3
      <4>. QED  BY <3>1, <3>3, <4>1
    <3>. QED  BY <3>2, <3>3
  <2>3. h = [i \in 0 .. (k + 1) |-> h[i]]
    OBVIOUS
  <2>. HIDE DEF h
  <2>4. h = [i \in 0 .. (k + 1) |-> Body(h, i)]
    BY <2>2, <2>3
  <2>. QED  BY <2>4
<1>. HIDE DEF T
<1>3. Nat \subseteq T
  BY <1>1, <1>2, NumberInduction
<1>. DEFINE reached == Adjusted(w, quantity, isIssue, len)
<1>4. \E g : g = [i \in 0 .. len |-> Body(g, i)]
  BY <1>3 DEF T
<1>5. reached = CHOOSE g : g = [i \in 0 .. len |-> Body(g, i)]
  BY DEF Adjusted, After
<1>6. \A i \in 0 .. len : reached[i] = Body(reached, i)
  <2>. HIDE DEF reached, Body
  <2>1. reached = [i \in 0 .. len |-> Body(reached, i)]
    BY <1>4, <1>5
  <2>. QED  BY <2>1
<1>. HIDE DEF reached
<1>7. reached[0] = {[world |-> w, equity |-> 0]} /\ \A i \in 1 .. len : reached[i] = After(reached[i - 1], i)
  BY <1>6
<1>. QED  BY <1>7 DEF After, reached

\* calculateAdjustments is what its last call leaves.
LEMMA AdjustmentsAreLastPass ==
    ASSUME NEW d, NEW w, NEW quantity, NEW isIssue
    PROVE  calculateAdjustments(d, w, quantity, isIssue)
            = Adjusted(w, quantity, isIssue, Len(d.moduleIssuanceHooks))[Len(d.moduleIssuanceHooks)]
BY DEF calculateAdjustments, Adjusted
-----------------------------------------------------------------------------
(* Arrays. *)

\* An array holds what stands at one of its places, and indexOf finds the place.
LEMMA IndexOfFinds ==
    ASSUME NEW S, NEW A \in Seq(S), NEW a
    PROVE  /\ contains(A, a) <=> \E i \in 1 .. Len(A) : A[i] = a
           /\ contains(A, a) => indexOf(A, a) \in 1 .. Len(A) /\ A[indexOf(A, a)] = a
<1>. DEFINE First(i) == A[i] = a /\ \A j \in 1 .. (i - 1) : A[j] # a
<1>1. CASE ~\E i \in 1 .. Len(A) : A[i] = a
  BY <1>1 DEF indexOf, contains
<1>2. CASE \E i \in 1 .. Len(A) : A[i] = a
  <2>. DEFINE T == {i \in 1 .. Len(A) : A[i] = a}
  <2>1. T \in SUBSET Nat /\ T # {}
    BY <1>2
  <2>2. PICK i \in T : \A j \in T : i <= j
    <3>. HIDE DEF T
    <3>. QED  BY <2>1, LeastNumber
  <2>3. i \in 1 .. Len(A) /\ First(i)
    BY <2>2
  <2>4. indexOf(A, a) = CHOOSE k \in 1 .. Len(A) : First(k)
    BY <1>2 DEF indexOf
  <2>5. indexOf(A, a) \in 1 .. Len(A) /\ First(indexOf(A, a))
    <3>. HIDE DEF First
    <3>. QED  BY <2>3, <2>4
  <2>. QED  BY <1>2, <2>5 DEF contains
<1>. QED  BY <1>1, <1>2

\* What removeStorage leaves: one entry less, the last one in the hole.
LEMMA RemoveStorageResult ==
    ASSUME NEW S, NEW A \in Seq(S), NEW a, NEW B \in removeStorage(A, a)
    PROVE  LET n == Len(A)
               k == indexOf(A, a)
           IN  /\ n \in Nat /\ k \in 1 .. n /\ A[k] = a
               /\ B \in Seq(S) /\ Len(B) = n - 1
               /\ \A i \in 1 .. (n - 1) : B[i] = IF i = k THEN A[n] ELSE A[i]
<1>. DEFINE n == Len(A)
            k == indexOf(A, a)
<1>1. contains(A, a)
  BY DEF removeStorage, Require, contains
<1>2. k \in 1 .. n /\ A[k] = a
  BY <1>1, IndexOfFinds
<1>3. B = [i \in 1 .. (n - 1) |-> IF i = k THEN A[n] ELSE A[i]]
  BY DEF removeStorage, Require
<1>4. n \in Nat /\ \A i \in 1 .. n : A[i] \in S
  OBVIOUS
<1>. HIDE DEF n, k
<1>5. B \in Seq(S) /\ Len(B) = n - 1
  BY <1>2, <1>3, <1>4
<1>. QED  BY <1>2, <1>3, <1>4, <1>5 DEF n, k

\* A list of positions: markets, none of them twice.
Listing(list) ==
    /\ list \in Seq(BaseTokens)
    /\ \A i, j \in 1 .. Len(list) : list[i] = list[j] => i = j

\* removeStorage takes one market out of a list and no other.
LEMMA RemovalOfOne ==
    ASSUME NEW list, Listing(list), NEW t, NEW left \in removeStorage(list, t)
    PROVE  /\ Listing(left) /\ Len(left) = Len(list) - 1 /\ contains(list, t)
           /\ \A u : contains(left, u) <=> contains(list, u) /\ u # t
<1>. DEFINE n == Len(list)
            k == indexOf(list, t)
<1>1. list \in Seq(BaseTokens) /\ \A i, j \in 1 .. n : list[i] = list[j] => i = j
  BY DEF Listing
<1>2. /\ n \in Nat /\ k \in 1 .. n /\ list[k] = t
      /\ left \in Seq(BaseTokens) /\ Len(left) = n - 1
      /\ \A i \in 1 .. (n - 1) : left[i] = IF i = k THEN list[n] ELSE list[i]
  BY <1>1, RemoveStorageResult
<1>. HIDE DEF k
<1>3. Listing(left)
  <2>. SUFFICES ASSUME NEW i \in 1 .. (n - 1), NEW j \in 1 .. (n - 1), left[i] = left[j] PROVE i = j
    BY <1>2 DEF Listing
  <2>1. i \in 1 .. n /\ j \in 1 .. n /\ n \in 1 .. n /\ i # n /\ j # n
    BY <1>2
  <2>2. CASE i = k
    BY <1>1, <1>2, <2>1, <2>2
  <2>3. CASE i # k
    BY <1>1, <1>2, <2>1, <2>3
  <2>. QED  BY <2>2, <2>3
<1>4. ASSUME NEW u PROVE contains(left, u) <=> contains(list, u) /\ u # t
  <2>1. contains(left, u) <=> \E i \in 1 .. (n - 1) : left[i] = u
    BY <1>2, IndexOfFinds
  <2>2. contains(list, u) <=> \E i \in 1 .. n : list[i] = u
    BY <1>1, IndexOfFinds
  <2>. HIDE DEF n
  <2>3. ASSUME NEW i \in 1 .. (n - 1), left[i] = u PROVE contains(list, u) /\ u # t
    <3>1. CASE i = k
      BY <1>1, <1>2, <2>2, <2>3, <3>1
    <3>2. CASE i # k
      BY <1>1, <1>2, <2>2, <2>3, <3>2
    <3>. QED  BY <3>1, <3>2
  <2>4. ASSUME NEW i \in 1 .. n, list[i] = u, u # t PROVE contains(left, u)
    <3>1. CASE i = n
      BY <1>1, <1>2, <2>1, <2>4, <3>1
    <3>2. CASE i # n
      BY <1>1, <1>2, <2>1, <2>4, <3>2
    <3>. QED  BY <3>1, <3>2
  <2>. QED  BY <2>1, <2>2, <2>3, <2>4
<1>5. contains(list, t)
  BY <1>1, <1>2, IndexOfFinds
<1>. QED  BY <1>2, <1>3, <1>4, <1>5

\* A market pushed to a list that does not have it.
LEMMA PushOfOne ==
    ASSUME NEW list, Listing(list), NEW t \in BaseTokens, ~contains(list, t)
    PROVE  LET longer == Append(list, t)
           IN  /\ Listing(longer) /\ Len(longer) = Len(list) + 1
               /\ \A u : contains(longer, u) <=> contains(list, u) \/ u = t
<1>. DEFINE n == Len(list)
            longer == Append(list, t)
<1>1. list \in Seq(BaseTokens) /\ n \in Nat /\ \A i, j \in 1 .. n : list[i] = list[j] => i = j
  BY DEF Listing
<1>2. /\ longer \in Seq(BaseTokens) /\ Len(longer) = n + 1 /\ longer[n + 1] = t
      /\ \A i \in 1 .. n : longer[i] = list[i]
  BY <1>1
<1>. HIDE DEF longer
<1>3. \A u : contains(list, u) <=> \E i \in 1 .. n : list[i] = u
  BY <1>1, IndexOfFinds
<1>4. \A u : contains(longer, u) <=> \E i \in 1 .. (n + 1) : longer[i] = u
  BY <1>2, IndexOfFinds
<1>. HIDE DEF n
<1>5. Listing(longer)
  <2>. SUFFICES ASSUME NEW i \in 1 .. (n + 1), NEW j \in 1 .. (n + 1), longer[i] = longer[j] PROVE i = j
    BY <1>2 DEF Listing
  <2>1. \A m \in 1 .. n : longer[m] # t
    BY <1>2, <1>3
  <2>2. (i \in 1 .. n \/ i = n + 1) /\ (j \in 1 .. n \/ j = n + 1)
    BY <1>1
  <2>. QED  BY <1>1, <1>2, <2>1, <2>2
<1>6. ASSUME NEW u PROVE contains(longer, u) <=> contains(list, u) \/ u = t
  <2>1. ASSUME NEW i \in 1 .. (n + 1), longer[i] = u PROVE contains(list, u) \/ u = t
    <3>1. i \in 1 .. n \/ i = n + 1
      BY <1>1
    <3>. QED  BY <1>2, <1>3, <2>1, <3>1
  <2>2. ASSUME NEW i \in 1 .. n, list[i] = u PROVE contains(longer, u)
    <3>1. i \in 1 .. (n + 1) /\ longer[i] = u
      BY <1>1, <1>2, <2>2
    <3>. QED  BY <1>4, <3>1
  <2>3. contains(longer, t)
    BY <1>1, <1>2, <1>4
  <2>. QED  BY <1>3, <1>4, <2>1, <2>2, <2>3
<1>. QED  BY <1>2, <1>5, <1>6 DEF longer, n
-----------------------------------------------------------------------------
(* Arithmetic. *)

\* Division of numbers, with its remainder.
LEMMA Quotient ==
    ASSUME NEW a \in Nat, NEW b \in Nat \ {0}
    PROVE  /\ a \div b \in Nat /\ a % b \in 0 .. (b - 1)
           /\ a = b * (a \div b) + (a % b)
OBVIOUS

\* Products and quotients of signed numbers are signed numbers.
LEMMA SignedResults ==
    ASSUME NEW a \in Int, NEW b \in Int
    PROVE  /\ preciseMulInt(a, b) \in Int
           /\ b > 0 => preciseDivInt(a, b) \in Int
<1>1. ASSUME NEW x \in Int, NEW y \in Nat \ {0} PROVE truncDiv(x, y) \in Int
  <2>1. abs(x) \in Nat /\ abs(y) = y
    BY DEF abs
  <2>2. abs(x) \div abs(y) \in Nat
    BY <2>1, Quotient
  <2>. QED  BY <2>2 DEF truncDiv
<1>2. a * b \in Int /\ a * PreciseUnit \in Int
  BY PreciseUnitAssumption
<1>. QED  BY <1>1, <1>2, PreciseUnitAssumption DEF preciseMulInt, preciseDivInt

\* A balance whose unit rounds to at most one is less than two units of the supply.
LEMMA Dust ==
    ASSUME NEW balance \in Int, NEW total \in Nat \ {0},
           ~(preciseDivInt(balance, total) > 1), ~(preciseDivInt(balance, total) < -1)
    PROVE  abs(balance) * PreciseUnit < 2 * total
<1>. DEFINE x == balance * PreciseUnit
            y == abs(balance) * PreciseUnit
            q == y \div total
            r == y % total
<1>1. abs(balance) \in Nat /\ (abs(balance) = balance \/ abs(balance) = -balance)
  BY DEF abs
<1>2. x \in Int /\ y \in Nat /\ (y = x \/ y = -x)
  BY <1>1, PreciseUnitAssumption
<1>3. abs(x) = y /\ abs(total) = total
  <2>. HIDE DEF x, y
  <2>. QED  BY <1>2 DEF abs
<1>4. q \in Nat /\ r \in 0 .. (total - 1) /\ y = total * q + r
  <2>. HIDE DEF y
  <2>. QED  BY <1>2, Quotient
<1>5. preciseDivInt(balance, total) = q \/ preciseDivInt(balance, total) = -q
  BY <1>3 DEF preciseDivInt, truncDiv
<1>. HIDE DEF x, y, q, r
<1>6. q = 0 \/ q = 1
  BY <1>4, <1>5
<1>7. y < 2 * total
  BY <1>4, <1>6
<1>. QED  BY <1>7 DEF y

\* A fraction of a quantity is at most the quantity.
LEMMA Fraction ==
    ASSUME NEW rate \in 0 .. PreciseUnit, NEW quantity \in Nat
    PROVE  preciseMul(rate, quantity) \in 0 .. quantity /\ preciseMul(quantity, rate) \in 0 .. quantity
<1>. DEFINE x == rate * quantity
            q == x \div PreciseUnit
            r == x % PreciseUnit
<1>1. PreciseUnit \in Nat \ {0} /\ rate \in Nat /\ rate <= PreciseUnit
  BY PreciseUnitAssumption
<1>2. x \in Nat /\ quantity * rate = x
  BY <1>1
<1>3. x <= PreciseUnit * quantity
  <2>1. (PreciseUnit - rate) * quantity >= 0
    BY <1>1
  <2>2. (PreciseUnit - rate) * quantity = PreciseUnit * quantity - rate * quantity
    BY <1>1
  <2>3. PreciseUnit * quantity \in Nat /\ rate * quantity \in Nat
    BY <1>1
  <2>. QED  BY <2>1, <2>2, <2>3
<1>4. q \in Nat /\ r \in 0 .. (PreciseUnit - 1) /\ x = PreciseUnit * q + r
  <2>. HIDE DEF x
  <2>. QED  BY <1>1, <1>2, Quotient
<1>. HIDE DEF x, q, r
<1>5. ASSUME q > quantity PROVE FALSE
  <2>1. PreciseUnit * (q - quantity) >= PreciseUnit
    <3>1. q - quantity \in Nat /\ q - quantity >= 1
      BY <1>4, <1>5
    <3>2. \A d \in Nat : d >= 1 => PreciseUnit * d >= PreciseUnit
      BY <1>1
    <3>. QED  BY <3>1, <3>2
  <2>2. PreciseUnit * (q - quantity) = PreciseUnit * q - PreciseUnit * quantity
    BY <1>1, <1>4
  <2>3. PreciseUnit * q \in Int /\ PreciseUnit * quantity \in Int
    BY <1>1, <1>4
  <2>. QED  BY <1>1, <1>3, <1>4, <2>1, <2>2, <2>3
<1>6. q \in 0 .. quantity
  BY <1>4, <1>5
<1>. QED  BY <1>2, <1>6 DEF preciseMul, x, q
-----------------------------------------------------------------------------
(* What a call leaves alone. *)

\* The open positions of an account are integers.
Account(p) == "base" \in DOMAIN p /\ p.base \in [BaseTokens -> Int]

\* A set with a supply, its account and its list.
World(w) ==
    /\ {"set", "perp", "positions"} \subseteq DOMAIN w
    /\ "totalSupply" \in DOMAIN w.set /\ w.set.totalSupply \in Nat
    /\ Account(w.perp)
    /\ Listing(w.positions)

SameSupply(s, t) == DOMAIN t = DOMAIN s /\ t.totalSupply = s.totalSupply

SameBase(p, q) == DOMAIN q = DOMAIN p /\ q.base = p.base

\* Supply, open positions and list are left alone.
Kept(w, x) ==
    /\ DOMAIN x = DOMAIN w
    /\ SameSupply(w.set, x.set) /\ SameBase(w.perp, x.perp) /\ x.positions = w.positions

\* One call after another.
LEMMA KeptTwice ==
    ASSUME NEW w, NEW x, NEW y, Kept(w, x), Kept(x, y)
    PROVE  Kept(w, y)
BY DEF Kept, SameSupply, SameBase

LEMMA KeptIsWorld ==
    ASSUME NEW w, NEW x, World(w), Kept(w, x)
    PROVE  World(x)
BY DEF Kept, SameSupply, SameBase, World, Account

\* Another state of the set.
LEMMA WithSetKeeps ==
    ASSUME NEW w, World(w), NEW sets, NEW x \in withSet(w, sets), \A s \in sets : SameSupply(w.set, s)
    PROVE  Kept(w, x)
<1>1. PICK s \in sets : x = [w EXCEPT !.set = s]
  BY DEF withSet
<1>. QED  BY <1>1 DEF Kept, SameBase, World

\* SetToken.sol's calls about one position or one balance leave the supply alone.
LEMMA ComponentCallsKeepSupply ==
    ASSUME NEW s, "totalSupply" \in DOMAIN s, NEW caller, NEW c,
           NEW t \in addComponent(s, caller, c) \cup removeComponent(s, caller, c)
    PROVE  SameSupply(s, t) /\ "totalSupply" \in DOMAIN t
BY DEF SameSupply, Require, addComponent, removeComponent

LEMMA DefaultUnitKeepsSupply ==
    ASSUME NEW s, "totalSupply" \in DOMAIN s, NEW caller, NEW c, NEW u,
           NEW t \in editDefaultPositionUnit(s, caller, c, u)
    PROVE  SameSupply(s, t)
BY DEF SameSupply, editDefaultPositionUnit

LEMMA ExternalModulesKeepSupply ==
    ASSUME NEW s, "totalSupply" \in DOMAIN s, NEW caller, NEW c, NEW m,
           NEW t \in addExternalPositionModule(s, caller, c, m)
                         \cup removeExternalPositionModule(s, caller, c, m)
    PROVE  SameSupply(s, t) /\ "totalSupply" \in DOMAIN t
BY DEF SameSupply, Require, addExternalPositionModule, removeExternalPositionModule

LEMMA ExternalUnitKeepsSupply ==
    ASSUME NEW s, "totalSupply" \in DOMAIN s, NEW caller, NEW c, NEW m, NEW u,
           NEW t \in editExternalPositionUnit(s, caller, c, m, u)
    PROVE  SameSupply(s, t)
BY DEF SameSupply, editExternalPositionUnit

LEMMA TransferKeepsSupply ==
    ASSUME NEW s, "totalSupply" \in DOMAIN s, NEW caller, NEW c, NEW quantity,
           NEW t \in strictInvokeTransfer(s, caller, c, quantity)
    PROVE  SameSupply(s, t)
BY DEF SameSupply, Require, strictInvokeTransfer

\* So do the edits of Position.sol.
LEMMA EditsKeepSupply ==
    ASSUME NEW s, "totalSupply" \in DOMAIN s, NEW caller, NEW c, NEW m, NEW u
    PROVE  /\ \A t \in editDefaultPosition(s, caller, c, u) : SameSupply(s, t)
           /\ \A t \in editExternalPosition(s, caller, c, m, u) : SameSupply(s, t)
<1>1. ASSUME NEW t \in editDefaultPosition(s, caller, c, u) PROVE SameSupply(s, t)
  <2>1. PICK r \in {s} \cup addComponent(s, caller, c) \cup removeComponent(s, caller, c) :
            t \in editDefaultPositionUnit(r, caller, c, u)
    BY <1>1 DEF editDefaultPosition
  <2>2. SameSupply(s, r) /\ "totalSupply" \in DOMAIN r
    BY ComponentCallsKeepSupply DEF SameSupply
  <2>3. SameSupply(r, t)
    BY <2>1, <2>2, DefaultUnitKeepsSupply
  <2>. QED  BY <2>2, <2>3 DEF SameSupply
<1>2. ASSUME NEW t \in openExternalPosition(s, caller, c, m, u) PROVE SameSupply(s, t)
  <2>1. PICK q \in {s} \cup addComponent(s, caller, c) :
            \E r \in {q} \cup addExternalPositionModule(q, caller, c, m) :
                t \in editExternalPositionUnit(r, caller, c, m, u)
    BY <1>2 DEF openExternalPosition
  <2>2. SameSupply(s, q) /\ "totalSupply" \in DOMAIN q
    BY ComponentCallsKeepSupply DEF SameSupply
  <2>3. PICK r \in {q} \cup addExternalPositionModule(q, caller, c, m) :
            t \in editExternalPositionUnit(r, caller, c, m, u)
    BY <2>1
  <2>4. SameSupply(q, r) /\ "totalSupply" \in DOMAIN r
    BY <2>2, ExternalModulesKeepSupply DEF SameSupply
  <2>5. SameSupply(r, t)
    BY <2>3, <2>4, ExternalUnitKeepsSupply
  <2>. QED  BY <2>2, <2>4, <2>5 DEF SameSupply
<1>3. ASSUME NEW t \in closeExternalPosition(s, caller, c, m) PROVE SameSupply(s, t)
  <2>1. t = s \/ \E r \in {s} \cup removeComponent(s, caller, c) :
                     t \in removeExternalPositionModule(r, caller, c, m)
    BY <1>3 DEF closeExternalPosition
  <2>2. ASSUME NEW r \in {s} \cup removeComponent(s, caller, c),
               t \in removeExternalPositionModule(r, caller, c, m)
        PROVE  SameSupply(s, t)
    <3>1. SameSupply(s, r) /\ "totalSupply" \in DOMAIN r
      BY ComponentCallsKeepSupply DEF SameSupply
    <3>2. SameSupply(r, t)
      BY <2>2, <3>1, ExternalModulesKeepSupply
    <3>. QED  BY <3>1, <3>2 DEF SameSupply
  <2>. QED  BY <2>1, <2>2 DEF SameSupply
<1>. QED  BY <1>1, <1>2, <1>3 DEF editExternalPosition

LEMMA CalculatedEditKeepsSupply ==
    ASSUME NEW s, "totalSupply" \in DOMAIN s, NEW caller, NEW c, NEW total, NEW previous,
           NEW t \in calculateAndEditDefaultPosition(s, caller, c, total, previous)
    PROVE  SameSupply(s, t)
<1>1. \E u : t \in editDefaultPosition(s, caller, c, u)
  BY DEF calculateAndEditDefaultPosition
<1>. QED  BY <1>1, EditsKeepSupply

\* Collateral moves between the set and its account.
LEMMA CollateralMovesKeep ==
    ASSUME NEW w, World(w), NEW quantity, NEW x \in deposit(w, quantity) \cup withdraw(w, quantity)
    PROVE  Kept(w, x)
<1>1. CASE x \in deposit(w, quantity)
  <2>1. x = [w EXCEPT !.set.held[CollateralToken] = @ - quantity, !.perp = depositCollateral(@, quantity)]
    BY <1>1 DEF deposit, Require
  <2>2. /\ DOMAIN x = DOMAIN w /\ x.positions = w.positions
        /\ x.perp = depositCollateral(w.perp, quantity)
        /\ x.set = [w.set EXCEPT !.held[CollateralToken] = @ - quantity]
    BY <2>1 DEF World
  <2>3. SameSupply(w.set, x.set)
    BY <2>2 DEF SameSupply, World
  <2>4. SameBase(w.perp, x.perp)
    BY <2>2 DEF SameBase, depositCollateral, World, Account
  <2>. QED  BY <2>2, <2>3, <2>4 DEF Kept
<1>2. CASE x \in withdraw(w, quantity) /\ quantity # 0
  <2>1. PICK perp \in withdrawCollateral(w.perp, quantity) :
            x = [w EXCEPT !.perp = perp, !.set.held[CollateralToken] = @ + quantity]
    BY <1>2 DEF withdraw
  <2>2. /\ DOMAIN x = DOMAIN w /\ x.positions = w.positions /\ x.perp = perp
        /\ x.set = [w.set EXCEPT !.held[CollateralToken] = @ + quantity]
    BY <2>1 DEF World
  <2>3. SameSupply(w.set, x.set)
    BY <2>2 DEF SameSupply, World
  <2>4. SameBase(w.perp, perp)
    BY DEF SameBase, withdrawCollateral, Require, World, Account
  <2>. QED  BY <2>2, <2>3, <2>4 DEF Kept
<1>3. CASE x \in withdraw(w, quantity) /\ quantity = 0
  BY <1>3 DEF withdraw, Kept, SameSupply, SameBase
<1>. QED  BY <1>1, <1>2, <1>3

LEMMA UpdatePositionsKeeps ==
    ASSUME NEW w, World(w), NEW initialBalance, NEW x \in updatePositions(w, initialBalance)
    PROVE  Kept(w, x)
<1>1. PICK y \in withSet(w, calculateAndEditDefaultPosition(
                      w.set, PerpModule, CollateralToken, w.set.totalSupply, initialBalance)) :
          x \in updateExternalPositionUnit(y)
  BY DEF updatePositions
<1>2. Kept(w, y)
  <2>1. "totalSupply" \in DOMAIN w.set
    BY DEF World
  <2>. QED  BY <1>1, <2>1, WithSetKeeps, CalculatedEditKeepsSupply
<1>3. World(y)
  BY <1>2, KeptIsWorld
<1>4. Kept(y, x)
  <2>1. "totalSupply" \in DOMAIN y.set
    BY <1>3 DEF World
  <2>2. PICK u : x \in withSet(y, editExternalPosition(y.set, PerpModule, CollateralToken, PerpModule, u))
    BY <1>1 DEF updateExternalPositionUnit
  <2>3. \A s \in editExternalPosition(y.set, PerpModule, CollateralToken, PerpModule, u) :
            SameSupply(y.set, s)
    BY <2>1, EditsKeepSupply
  <2>. QED  BY <1>3, <2>2, <2>3, WithSetKeeps
<1>. QED  BY <1>2, <1>4, KeptTwice

\* The manager's deposits and withdrawals, and the fee on a trade.
LEMMA DepositsKeep ==
    ASSUME NEW w, World(w), NEW caller, NEW units,
           NEW x \in Deposit(w, caller, units) \cup Withdraw(w, caller, units)
    PROVE  Kept(w, x)
<1>0. PICK quantity : \E y \in deposit(w, quantity) \cup withdraw(w, quantity) :
          x \in updatePositions(y, w.set.held[CollateralToken])
  BY DEF Deposit, Withdraw
<1>1. PICK y \in deposit(w, quantity) \cup withdraw(w, quantity) :
          x \in updatePositions(y, w.set.held[CollateralToken])
  BY <1>0
<1>2. Kept(w, y) /\ World(y)
  BY CollateralMovesKeep, KeptIsWorld
<1>3. Kept(y, x)
  BY <1>1, <1>2, UpdatePositionsKeeps
<1>. QED  BY <1>2, <1>3, KeptTwice

LEMMA FeeKeeps ==
    ASSUME NEW w, World(w), NEW quantity, NEW x \in accrueProtocolFee(w, quantity)
    PROVE  Kept(w, x)
<1>0. PICK fee : \E y \in withdraw(w, fee) :
          x \in withSet(y, payProtocolFeeFromSetToken(y.set, PerpModule, CollateralToken, fee))
  BY DEF accrueProtocolFee
<1>1. PICK y \in withdraw(w, fee) :
          x \in withSet(y, payProtocolFeeFromSetToken(y.set, PerpModule, CollateralToken, fee))
  BY <1>0
<1>2. Kept(w, y) /\ World(y)
  BY CollateralMovesKeep, KeptIsWorld
<1>3. "totalSupply" \in DOMAIN y.set
  BY <1>2 DEF World
<1>4. Kept(y, x)
  BY <1>1, <1>2, <1>3, WithSetKeeps, TransferKeepsSupply DEF payProtocolFeeFromSetToken
<1>. QED  BY <1>2, <1>4, KeptTwice
-----------------------------------------------------------------------------
(* Markets leave the list. *)

\* Markets may have left the list, if they had no balance to speak of.
Dropped(w, x) ==
    /\ DOMAIN x = DOMAIN w /\ x.set = w.set /\ x.perp = w.perp
    /\ Listing(x.positions) /\ Len(x.positions) <= Len(w.positions)
    /\ \A t : contains(w.positions, t) => contains(x.positions, t) \/ ~hasBaseBalance(w, t)

LEMMA DroppedTwice ==
    ASSUME NEW w, NEW x, NEW y, World(w), Dropped(w, x), Dropped(x, y)
    PROVE  Dropped(w, y)
<1>1. Len(w.positions) \in Nat /\ Len(x.positions) \in Nat /\ Len(y.positions) \in Nat
  BY DEF World, Dropped, Listing
<1>2. \A t : hasBaseBalance(x, t) <=> hasBaseBalance(w, t)
  BY DEF hasBaseBalance, Dropped
<1>3. Len(y.positions) <= Len(w.positions)
  BY <1>1 DEF Dropped
<1>. QED  BY <1>2, <1>3 DEF Dropped

LEMMA DroppedIsWorld ==
    ASSUME NEW w, NEW x, World(w), Dropped(w, x)
    PROVE  World(x)
BY DEF Dropped, World

\* One market is dropped, or none.
LEMMA DropResult ==
    ASSUME NEW w, World(w), NEW t, NEW x \in dropIfClosed(w, t)
    PROVE  Dropped(w, x)
<1>1. Listing(w.positions) /\ Len(w.positions) \in Nat
  BY DEF World, Listing
<1>2. CASE hasBaseBalance(w, t)
  <2>1. x = w
    BY <1>2 DEF dropIfClosed
  <2>. QED  BY <1>1, <2>1 DEF Dropped
<1>3. CASE ~hasBaseBalance(w, t)
  <2>1. PICK list \in removeStorage(w.positions, t) : x = [w EXCEPT !.positions = list]
    BY <1>3 DEF dropIfClosed
  <2>2. DOMAIN x = DOMAIN w /\ x.set = w.set /\ x.perp = w.perp /\ x.positions = list
    BY <2>1 DEF World
  <2>3. /\ Listing(list) /\ Len(list) = Len(w.positions) - 1
        /\ \A u : contains(list, u) <=> contains(w.positions, u) /\ u # t
    BY <1>1, RemovalOfOne
  <2>4. Len(list) <= Len(w.positions)
    BY <1>1, <2>3
  <2>. QED  BY <1>3, <2>2, <2>3, <2>4 DEF Dropped
<1>. QED  BY <1>2, <1>3

\* syncPositionList drops no market that has a balance, in however many passes.
LEMMA SyncResult ==
    ASSUME NEW w, World(w), NEW x \in syncPositionList(w)
    PROVE  Dropped(w, x)
<1>. DEFINE n == Len(w.positions)
            reached == Synced(w, n)
            T == {i \in Nat : i <= n => \A y \in reached[i] : Dropped(w, y)}
<1>1. n \in Nat /\ Listing(w.positions)
  BY DEF World, Listing
<1>2. /\ reached[0] = {w}
      /\ \A i \in 1 .. n : reached[i] = UNION {dropIfClosed(y, w.positions[i]) : y \in reached[i - 1]}
  BY <1>1, SyncUnfolds
<1>3. x \in reached[n]
  BY SyncIsLastPass
<1>. HIDE DEF reached, n
<1>4. 0 \in T
  <2>1. Dropped(w, w)
    BY <1>1 DEF Dropped, n
  <2>. QED  BY <1>2, <2>1
<1>5. ASSUME NEW i \in Nat, i \in T PROVE i + 1 \in T
  <2>. SUFFICES ASSUME i + 1 <= n, NEW y \in reached[i + 1] PROVE Dropped(w, y)
    OBVIOUS
  <2>1. i + 1 \in 1 .. n /\ (i + 1) - 1 = i /\ i <= n
    BY <1>1
  <2>2. PICK z \in reached[i] : y \in dropIfClosed(z, w.positions[i + 1])
    BY <1>2, <2>1
  <2>3. Dropped(w, z) /\ World(z)
    BY <1>5, <2>1, DroppedIsWorld
  <2>4. Dropped(z, y)
    BY <2>2, <2>3, DropResult
  <2>. QED  BY <2>3, <2>4, DroppedTwice
<1>. HIDE DEF T
<1>6. n \in T
  BY <1>1, <1>4, <1>5, NumberInduction
<1>. QED  BY <1>1, <1>3, <1>6 DEF T
-----------------------------------------------------------------------------
(* Trades. *)

\* A trade moves the one market by the amount traded.
LEMMA OpenPositionResult ==
    ASSUME NEW p, Account(p), NEW t \in BaseTokens, NEW amount \in Int, NEW isBuy \in BOOLEAN, NEW bound,
           NEW r \in openPosition(p, t, amount, isBuy, bound)
    PROVE  /\ DOMAIN r.perp = DOMAIN p
           /\ r.perp.base = [p.base EXCEPT ![t] = @ + IF isBuy THEN amount ELSE -amount]
           /\ Account(r.perp)
<1>. DEFINE exchangedBase == IF isBuy THEN amount ELSE -amount
            exchangedQuote(delta) == IF isBuy THEN -delta ELSE delta
            realized(delta) == realizedPnl(p, t, exchangedBase, exchangedQuote(delta))
            settled == settleFunding(p, t)
            traded(delta) == [settled EXCEPT !.owed = @ + realized(delta), !.base[t] = @ + exchangedBase,
                                             !.quote[t] = @ + exchangedQuote(delta) - realized(delta)]
            allowed(delta) == /\ bound # 0 => IF isBuy THEN delta <= bound ELSE delta >= bound
                              /\ abs(traded(delta).base[t]) > abs(p.base[t]) => getFreeCollateral(traded(delta)) >= 0
<1>1. openPosition(p, t, amount, isBuy, bound)
        = UNION {Require(allowed(delta), [perp |-> traded(delta), deltaQuote |-> delta])
                    : delta \in swap(p, t, amount, isBuy)}
  BY DEF openPosition
<1>. HIDE DEF traded, allowed
<1>2. PICK delta : r = [perp |-> traded(delta), deltaQuote |-> delta]
  BY <1>1 DEF Require
<1>3. r.perp = traded(delta)
  BY <1>2
<1>4. DOMAIN settled = DOMAIN p /\ settled.base = p.base
  BY DEF settleFunding, Account
<1>5. r.perp = [settled EXCEPT !.owed = @ + realized(delta), !.base[t] = @ + exchangedBase,
                               !.quote[t] = @ + exchangedQuote(delta) - realized(delta)]
  BY <1>3 DEF traded
<1>. HIDE DEF settled, realized, exchangedQuote, exchangedBase
<1>6. DOMAIN r.perp = DOMAIN p /\ r.perp.base = [p.base EXCEPT ![t] = @ + exchangedBase]
  BY <1>4, <1>5 DEF Account
<1>7. p.base \in [BaseTokens -> Int] /\ exchangedBase \in Int /\ "base" \in DOMAIN r.perp
  BY <1>6 DEF Account, exchangedBase
<1>8. Account(r.perp)
  BY <1>6, <1>7 DEF Account
<1>. QED  BY <1>6, <1>8 DEF exchangedBase

\* One market has moved.
Moved(w, x, t) ==
    /\ DOMAIN x = DOMAIN w /\ x.set = w.set /\ x.positions = w.positions /\ Account(x.perp)
    /\ \A u \in BaseTokens \ {t} : x.perp.base[u] = w.perp.base[u]

\* Markets of the list may have moved.
Scaled(w, x) ==
    /\ DOMAIN x = DOMAIN w /\ x.set = w.set /\ x.positions = w.positions /\ Account(x.perp)
    /\ \A u \in BaseTokens : contains(w.positions, u) \/ x.perp.base[u] = w.perp.base[u]

LEMMA ExecuteTradeResult ==
    ASSUME NEW w, World(w), NEW t \in BaseTokens, NEW quantity \in Int, NEW bound,
           NEW r \in executeTrade(w, t, quantity, bound)
    PROVE  Moved(w, r.world, t)
<1>. DEFINE isBuy == quantity > 0
            size == abs(quantity)
<1>1. PICK o \in openPosition(w.perp, t, size, isBuy, bound) :
          r = [world |-> [w EXCEPT !.perp = o.perp], deltaQuote |-> o.deltaQuote]
  BY DEF executeTrade
<1>2. r.world = [w EXCEPT !.perp = o.perp]
  BY <1>1
<1>3. /\ DOMAIN r.world = DOMAIN w /\ r.world.set = w.set /\ r.world.positions = w.positions
      /\ r.world.perp = o.perp
  BY <1>2 DEF World
<1>4. size \in Int /\ isBuy \in BOOLEAN /\ Account(w.perp)
  BY DEF abs, World
<1>. HIDE DEF isBuy, size
<1>5. PICK amount \in Int :
          Account(o.perp) /\ o.perp.base = [w.perp.base EXCEPT ![t] = @ + amount]
  <2>. DEFINE amount == IF isBuy THEN size ELSE -size
  <2>1. Account(o.perp) /\ o.perp.base = [w.perp.base EXCEPT ![t] = @ + amount]
    BY <1>4, OpenPositionResult
  <2>2. amount \in Int
    BY <1>4
  <2>. QED  BY <2>1, <2>2
<1>6. \A u \in BaseTokens \ {t} : o.perp.base[u] = w.perp.base[u]
  BY <1>4, <1>5 DEF Account
<1>. QED  BY <1>3, <1>5, <1>6 DEF Moved

LEMMA ScaledIsWorld ==
    ASSUME NEW w, NEW x, World(w), Scaled(w, x)
    PROVE  World(x)
BY DEF Scaled, World

\* The share of one listed position.
LEMMA TradeShareResult ==
    ASSUME NEW o, World(o.world), o.world.set.totalSupply > 0, NEW t \in BaseTokens,
           contains(o.world.positions, t), NEW quantity \in Int, NEW isIssue \in BOOLEAN,
           NEW isSimulation \in BOOLEAN,
           NEW r \in tradeShare(o, t, quantity, isIssue, isSimulation)
    PROVE  Scaled(o.world, r.world)
<1>. DEFINE w == o.world
            unit == preciseDivInt(w.perp.base[t], w.set.totalSupply)
            base == preciseMulInt(unit, quantity)
            directed == IF isIssue THEN base ELSE -base
<1>1. w.perp.base[t] \in Int /\ w.set.totalSupply \in Int /\ Account(w.perp)
  BY DEF World, Account
<1>2. unit \in Int
  <2>. HIDE DEF w
  <2>. QED  BY <1>1, SignedResults DEF w
<1>3. base \in Int
  <2>. HIDE DEF unit
  <2>. QED  BY <1>2, SignedResults
<1>4. directed \in Int
  <2>. HIDE DEF base
  <2>. QED  BY <1>3
<1>5. PICK outcome \in IF isSimulation THEN simulateTrade(w, t, directed)
                       ELSE executeTrade(w, t, directed, 0) :
          r.world = outcome.world
  BY DEF tradeShare
<1>. HIDE DEF directed
<1>6. CASE isSimulation
  <2>1. outcome.world = w
    BY <1>5, <1>6 DEF simulateTrade
  <2>. QED  BY <1>1, <1>5, <2>1 DEF Scaled
<1>7. CASE ~isSimulation
  <2>1. outcome \in executeTrade(w, t, directed, 0)
    BY <1>5, <1>7
  <2>2. Moved(w, outcome.world, t)
    <3>. HIDE DEF w
    <3>. QED  BY <1>4, <2>1, ExecuteTradeResult DEF w
  <2>. QED  BY <1>5, <2>2 DEF Scaled, Moved
<1>. QED  BY <1>6, <1>7

\* The shares of all listed positions, one after the other.
LEMMA TradeSharesResult ==
    ASSUME NEW w, World(w), w.set.totalSupply > 0, NEW quantity \in Int, NEW isIssue \in BOOLEAN,
           NEW isSimulation \in BOOLEAN, NEW r \in tradeShares(w, quantity, isIssue, isSimulation)
    PROVE  Scaled(w, r.world)
<1>. DEFINE n == Len(w.positions)
            reached == Traded(w, quantity, isIssue, isSimulation, n)
            T == {i \in Nat : i <= n => \A o \in reached[i] : Scaled(w, o.world)}
<1>1. n \in Nat /\ w.positions \in Seq(BaseTokens) /\ Account(w.perp)
  BY DEF World, Listing
<1>2. /\ reached[0] = {accountShare(w, quantity)}
      /\ \A i \in 1 .. n : reached[i] = UNION {tradeShare(o, w.positions[i], quantity, isIssue, isSimulation)
                                                  : o \in reached[i - 1]}
  BY <1>1, TradesUnfold
<1>3. r \in reached[n]
  BY TradesAreLastPass
<1>4. \A i \in 1 .. n : w.positions[i] \in BaseTokens /\ contains(w.positions, w.positions[i])
  BY <1>1, IndexOfFinds
<1>. HIDE DEF reached, n
<1>5. 0 \in T
  <2>1. accountShare(w, quantity).world = w
    BY DEF accountShare
  <2>2. Scaled(w, w)
    BY <1>1 DEF Scaled
  <2>. QED  BY <1>2, <2>1, <2>2
<1>6. ASSUME NEW i \in Nat, i \in T PROVE i + 1 \in T
  <2>. SUFFICES ASSUME i + 1 <= n, NEW o \in reached[i + 1] PROVE Scaled(w, o.world)
    OBVIOUS
  <2>1. i + 1 \in 1 .. n /\ (i + 1) - 1 = i /\ i <= n
    BY <1>1
  <2>2. PICK q \in reached[i] : o \in tradeShare(q, w.positions[i + 1], quantity, isIssue, isSimulation)
    BY <1>2, <2>1
  <2>3. Scaled(w, q.world) /\ World(q.world)
    BY <1>6, <2>1, ScaledIsWorld
  <2>4. q.world.set = w.set /\ q.world.positions = w.positions
    BY <2>3 DEF Scaled
  <2>5. Scaled(q.world, o.world)
    BY <1>4, <2>1, <2>2, <2>3, <2>4, TradeShareResult
  <2>. QED  BY <2>3, <2>5 DEF Scaled
<1>. HIDE DEF T
<1>7. n \in T
  BY <1>1, <1>5, <1>6, NumberInduction
<1>. QED  BY <1>1, <1>3, <1>7 DEF T
-----------------------------------------------------------------------------
(* The invariant. *)

\* A market that is not in the list has no more than dust.
OnlyDustUnlisted(w, most, gone) ==
    \A t \in BaseTokens \ gone :
        contains(w.positions, t) \/ abs(w.perp.base[t]) * PreciseUnit < 2 * most + PreciseUnit

\* The list of positions of a world whose supply has been at most most.
Sound(w, most, gone) ==
    /\ World(w)
    /\ w.set.totalSupply <= most
    /\ Len(w.positions) <= MaxPerpPositionsPerSet
    /\ OnlyDustUnlisted(w, most, gone)

\* Fees are numbers, and the hooks an array.
SettingsSound(d) ==
    /\ {"maxManagerFee", "managerIssueFee", "managerRedeemFee", "moduleIssuanceHooks", "feeRecipient",
        "isModuleHook"} \subseteq DOMAIN d
    /\ d.maxManagerFee \in Nat /\ d.managerIssueFee \in Nat /\ d.managerRedeemFee \in Nat
    /\ d.moduleIssuanceHooks \in Seq(Modules)

PerpInv == peak \in Nat /\ Sound(world, peak, abandoned) /\ SettingsSound(debt)

\* Only the supply may have changed, to another number.
Resupplied(w, x) ==
    /\ DOMAIN x = DOMAIN w /\ SameBase(w.perp, x.perp) /\ x.positions = w.positions
    /\ DOMAIN x.set = DOMAIN w.set /\ x.set.totalSupply \in Nat

LEMMA ResuppliedSound ==
    ASSUME NEW w, NEW x, NEW most \in Nat, NEW more \in Nat, NEW gone, Sound(w, most, gone),
           Resupplied(w, x), x.set.totalSupply <= more, most <= more
    PROVE  Sound(x, more, gone)
<1>1. World(x)
  BY DEF Sound, World, Resupplied, SameBase, Account
<1>2. ASSUME NEW t \in BaseTokens \ gone, ~contains(x.positions, t)
      PROVE  abs(x.perp.base[t]) * PreciseUnit < 2 * more + PreciseUnit
  <2>1. x.perp.base[t] = w.perp.base[t] /\ ~contains(w.positions, t)
    BY <1>2 DEF Resupplied, SameBase
  <2>2. abs(w.perp.base[t]) * PreciseUnit < 2 * most + PreciseUnit
    BY <1>2, <2>1 DEF Sound, OnlyDustUnlisted
  <2>3. abs(w.perp.base[t]) * PreciseUnit \in Int
    <3>1. w.perp.base[t] \in Int
      BY DEF Sound, World, Account
    <3>2. abs(w.perp.base[t]) \in Int
      BY <3>1 DEF abs
    <3>. QED  BY <3>2, PreciseUnitAssumption
  <2>. HIDE DEF abs
  <2>4. \A y \in Int : y < 2 * most + PreciseUnit => y < 2 * more + PreciseUnit
    BY PreciseUnitAssumption
  <2>. QED  BY <2>1, <2>2, <2>3, <2>4
<1>3. OnlyDustUnlisted(x, more, gone)
  BY <1>2 DEF OnlyDustUnlisted
<1>. QED  BY <1>1, <1>3 DEF Sound, Resupplied

LEMMA KeptSound ==
    ASSUME NEW w, NEW x, NEW most, NEW gone, Sound(w, most, gone), Kept(w, x)
    PROVE  Sound(x, most, gone)
<1>1. World(x)
  BY KeptIsWorld DEF Sound
<1>. QED  BY <1>1 DEF Sound, Kept, SameSupply, SameBase, OnlyDustUnlisted

LEMMA ScaledSound ==
    ASSUME NEW w, NEW x, NEW most, NEW gone, Sound(w, most, gone), Scaled(w, x)
    PROVE  Sound(x, most, gone)
<1>1. World(x)
  BY ScaledIsWorld DEF Sound
<1>2. OnlyDustUnlisted(x, most, gone)
  BY DEF Sound, Scaled, OnlyDustUnlisted
<1>. QED  BY <1>1, <1>2 DEF Sound, Scaled

\* What is dropped from the list is less than two units of the supply of the moment.
LEMMA DroppedSound ==
    ASSUME NEW w, NEW x, NEW most \in Nat, NEW gone, Sound(w, most, gone), Dropped(w, x),
           w.set.totalSupply > 0
    PROVE  Sound(x, most, gone)
<1>1. World(w) /\ World(x)
  BY DroppedIsWorld DEF Sound
<1>2. Len(x.positions) <= MaxPerpPositionsPerSet
  <2>1. Len(w.positions) \in Nat /\ Len(x.positions) \in Nat
    BY <1>1 DEF World, Listing
  <2>. QED  BY <2>1, PerpInputsAssumption DEF Dropped, Sound
<1>3. ASSUME NEW t \in BaseTokens \ gone, ~contains(x.positions, t)
      PROVE  abs(x.perp.base[t]) * PreciseUnit < 2 * most + PreciseUnit
  <2>1. x.perp.base[t] = w.perp.base[t]
    BY DEF Dropped
  <2>2. CASE ~contains(w.positions, t)
    BY <1>3, <2>1, <2>2 DEF Sound, OnlyDustUnlisted
  <2>3. CASE contains(w.positions, t)
    <3>. DEFINE balance == w.perp.base[t]
                total == w.set.totalSupply
    <3>1. ~hasBaseBalance(w, t)
      BY <1>3, <2>3 DEF Dropped
    <3>2. balance \in Int /\ total \in Nat \ {0} /\ total <= most
      BY <1>1 DEF World, Account, Sound
    <3>3. ~(preciseDivInt(balance, total) > 1) /\ ~(preciseDivInt(balance, total) < -1)
      BY <3>1 DEF hasBaseBalance
    <3>. HIDE DEF balance, total
    <3>4. abs(balance) * PreciseUnit < 2 * total
      BY <3>2, <3>3, Dust
    <3>5. abs(balance) * PreciseUnit \in Int
      <4>1. abs(balance) \in Int
        BY <3>2 DEF abs
      <4>. QED  BY <4>1, PreciseUnitAssumption
    <3>6. \A y \in Int : y < 2 * total => y < 2 * most + PreciseUnit
      BY <3>2, PreciseUnitAssumption
    <3>. QED  BY <2>1, <3>4, <3>5, <3>6 DEF balance
  <2>. QED  BY <2>2, <2>3
<1>4. OnlyDustUnlisted(x, most, gone)
  BY <1>3 DEF OnlyDustUnlisted
<1>. QED  BY <1>1, <1>2, <1>4 DEF Sound, Dropped
-----------------------------------------------------------------------------
(* Hooks. *)

\* Sound, and with the supply of w.
SoundLike(w, x, most, gone) ==
    Sound(x, most, gone) /\ x.set.totalSupply = w.set.totalSupply

LEMMA PositionTradesResult ==
    ASSUME NEW w, NEW most \in Nat, NEW gone, Sound(w, most, gone), NEW quantity \in Int,
           NEW isIssue \in BOOLEAN, NEW isSimulation \in BOOLEAN,
           NEW r \in executePositionTrades(w, quantity, isIssue, isSimulation)
    PROVE  SoundLike(w, r.world, most, gone)
<1>1. PICK x \in IF w.set.totalSupply > 0 /\ quantity > 0 THEN syncPositionList(w) ELSE {} :
          \E o \in tradeShares(x, quantity, isIssue, isSimulation) : r.world = o.world
  BY DEF executePositionTrades
<1>2. PICK o \in tradeShares(x, quantity, isIssue, isSimulation) : r.world = o.world
  BY <1>1
<1>3. w.set.totalSupply > 0 /\ x \in syncPositionList(w) /\ World(w)
  BY <1>1 DEF Sound
<1>4. Dropped(w, x)
  BY <1>3, SyncResult
<1>5. Sound(x, most, gone) /\ World(x) /\ x.set = w.set
  BY <1>3, <1>4, DroppedSound DEF Sound, Dropped
<1>6. Scaled(x, o.world)
  BY <1>2, <1>3, <1>5, TradeSharesResult
<1>. QED  BY <1>2, <1>5, <1>6, ScaledSound DEF SoundLike, Scaled

LEMMA PreHookResult ==
    ASSUME NEW w, NEW most \in Nat, NEW gone, Sound(w, most, gone), NEW quantity \in Int,
           NEW isIssue \in BOOLEAN, NEW x \in preHook(w, quantity, isIssue)
    PROVE  SoundLike(w, x, most, gone)
<1>1. CASE x = w
  BY <1>1 DEF SoundLike
<1>2. CASE x # w
  <2>1. PICK r \in executePositionTrades(w, quantity, isIssue, FALSE) :
            x \in withSet(r.world, editExternalPositionUnit(
                          r.world.set, PerpModule, CollateralToken, PerpModule, r.unit))
    BY <1>2 DEF preHook
  <2>2. SoundLike(w, r.world, most, gone)
    BY PositionTradesResult
  <2>3. World(r.world) /\ "totalSupply" \in DOMAIN r.world.set
    BY <2>2 DEF SoundLike, Sound, World
  <2>4. Kept(r.world, x)
    BY <2>1, <2>3, WithSetKeeps, ExternalUnitKeepsSupply
  <2>. QED  BY <2>2, <2>4, KeptSound DEF SoundLike, Kept, SameSupply
<1>. QED  BY <1>1, <1>2

\* All hooks before an issue or a redemption.
LEMMA PreHooksResult ==
    ASSUME NEW d, SettingsSound(d), NEW w, NEW most \in Nat, NEW gone, Sound(w, most, gone),
           NEW quantity \in Int, NEW isIssue \in BOOLEAN,
           NEW x \in callModulePreHooks(d, w, quantity, isIssue)
    PROVE  SoundLike(w, x, most, gone)
<1>. DEFINE n == Len(d.moduleIssuanceHooks)
            reached == Called(w, quantity, isIssue, n)
            T == {i \in Nat : i <= n => \A y \in reached[i] : SoundLike(w, y, most, gone)}
<1>1. n \in Nat
  BY DEF SettingsSound
<1>2. /\ reached[0] = {w}
      /\ \A i \in 1 .. n : reached[i] = UNION {preHook(y, quantity, isIssue) : y \in reached[i - 1]}
  BY <1>1, HooksUnfold
<1>3. x \in reached[n]
  BY HooksAreLastPass
<1>. HIDE DEF reached, n
<1>4. 0 \in T
  BY <1>2 DEF SoundLike
<1>5. ASSUME NEW i \in Nat, i \in T PROVE i + 1 \in T
  <2>. SUFFICES ASSUME i + 1 <= n, NEW y \in reached[i + 1] PROVE SoundLike(w, y, most, gone)
    OBVIOUS
  <2>1. i + 1 \in 1 .. n /\ (i + 1) - 1 = i /\ i <= n
    BY <1>1
  <2>2. PICK z \in reached[i] : y \in preHook(z, quantity, isIssue)
    BY <1>2, <2>1
  <2>3. SoundLike(w, z, most, gone)
    BY <1>5, <2>1
  <2>4. SoundLike(z, y, most, gone)
    BY <2>2, <2>3, PreHookResult DEF SoundLike
  <2>. QED  BY <2>3, <2>4 DEF SoundLike
<1>. HIDE DEF T
<1>6. n \in T
  BY <1>1, <1>4, <1>5, NumberInduction
<1>. QED  BY <1>1, <1>3, <1>6 DEF T

\* A question asked off chain.
LEMMA AdjustResult ==
    ASSUME NEW o, NEW most \in Nat, NEW gone, Sound(o.world, most, gone), NEW quantity \in Int,
           NEW isIssue \in BOOLEAN, NEW r \in adjust(o, quantity, isIssue)
    PROVE  SoundLike(o.world, r.world, most, gone)
<1>1. PICK a \in getAdjustment(o.world, quantity, isIssue) : r.world = a.world
  BY DEF adjust
<1>. DEFINE formatted(unit) ==
                IF CollateralToken \in o.world.set.components
                THEN unit - getExternalPositionRealUnit(o.world.set, CollateralToken, PerpModule) ELSE 0
            asked == executePositionTrades(o.world, quantity, isIssue, TRUE)
<1>2. a.world = o.world \/ \E e \in asked : a.world = e.world
  <2>1. a \in IF o.world.positions = <<>> THEN {[world |-> o.world, equity |-> formatted(0)]}
              ELSE {[world |-> e.world, equity |-> formatted(e.unit)] : e \in asked}
    BY <1>1 DEF getAdjustment
  <2>. HIDE DEF formatted, asked
  <2>. QED  BY <2>1
<1>3. CASE a.world = o.world
  BY <1>1, <1>3 DEF SoundLike
<1>4. ASSUME NEW e \in asked, a.world = e.world
      PROVE  SoundLike(o.world, r.world, most, gone)
  <2>1. SoundLike(o.world, e.world, most, gone)
    BY <1>4, PositionTradesResult
  <2>. QED  BY <1>1, <1>4, <2>1
<1>. QED  BY <1>2, <1>3, <1>4

LEMMA AdjustmentsResult ==
    ASSUME NEW d, SettingsSound(d), NEW w, NEW most \in Nat, NEW gone, Sound(w, most, gone),
           NEW quantity \in Int, NEW isIssue \in BOOLEAN,
           NEW r \in calculateAdjustments(d, w, quantity, isIssue)
    PROVE  SoundLike(w, r.world, most, gone)
<1>. DEFINE n == Len(d.moduleIssuanceHooks)
            reached == Adjusted(w, quantity, isIssue, n)
            T == {i \in Nat : i <= n => \A o \in reached[i] : SoundLike(w, o.world, most, gone)}
<1>1. n \in Nat
  BY DEF SettingsSound
<1>2. /\ reached[0] = {[world |-> w, equity |-> 0]}
      /\ \A i \in 1 .. n : reached[i] = UNION {adjust(o, quantity, isIssue) : o \in reached[i - 1]}
  BY <1>1, AdjustmentsUnfold
<1>3. r \in reached[n]
  BY AdjustmentsAreLastPass
<1>. HIDE DEF reached, n
<1>4. 0 \in T
  BY <1>2 DEF SoundLike
<1>5. ASSUME NEW i \in Nat, i \in T PROVE i + 1 \in T
  <2>. SUFFICES ASSUME i + 1 <= n, NEW o \in reached[i + 1] PROVE SoundLike(w, o.world, most, gone)
    OBVIOUS
  <2>1. i + 1 \in 1 .. n /\ (i + 1) - 1 = i /\ i <= n
    BY <1>1
  <2>2. PICK q \in reached[i] : o \in adjust(q, quantity, isIssue)
    BY <1>2, <2>1
  <2>3. SoundLike(w, q.world, most, gone)
    BY <1>5, <2>1
  <2>4. SoundLike(q.world, o.world, most, gone)
    BY <2>2, <2>3, AdjustResult DEF SoundLike
  <2>. QED  BY <2>3, <2>4 DEF SoundLike
<1>. HIDE DEF T
<1>6. n \in T
  BY <1>1, <1>4, <1>5, NumberInduction
<1>. QED  BY <1>1, <1>3, <1>6 DEF T
-----------------------------------------------------------------------------
(* Issues and redemptions. *)

\* Fees are a part of the quantity, and the protocol's and the manager's share make them up.
LEMMA FeesResult ==
    ASSUME NEW d, SettingsSound(d), NEW quantity \in Nat, NEW isIssue \in BOOLEAN
    PROVE  LET fees == calculateTotalFees(d, quantity, isIssue)
           IN  /\ fees.managerFee \in Nat /\ fees.protocolFee \in Nat
               /\ fees.totalQuantity \in Int
               /\ isIssue => fees.totalQuantity \in Nat
               /\ ~isIssue /\ fees.totalQuantity >= 0 => fees.managerFee + fees.protocolFee <= quantity
<1>. DEFINE rate == IF isIssue THEN d.managerIssueFee ELSE d.managerRedeemFee
            totalFee == preciseMul(rate, quantity)
            protocolFee == preciseMul(totalFee, ProtocolFeeSplit)
<1>1. rate \in Nat
  BY DEF SettingsSound
<1>. HIDE DEF rate
<1>2. totalFee \in Nat
  <2>1. rate * quantity \in Nat
    BY <1>1
  <2>. QED  BY <2>1, Quotient, PreciseUnitAssumption DEF preciseMul
<1>. HIDE DEF totalFee
<1>3. protocolFee \in 0 .. totalFee
  BY <1>2, Fraction, PerpLeverageAssumption
<1>. HIDE DEF protocolFee
<1>4. calculateTotalFees(d, quantity, isIssue)
        = [totalQuantity |-> IF isIssue THEN quantity + totalFee ELSE quantity - totalFee,
           managerFee |-> totalFee - protocolFee, protocolFee |-> protocolFee]
  BY DEF calculateTotalFees, rate, totalFee, protocolFee
<1>. QED  BY <1>2, <1>3, <1>4

LEMMA ResolveFeesResult ==
    ASSUME NEW d, NEW s, "totalSupply" \in DOMAIN s, s.totalSupply \in Nat, NEW fees,
           fees.managerFee \in Nat, fees.protocolFee \in Nat, NEW t \in resolveFees(d, s, fees)
    PROVE  /\ DOMAIN t = DOMAIN s /\ t.totalSupply \in Nat
           /\ t.totalSupply <= s.totalSupply + fees.managerFee + fees.protocolFee
<1>1. PICK r \in mintManagerFee(d, s, fees.managerFee) :
          t \in IF fees.managerFee > 0 /\ fees.protocolFee > 0
                THEN mint(r, IssuanceModule, fees.protocolFee) ELSE {r}
  BY DEF resolveFees
<1>2. /\ DOMAIN r = DOMAIN s /\ r.totalSupply \in Nat
      /\ r.totalSupply <= s.totalSupply + fees.managerFee
  BY <1>1 DEF mintManagerFee, mint, Require
<1>3. /\ DOMAIN t = DOMAIN r /\ t.totalSupply \in Nat
      /\ t.totalSupply <= r.totalSupply + fees.protocolFee
  BY <1>1, <1>2 DEF mint, Require
<1>. QED  BY <1>2, <1>3

\* Components that change hands.
LEMMA ComponentTransfersKeep ==
    ASSUME NEW w, World(w), NEW quantities
    PROVE  /\ Kept(w, [w EXCEPT !.set = transferIn(@, quantities)])
           /\ \A x \in withSet(w, transferOut(w.set, quantities)) : Kept(w, x)
<1>1. "totalSupply" \in DOMAIN w.set
  BY DEF World
<1>2. SameSupply(w.set, transferIn(w.set, quantities))
  BY <1>1 DEF SameSupply, transferIn
<1>3. \A s \in transferOut(w.set, quantities) : SameSupply(w.set, s)
  BY <1>1 DEF SameSupply, transferOut, Require
<1>4. Kept(w, [w EXCEPT !.set = transferIn(@, quantities)])
  <2>. DEFINE s == transferIn(w.set, quantities)
              x == [w EXCEPT !.set = s]
  <2>. HIDE DEF s
  <2>1. DOMAIN x = DOMAIN w /\ x.set = s /\ x.perp = w.perp /\ x.positions = w.positions
    BY DEF World
  <2>. QED  BY <1>2, <2>1 DEF Kept, SameBase, s
<1>5. \A x \in withSet(w, transferOut(w.set, quantities)) : Kept(w, x)
  BY <1>3, WithSetKeeps
<1>. QED  BY <1>4, <1>5

LEMMA ExternalHooksKeep ==
    ASSUME NEW w, World(w), NEW quantity, NEW isIssue \in BOOLEAN, NEW quantities,
           NEW x \in executeExternalPositionHooks(w, quantity, isIssue, quantities)
    PROVE  Kept(w, x)
<1>1. x = w \/ x \in componentIssueHook(w, quantity) \/ x \in componentRedeemHook(w, quantity)
  BY DEF executeExternalPositionHooks
<1>2. x = w \/ \E q : x \in deposit(w, q) \cup withdraw(w, q)
  BY <1>1 DEF componentIssueHook, componentRedeemHook
<1>3. CASE x = w
  BY <1>3 DEF Kept, SameSupply, SameBase
<1>. QED  BY <1>2, <1>3, CollateralMovesKeep

LEMMA EquityKeeps ==
    ASSUME NEW w, World(w), NEW quantity, NEW isIssue \in BOOLEAN, NEW quantities,
           NEW x \in resolveEquityPositions(w, quantity, isIssue, quantities)
    PROVE  Kept(w, x)
<1>1. CASE isIssue
  <2>. DEFINE y == [w EXCEPT !.set = transferIn(@, quantities)]
  <2>1. x \in executeExternalPositionHooks(y, quantity, isIssue, quantities)
    BY <1>1 DEF resolveEquityPositions
  <2>2. Kept(w, y)
    BY ComponentTransfersKeep
  <2>. HIDE DEF y
  <2>3. Kept(y, x)
    BY <2>1, <2>2, KeptIsWorld, ExternalHooksKeep
  <2>. QED  BY <2>2, <2>3, KeptTwice
<1>2. CASE ~isIssue
  <2>1. PICK y \in executeExternalPositionHooks(w, quantity, isIssue, quantities) :
            x \in withSet(y, transferOut(y.set, quantities))
    BY <1>2 DEF resolveEquityPositions
  <2>2. Kept(w, y) /\ World(y)
    BY ExternalHooksKeep, KeptIsWorld
  <2>3. Kept(y, x)
    BY <2>1, <2>2, ComponentTransfersKeep
  <2>. QED  BY <2>2, <2>3, KeptTwice
<1>. QED  BY <1>1, <1>2

LEMMA DebtKeeps ==
    ASSUME NEW w, World(w), NEW isIssue \in BOOLEAN, NEW quantities,
           NEW x \in resolveDebtPositions(w, isIssue, quantities)
    PROVE  Kept(w, x)
<1>1. CASE isIssue
  BY <1>1, ComponentTransfersKeep DEF resolveDebtPositions
<1>2. CASE ~isIssue
  <2>1. x = [w EXCEPT !.set = transferIn(@, quantities)]
    BY <1>2 DEF resolveDebtPositions
  <2>. QED  BY <2>1, ComponentTransfersKeep
<1>. QED  BY <1>1, <1>2

\* An issue: the hooks, collateral in, sets out.
LEMMA IssueResult ==
    ASSUME NEW d, SettingsSound(d), NEW w, NEW most \in Nat, NEW gone, Sound(w, most, gone),
           NEW quantity \in Nat, NEW limits, NEW x \in issueWithSlippage(d, w, quantity, limits)
    PROVE  \E y : Sound(y, most, gone) /\ Resupplied(y, x)
<1>. DEFINE fees == calculateTotalFees(d, quantity, TRUE)
            required(y) == calculateRequiredComponentIssuanceUnits(y.set, fees.totalQuantity, TRUE)
            hooked == IF validAndInitializedSet(w.set, IssuanceModule) /\ quantity > 0
                      THEN callModulePreIssueHooks(d, w, fees.totalQuantity) ELSE {}
            charged == UNION {IF validateTokenTransferLimits(limits, required(y), TRUE)
                              THEN resolveEquityPositions(y, fees.totalQuantity, TRUE, equityOf(required(y)))
                              ELSE {} : y \in hooked}
            lent == UNION {resolveDebtPositions(y, TRUE, debtOf(required(y))) : y \in charged}
<1>1. x \in UNION {withSet(y, UNION {mint(s, IssuanceModule, quantity) : s \in resolveFees(d, y.set, fees)}) :
                       y \in lent}
  BY DEF issueWithSlippage
<1>2. fees.managerFee \in Nat /\ fees.protocolFee \in Nat /\ fees.totalQuantity \in Nat
  BY FeesResult
<1>. HIDE DEF fees
<1>3. PICK z \in lent : x \in withSet(z, UNION {mint(s, IssuanceModule, quantity) : s \in resolveFees(d, z.set, fees)})
  <2>. HIDE DEF lent
  <2>. QED  BY <1>1
<1>4. PICK y \in charged : z \in resolveDebtPositions(y, TRUE, debtOf(required(y)))
  <2>. HIDE DEF charged, required
  <2>. QED  BY <1>3
<1>5. PICK h \in hooked : y \in resolveEquityPositions(h, fees.totalQuantity, TRUE, equityOf(required(h)))
  <2>. HIDE DEF hooked, required
  <2>. QED  BY <1>4
<1>. HIDE DEF required
<1>6. Sound(h, most, gone)
  <2>. DEFINE total == fees.totalQuantity
              isIssue == TRUE
  <2>1. h \in callModulePreIssueHooks(d, w, total)
    <3>. HIDE DEF lent, charged
    <3>. QED  BY <1>5
  <2>2. total \in Int
    BY <1>2
  <2>3. h \in callModulePreHooks(d, w, total, isIssue) /\ total \in Int /\ isIssue \in BOOLEAN
    <3>. HIDE DEF total, hooked, lent, charged
    <3>. QED  BY <2>1, <2>2 DEF callModulePreIssueHooks
  <2>. HIDE DEF total, isIssue
  <2>4. SoundLike(w, h, most, gone)
    BY <2>3, PreHooksResult
  <2>. QED  BY <2>4 DEF SoundLike
<1>7. Kept(h, y) /\ Sound(y, most, gone)
  BY <1>5, <1>6, EquityKeeps, KeptSound DEF Sound
<1>8. Kept(y, z) /\ Sound(z, most, gone) /\ World(z)
  BY <1>4, <1>7, DebtKeeps, KeptSound DEF Sound
<1>9. PICK s \in resolveFees(d, z.set, fees) : x \in withSet(z, mint(s, IssuanceModule, quantity))
  BY <1>3 DEF withSet
<1>10. "totalSupply" \in DOMAIN s /\ s.totalSupply \in Nat /\ DOMAIN s = DOMAIN z.set
  <2>1. "totalSupply" \in DOMAIN z.set /\ z.set.totalSupply \in Nat
    BY <1>8 DEF World
  <2>. QED  BY <1>2, <1>9, <2>1, ResolveFeesResult
<1>11. x = [z EXCEPT !.set = [s EXCEPT !.totalSupply = @ + quantity]]
  BY <1>9 DEF withSet, mint, Require
<1>12. Resupplied(z, x)
  <2>. DEFINE t == [s EXCEPT !.totalSupply = @ + quantity]
  <2>1. DOMAIN t = DOMAIN z.set /\ t.totalSupply \in Nat
    BY <1>10
  <2>. HIDE DEF t
  <2>2. DOMAIN x = DOMAIN z /\ x.set = t /\ x.perp = z.perp /\ x.positions = z.positions
    BY <1>8, <1>11 DEF World, t
  <2>. QED  BY <2>1, <2>2 DEF Resupplied, SameBase
<1>. QED  BY <1>8, <1>12

\* A redemption: the hooks, sets in, collateral out; the fees leave some of the sets.
LEMMA RedeemResult ==
    ASSUME NEW d, SettingsSound(d), NEW w, NEW most \in Nat, NEW gone, Sound(w, most, gone),
           NEW quantity \in Nat, NEW limits, NEW x \in redeemWithSlippage(d, w, quantity, limits)
    PROVE  Sound(x, most, gone)
<1>. DEFINE fees == calculateTotalFees(d, quantity, FALSE)
            required(y) == calculateRequiredComponentIssuanceUnits(y.set, fees.totalQuantity, FALSE)
            hooked == IF validAndInitializedSet(w.set, IssuanceModule) /\ quantity > 0 /\ fees.totalQuantity >= 0
                      THEN callModulePreRedeemHooks(d, w, fees.totalQuantity) ELSE {}
            burnt == UNION {withSet(y, burn(y.set, IssuanceModule, quantity)) : y \in hooked}
            repaid == UNION {IF validateTokenTransferLimits(limits, required(y), FALSE)
                             THEN resolveDebtPositions(y, FALSE, debtOf(required(y))) ELSE {} : y \in burnt}
            paid == UNION {resolveEquityPositions(y, fees.totalQuantity, FALSE, equityOf(required(y)))
                              : y \in repaid}
<1>1. x \in UNION {withSet(y, resolveFees(d, y.set, fees)) : y \in paid}
  BY DEF redeemWithSlippage
<1>2. /\ fees.managerFee \in Nat /\ fees.protocolFee \in Nat /\ fees.totalQuantity \in Int
      /\ fees.totalQuantity >= 0 => fees.managerFee + fees.protocolFee <= quantity
  BY FeesResult
<1>. HIDE DEF fees
<1>3. PICK p \in paid : x \in withSet(p, resolveFees(d, p.set, fees))
  <2>. HIDE DEF paid
  <2>. QED  BY <1>1
<1>4. PICK r \in repaid : p \in resolveEquityPositions(r, fees.totalQuantity, FALSE, equityOf(required(r)))
  <2>. HIDE DEF repaid, required
  <2>. QED  BY <1>3
<1>5. PICK b \in burnt : r \in resolveDebtPositions(b, FALSE, debtOf(required(b)))
  <2>. HIDE DEF burnt, required
  <2>. QED  BY <1>4
<1>6. PICK h \in hooked : b \in withSet(h, burn(h.set, IssuanceModule, quantity))
  <2>. HIDE DEF hooked
  <2>. QED  BY <1>5
<1>. HIDE DEF required
<1>6a. fees.totalQuantity >= 0
  <2>. HIDE DEF burnt, repaid, paid
  <2>. QED  BY <1>6
<1>7. Sound(h, most, gone) /\ World(h)
  <2>. DEFINE total == fees.totalQuantity
              isIssue == FALSE
  <2>1. h \in callModulePreRedeemHooks(d, w, total)
    <3>. HIDE DEF burnt, repaid, paid
    <3>. QED  BY <1>6
  <2>2. total \in Int
    BY <1>2
  <2>3. h \in callModulePreHooks(d, w, total, isIssue) /\ total \in Int /\ isIssue \in BOOLEAN
    <3>. HIDE DEF total, hooked, burnt, repaid, paid
    <3>. QED  BY <2>1, <2>2 DEF callModulePreRedeemHooks
  <2>. HIDE DEF total, isIssue
  <2>4. SoundLike(w, h, most, gone)
    BY <2>3, PreHooksResult
  <2>. QED  BY <2>4 DEF SoundLike, Sound
<1>8. /\ b = [h EXCEPT !.set = [h.set EXCEPT !.totalSupply = @ - quantity]]
      /\ quantity <= h.set.totalSupply
  BY <1>6 DEF withSet, burn, Require
<1>9. Resupplied(h, b) /\ b.set.totalSupply = h.set.totalSupply - quantity
  <2>. DEFINE t == [h.set EXCEPT !.totalSupply = @ - quantity]
  <2>1. DOMAIN t = DOMAIN h.set /\ t.totalSupply = h.set.totalSupply - quantity /\ t.totalSupply \in Nat
    BY <1>7, <1>8 DEF World
  <2>. HIDE DEF t
  <2>2. DOMAIN b = DOMAIN h /\ b.set = t /\ b.perp = h.perp /\ b.positions = h.positions
    BY <1>7, <1>8 DEF World, t
  <2>. QED  BY <2>1, <2>2 DEF Resupplied, SameBase
<1>10. h.set.totalSupply \in Nat /\ h.set.totalSupply <= most
  BY <1>7 DEF World, Sound
<1>11. Sound(b, most, gone) /\ World(b)
  <2>1. b.set.totalSupply <= most
    BY <1>9, <1>10
  <2>2. Sound(b, most, gone)
    BY <1>7, <1>9, <2>1, ResuppliedSound
  <2>. QED  BY <2>2 DEF Sound
<1>12. Kept(b, r) /\ Sound(r, most, gone) /\ World(r)
  BY <1>5, <1>11, DebtKeeps, KeptSound, KeptIsWorld
<1>13. Kept(r, p) /\ Sound(p, most, gone) /\ World(p)
  BY <1>4, <1>12, EquityKeeps, KeptSound, KeptIsWorld
<1>14. /\ p.set.totalSupply = h.set.totalSupply - quantity
       /\ "totalSupply" \in DOMAIN p.set /\ p.set.totalSupply \in Nat
  BY <1>9, <1>12, <1>13 DEF Kept, SameSupply, World
<1>15. PICK s \in resolveFees(d, p.set, fees) : x = [p EXCEPT !.set = s]
  BY <1>3 DEF withSet
<1>16. /\ DOMAIN s = DOMAIN p.set /\ s.totalSupply \in Nat
       /\ s.totalSupply <= p.set.totalSupply + fees.managerFee + fees.protocolFee
  BY <1>2, <1>14, <1>15, ResolveFeesResult
<1>17. DOMAIN x = DOMAIN p /\ x.set = s /\ x.perp = p.perp /\ x.positions = p.positions
  BY <1>13, <1>15 DEF World
<1>18. Resupplied(p, x)
  BY <1>16, <1>17 DEF Resupplied, SameBase
<1>19. x.set.totalSupply <= most
  BY <1>6a, <1>2, <1>10, <1>14, <1>16, <1>17
<1>. QED  BY <1>13, <1>18, <1>19, ResuppliedSound
-----------------------------------------------------------------------------
(* The manager's trades, liquidations and the module's removal. *)

\* Once a market has moved, nothing is known of it until the list is updated.
LEMMA MovedSound ==
    ASSUME NEW w, NEW x, NEW most, NEW gone, NEW t, Sound(w, most, gone), Moved(w, x, t)
    PROVE  Sound(x, most, gone \cup {t})
<1>1. World(x)
  BY DEF Sound, Moved, World
<1>2. OnlyDustUnlisted(x, most, gone \cup {t})
  BY DEF Sound, Moved, OnlyDustUnlisted
<1>. QED  BY <1>1, <1>2 DEF Sound, Moved

LEMMA UpdateResult ==
    ASSUME NEW w, NEW most \in Nat, NEW gone, NEW t \in BaseTokens, Sound(w, most, gone \cup {t}),
           w.set.totalSupply > 0, NEW x \in updatePositionList(w, t)
    PROVE  Sound(x, most, gone)
<1>1. World(w) /\ Listing(w.positions) /\ Len(w.positions) \in Nat
  BY DEF Sound, World, Listing
<1>2. CASE contains(w.positions, t)
  <2>1. Sound(w, most, gone)
    BY <1>2 DEF Sound, OnlyDustUnlisted
  <2>2. Dropped(w, x)
    BY <1>1, <1>2, DropResult DEF updatePositionList
  <2>. QED  BY <2>1, <2>2, DroppedSound
<1>3. CASE ~contains(w.positions, t)
  <2>. DEFINE longer == Append(w.positions, t)
  <2>1. Len(w.positions) < MaxPerpPositionsPerSet /\ x = [w EXCEPT !.positions = longer]
    BY <1>3 DEF updatePositionList, Require
  <2>2. /\ Listing(longer) /\ Len(longer) = Len(w.positions) + 1
        /\ \A u : contains(longer, u) <=> contains(w.positions, u) \/ u = t
    BY <1>1, <1>3, PushOfOne
  <2>. HIDE DEF longer
  <2>3. DOMAIN x = DOMAIN w /\ x.set = w.set /\ x.perp = w.perp /\ x.positions = longer
    BY <1>1, <2>1 DEF World
  <2>4. World(x)
    BY <1>1, <2>2, <2>3 DEF World
  <2>5. Len(x.positions) <= MaxPerpPositionsPerSet
    BY <1>1, <2>1, <2>2, <2>3, PerpInputsAssumption
  <2>6. OnlyDustUnlisted(x, most, gone)
    BY <2>2, <2>3 DEF Sound, OnlyDustUnlisted
  <2>. QED  BY <2>3, <2>4, <2>5, <2>6 DEF Sound
<1>. QED  BY <1>2, <1>3

\* A trade: the account, the protocol's fee and then the list.
LEMMA TradeResult ==
    ASSUME NEW w, NEW most \in Nat, NEW gone, Sound(w, most, gone), NEW caller, NEW t \in BaseTokens,
           NEW units, NEW bound, NEW x \in Trade(w, caller, t, units, bound)
    PROVE  Sound(x, most, gone)
<1>. DEFINE quantity == baseNotional(w, t, units)
            limit == preciseMul(bound, w.set.totalSupply)
            listed(r) == UNION {updatePositionList(y, t) : y \in accrueProtocolFee(r.world, r.deltaQuote)}
<1>1. /\ w.set.totalSupply > 0 /\ units \in Int
      /\ x \in UNION {listed(r) : r \in executeTrade(w, t, quantity, limit)}
  BY DEF Trade
<1>2. World(w) /\ w.perp.base[t] \in Int /\ w.set.totalSupply \in Int
  BY DEF Sound, World, Account
<1>3. quantity \in Int
  <2>1. preciseMulInt(units, w.set.totalSupply) \in Int
    <3>. DEFINE total == w.set.totalSupply
    <3>1. total \in Int /\ units \in Int
      BY <1>1, <1>2
    <3>. HIDE DEF total
    <3>2. preciseMulInt(units, total) \in Int
      BY <3>1, SignedResults
    <3>. QED  BY <3>2 DEF total
  <2>. QED  BY <1>2, <2>1 DEF baseNotional
<1>. HIDE DEF quantity, limit
<1>4. PICK r \in executeTrade(w, t, quantity, limit) : x \in listed(r)
  <2>. HIDE DEF listed
  <2>. QED  BY <1>1
<1>5. PICK y \in accrueProtocolFee(r.world, r.deltaQuote) : x \in updatePositionList(y, t)
  BY <1>4
<1>6. Moved(w, r.world, t)
  BY <1>2, <1>3, <1>4, ExecuteTradeResult
<1>7. Sound(r.world, most, gone \cup {t}) /\ World(r.world) /\ r.world.set = w.set
  BY <1>6, MovedSound DEF Sound, Moved
<1>8. Kept(r.world, y)
  BY <1>5, <1>7, FeeKeeps
<1>9. Sound(y, most, gone \cup {t}) /\ y.set.totalSupply > 0
  BY <1>1, <1>7, <1>8, KeptSound DEF Kept, SameSupply
<1>. QED  BY <1>5, <1>9, UpdateResult

\* A liquidation closes the whole position.
LEMMA LiquidationResult ==
    ASSUME NEW w, NEW most \in Nat, NEW gone, Sound(w, most, gone), NEW t \in BaseTokens,
           NEW perp \in liquidate(w.perp, t), NEW x, x = [w EXCEPT !.perp = perp]
    PROVE  Sound(x, most, gone)
<1>. DEFINE isBuy == w.perp.base[t] < 0
            size == abs(w.perp.base[t])
<1>1. World(w) /\ Account(w.perp) /\ w.perp.base[t] \in Int
  BY DEF Sound, World, Account
<1>2. isBuy \in BOOLEAN /\ size \in Int
  BY <1>1 DEF abs
<1>3. PICK r \in openPosition(w.perp, t, size, isBuy, 0) : perp = r.perp
  BY DEF liquidate
<1>4. (IF isBuy THEN size ELSE -size) = -w.perp.base[t]
  BY <1>1 DEF abs
<1>. HIDE DEF isBuy, size
<1>5. Account(perp) /\ perp.base = [w.perp.base EXCEPT ![t] = @ + IF isBuy THEN size ELSE -size]
  BY <1>1, <1>2, <1>3, OpenPositionResult
<1>6. perp.base[t] = 0 /\ \A u \in BaseTokens \ {t} : perp.base[u] = w.perp.base[u]
  BY <1>1, <1>4, <1>5 DEF Account
<1>7. DOMAIN x = DOMAIN w /\ x.set = w.set /\ x.positions = w.positions /\ x.perp = perp
  BY <1>1 DEF World
<1>8. Sound(x, most, gone \cup {t})
  <2>1. Moved(w, x, t)
    BY <1>5, <1>6, <1>7 DEF Moved
  <2>. QED  BY <2>1, MovedSound
<1>9. abs(x.perp.base[t]) * PreciseUnit < 2 * most + PreciseUnit
  <2>1. abs(x.perp.base[t]) = 0
    BY <1>6, <1>7 DEF abs
  <2>. QED  BY <2>1, PreciseUnitAssumption
<1>. QED  BY <1>8, <1>9 DEF Sound, OnlyDustUnlisted

\* The initialization and removal of modules leave the supply alone.
LEMMA ModuleCallsKeepSupply ==
    ASSUME NEW s, "totalSupply" \in DOMAIN s, NEW caller, NEW m,
           NEW t \in addModule(s, caller, m) \cup removeModule(s, caller, m) \cup initializeModule(s, m)
    PROVE  SameSupply(s, t)
BY DEF SameSupply, Require, addModule, removeModule, initializeModule

\* Removing the module empties the list; the markets open at that moment are lost from it.
LEMMA RemovalResult ==
    ASSUME NEW w, NEW most \in Nat, NEW gone, Sound(w, most, gone), NEW x \in removePerp(w),
           NEW caller, NEW s \in removeModule(x.set, caller, PerpModule)
    PROVE  Sound([x EXCEPT !.set = s], most, gone \cup open(w))
<1>. DEFINE y == [x EXCEPT !.set = s]
<1>1. World(w) /\ w.set.totalSupply <= most
  BY DEF Sound
<1>2. x = [w EXCEPT !.positions = <<>>]
  BY DEF removePerp, Require
<1>3. DOMAIN x = DOMAIN w /\ x.set = w.set /\ x.perp = w.perp /\ x.positions = <<>>
  BY <1>1, <1>2 DEF World
<1>4. SameSupply(w.set, s)
  BY <1>1, <1>3, ModuleCallsKeepSupply DEF World
<1>5. DOMAIN y = DOMAIN w /\ y.set = s /\ y.perp = w.perp /\ y.positions = <<>>
  BY <1>1, <1>3 DEF World
<1>. HIDE DEF y
<1>6. <<>> \in Seq(BaseTokens) /\ Len(<<>>) = 0
  OBVIOUS
<1>7. World(y)
  BY <1>1, <1>4, <1>5, <1>6 DEF World, Listing, SameSupply
<1>8. OnlyDustUnlisted(y, most, gone \cup open(w))
  <2>. SUFFICES ASSUME NEW t \in BaseTokens \ (gone \cup open(w))
                PROVE  abs(y.perp.base[t]) * PreciseUnit < 2 * most + PreciseUnit
    BY DEF OnlyDustUnlisted
  <2>1. abs(y.perp.base[t]) = 0
    BY <1>5 DEF open, abs
  <2>. QED  BY <2>1, PreciseUnitAssumption
<1>9. Len(y.positions) <= MaxPerpPositionsPerSet
  BY <1>5, <1>6, PerpInputsAssumption
<1>. QED  BY <1>1, <1>4, <1>5, <1>7, <1>8, <1>9 DEF Sound, SameSupply, y
-----------------------------------------------------------------------------
(* The issuance module's settings. *)

LEMMA UpdatedSettings ==
    ASSUME NEW s, NEW d, SettingsSound(d), NEW caller, NEW recipient, NEW fee \in Nat,
           NEW e \in updateFeeRecipient(s, d, caller, recipient)
                         \cup updateIssueFee(s, d, caller, fee) \cup updateRedeemFee(s, d, caller, fee)
    PROVE  SettingsSound(e)
<1>1. CASE e \in updateFeeRecipient(s, d, caller, recipient)
  BY <1>1 DEF updateFeeRecipient, Require, SettingsSound
<1>2. CASE e \in updateIssueFee(s, d, caller, fee)
  BY <1>2 DEF updateIssueFee, Require, SettingsSound
<1>3. CASE e \in updateRedeemFee(s, d, caller, fee)
  BY <1>3 DEF updateRedeemFee, Require, SettingsSound
<1>. QED  BY <1>1, <1>2, <1>3

LEMMA InitializedSettings ==
    ASSUME NEW s, NEW d, SettingsSound(d), NEW caller, NEW fees \in ManagerFees,
           NEW r \in initializeDebtIssuance(s, d, caller, fees.max, fees.issue, fees.redeem, fees.recipient)
    PROVE  r.set \in initializeModule(s, IssuanceModule) /\ SettingsSound(r.debt)
<1>1. /\ r.set \in initializeModule(s, IssuanceModule)
      /\ r.debt = [d EXCEPT !.maxManagerFee = fees.max, !.managerIssueFee = fees.issue,
                            !.managerRedeemFee = fees.redeem, !.feeRecipient = fees.recipient,
                            !.moduleIssuanceHooks = <<>>]
  BY DEF initializeDebtIssuance
<1>2. fees.max \in Nat /\ fees.issue \in Nat /\ fees.redeem \in Nat
  BY PerpInputsAssumption
<1>3. <<>> \in Seq(Modules)
  OBVIOUS
<1>. QED  BY <1>1, <1>2, <1>3 DEF SettingsSound

LEMMA ClearedSettings ==
    ASSUME NEW hooked
    PROVE  SettingsSound(noSettings(hooked))
<1>1. <<>> \in Seq(Modules) /\ 0 \in Nat
  OBVIOUS
<1>. QED  BY <1>1 DEF SettingsSound, noSettings

\* The perpetual module comes and goes as a hook.
LEMMA HookedSettings ==
    ASSUME NEW s, NEW d, SettingsSound(d),
           NEW e \in try(registerToIssuanceModule(s, d, PerpModule), d)
                         \cup try(unregisterFromIssuanceModule(s, d, PerpModule), d)
    PROVE  SettingsSound(e)
<1>1. d.moduleIssuanceHooks \in Seq(Modules)
  BY DEF SettingsSound
<1>2. CASE e = d
  BY <1>2
<1>3. CASE e \in registerToIssuanceModule(s, d, PerpModule)
  <2>. DEFINE hooks == Append(d.moduleIssuanceHooks, PerpModule)
  <2>1. hooks \in Seq(Modules)
    BY <1>1, PerpModuleAssumption
  <2>2. e = [d EXCEPT !.moduleIssuanceHooks = hooks, !.isModuleHook = @ \cup {PerpModule}]
    BY <1>3 DEF registerToIssuanceModule, Require
  <2>. HIDE DEF hooks
  <2>. QED  BY <2>1, <2>2 DEF SettingsSound
<1>4. CASE e \in unregisterFromIssuanceModule(s, d, PerpModule)
  <2>1. PICK hooks \in removeStorage(d.moduleIssuanceHooks, PerpModule) :
            e = [d EXCEPT !.moduleIssuanceHooks = hooks, !.isModuleHook = @ \ {PerpModule}]
    BY <1>4 DEF unregisterFromIssuanceModule
  <2>2. hooks \in Seq(Modules)
    BY <1>1, RemoveStorageResult
  <2>. QED  BY <2>1, <2>2 DEF SettingsSound
<1>. QED  BY <1>2, <1>3, <1>4 DEF try
-----------------------------------------------------------------------------
(* The invariant is inductive. *)

\* A call about the set's modules.
LEMMA ModuleCallsSound ==
    ASSUME NEW w, NEW most, NEW gone, Sound(w, most, gone), NEW caller, NEW m,
           NEW s \in addModule(w.set, caller, m) \cup removeModule(w.set, caller, m)
                         \cup initializeModule(w.set, m)
    PROVE  Sound([w EXCEPT !.set = s], most, gone)
<1>1. World(w) /\ "totalSupply" \in DOMAIN w.set
  BY DEF Sound, World
<1>2. SameSupply(w.set, s)
  BY <1>1, ModuleCallsKeepSupply
<1>3. Kept(w, [w EXCEPT !.set = s])
  BY <1>1, <1>2 DEF Kept, SameBase, World
<1>. QED  BY <1>3, KeptSound

LEMMA PerpInit ==
    ASSUME Init
    PROVE  PerpInv
<1>1. PICK manager \in Managers \ {ZeroAddress}, price \in Prices :
          world = [set |-> newSetToken(InitialUnits, Modules, manager),
                   perp |-> noAccount(price), positions |-> <<>>]
  BY DEF Init
<1>2. /\ DOMAIN world = {"set", "perp", "positions"}
      /\ world.set = newSetToken(InitialUnits, Modules, manager)
      /\ world.perp = noAccount(price) /\ world.positions = <<>>
  BY <1>1
<1>3. "totalSupply" \in DOMAIN world.set /\ world.set.totalSupply = 0
  BY <1>2 DEF newSetToken
<1>4. "base" \in DOMAIN world.perp /\ world.perp.base = [t \in BaseTokens |-> 0]
  BY <1>2 DEF noAccount
<1>5. <<>> \in Seq(BaseTokens) /\ Len(<<>>) = 0
  OBVIOUS
<1>6. World(world) /\ peak = 0
  BY <1>2, <1>3, <1>4, <1>5 DEF World, Account, Listing, Init
<1>7. OnlyDustUnlisted(world, peak, abandoned)
  <2>. SUFFICES ASSUME NEW t \in BaseTokens
                PROVE  abs(world.perp.base[t]) * PreciseUnit < 2 * peak + PreciseUnit
    BY DEF OnlyDustUnlisted
  <2>1. abs(world.perp.base[t]) = 0
    BY <1>4 DEF abs
  <2>. QED  BY <1>6, <2>1, PreciseUnitAssumption
<1>8. Len(world.positions) <= MaxPerpPositionsPerSet
  BY <1>2, <1>5, PerpInputsAssumption
<1>9. SettingsSound(debt)
  BY ClearedSettings DEF Init
<1>. QED  BY <1>3, <1>6, <1>7, <1>8, <1>9 DEF PerpInv, Sound

LEMMA PerpHolders ==
    ASSUME PerpInv, HolderNext
    PROVE  PerpInv'
<1>1. peak \in Nat /\ Sound(world, peak, abandoned) /\ SettingsSound(debt)
  BY DEF PerpInv
<1>2. ASSUME NEW quantity \in IssueQuantities, NEW limits \in Limits, Issue(quantity, limits)
      PROVE  PerpInv'
  <2>1. /\ world' \in issueWithSlippage(debt, world, quantity, limits)
        /\ peak' = IF world'.set.totalSupply > peak THEN world'.set.totalSupply ELSE peak
        /\ debt' = debt /\ abandoned' = abandoned /\ quantity \in Nat
    BY <1>2, PerpInputsAssumption DEF Issue
  <2>2. PICK y : Sound(y, peak, abandoned) /\ Resupplied(y, world')
    BY <1>1, <2>1, IssueResult
  <2>3. world'.set.totalSupply \in Nat
    BY <2>2 DEF Resupplied
  <2>4. peak' \in Nat /\ peak <= peak' /\ world'.set.totalSupply <= peak'
    BY <1>1, <2>1, <2>3
  <2>5. Sound(world', peak', abandoned)
    BY <1>1, <2>2, <2>4, ResuppliedSound
  <2>. QED  BY <1>1, <2>1, <2>4, <2>5 DEF PerpInv, Sound, OnlyDustUnlisted, World, Account, Listing, SettingsSound
<1>3. ASSUME NEW quantity \in RedeemQuantities, NEW limits \in Limits, Redeem(quantity, limits)
      PROVE  PerpInv'
  <2>1. /\ world' \in redeemWithSlippage(debt, world, quantity, limits)
        /\ peak' = peak /\ debt' = debt /\ abandoned' = abandoned /\ quantity \in Nat
    BY <1>3, PerpInputsAssumption DEF Redeem
  <2>2. Sound(world', peak, abandoned)
    BY <1>1, <2>1, RedeemResult
  <2>. QED  BY <1>1, <2>1, <2>2 DEF PerpInv
<1>4. ASSUME NEW quantity \in IssueQuantities, NEW isIssue \in BOOLEAN, AskUnits(quantity, isIssue)
      PROVE  PerpInv'
  <2>. DEFINE total == calculateTotalFees(debt, quantity, isIssue).totalQuantity
  <2>1. PICK r \in getRequiredComponentUnitsOffChain(debt, world, quantity, isIssue) : world' = r.world
    BY <1>4 DEF AskUnits
  <2>2. PICK a \in calculateAdjustments(debt, world, total, isIssue) : r.world = a.world
    BY <2>1 DEF getRequiredComponentUnitsOffChain
  <2>3. total \in Int
    BY <1>1, FeesResult, PerpInputsAssumption
  <2>. HIDE DEF total
  <2>4. Sound(world', peak, abandoned)
    BY <1>1, <2>1, <2>2, <2>3, AdjustmentsResult DEF SoundLike
  <2>5. peak' = peak /\ debt' = debt /\ abandoned' = abandoned
    BY <1>4 DEF AskUnits
  <2>. QED  BY <1>1, <2>4, <2>5 DEF PerpInv
<1>. QED  BY <1>2, <1>3, <1>4 DEF HolderNext

LEMMA PerpMarkets ==
    ASSUME PerpInv, MarketNext
    PROVE  PerpInv'
<1>1. peak \in Nat /\ Sound(world, peak, abandoned) /\ SettingsSound(debt) /\ World(world)
  BY DEF PerpInv, Sound
<1>2. ASSUME NEW price \in Prices, MovePrice(price) PROVE PerpInv'
  <2>1. world' = [world EXCEPT !.perp.price = price]
    BY <1>2 DEF MovePrice
  <2>2. Kept(world, world')
    BY <1>1, <2>1 DEF Kept, SameSupply, SameBase, World, Account
  <2>3. Sound(world', peak, abandoned)
    BY <1>1, <2>2, KeptSound
  <2>4. peak' = peak /\ debt' = debt /\ abandoned' = abandoned
    BY <1>2 DEF MovePrice
  <2>. QED  BY <1>1, <2>3, <2>4 DEF PerpInv
<1>3. ASSUME NEW t \in BaseTokens, NEW premium \in Premiums, AccruePremium(t, premium) PROVE PerpInv'
  <2>1. world' = [world EXCEPT !.perp.twPremium[t] = @ + premium]
    BY <1>3 DEF AccruePremium
  <2>2. Kept(world, world')
    BY <1>1, <2>1 DEF Kept, SameSupply, SameBase, World, Account
  <2>3. Sound(world', peak, abandoned)
    BY <1>1, <2>2, KeptSound
  <2>4. peak' = peak /\ debt' = debt /\ abandoned' = abandoned
    BY <1>3 DEF AccruePremium
  <2>. QED  BY <1>1, <2>3, <2>4 DEF PerpInv
<1>4. ASSUME NEW t \in BaseTokens, Liquidate(t) PROVE PerpInv'
  <2>1. PICK perp \in liquidate(world.perp, t) : world' = [world EXCEPT !.perp = perp]
    BY <1>4 DEF Liquidate
  <2>2. Sound(world', peak, abandoned)
    BY <1>1, <2>1, LiquidationResult
  <2>3. peak' = peak /\ debt' = debt /\ abandoned' = abandoned
    BY <1>4 DEF Liquidate
  <2>. QED  BY <1>1, <2>2, <2>3 DEF PerpInv
<1>. QED  BY <1>2, <1>3, <1>4 DEF MarketNext

LEMMA PerpTrades ==
    ASSUME PerpInv, NEW caller, NEW t \in BaseTokens, NEW units, NEW bound,
           ManagerTrade(caller, t, units, bound)
    PROVE  PerpInv'
<1>1. peak \in Nat /\ Sound(world, peak, abandoned) /\ SettingsSound(debt)
  BY DEF PerpInv
<1>2. /\ world' \in Trade(world, caller, t, units, bound)
      /\ peak' = peak /\ debt' = debt /\ abandoned' = abandoned
  BY DEF ManagerTrade
<1>3. Sound(world', peak, abandoned)
  BY <1>1, <1>2, TradeResult
<1>. QED  BY <1>1, <1>2, <1>3 DEF PerpInv

LEMMA PerpManager ==
    ASSUME PerpInv, NEW caller, ManagerNext(caller)
    PROVE  PerpInv'
<1>1. peak \in Nat /\ Sound(world, peak, abandoned) /\ SettingsSound(debt) /\ World(world)
  BY DEF PerpInv, Sound
<1>2. ASSUME NEW units, ManagerDeposit(caller, units) \/ ManagerWithdraw(caller, units) PROVE PerpInv'
  <2>1. /\ world' \in Deposit(world, caller, units) \cup Withdraw(world, caller, units)
        /\ peak' = peak /\ debt' = debt /\ abandoned' = abandoned
    BY <1>2 DEF ManagerDeposit, ManagerWithdraw
  <2>2. Sound(world', peak, abandoned)
    BY <1>1, <2>1, DepositsKeep, KeptSound
  <2>. QED  BY <1>1, <2>1, <2>2 DEF PerpInv
<1>3. ASSUME NEW t \in BaseTokens, NEW ratio, NEW isLong, LeverUp(caller, t, ratio, isLong) PROVE PerpInv'
  <2>1. PICK units, bound : ManagerTrade(caller, t, units, bound)
    BY <1>3 DEF LeverUp
  <2>. QED  BY <2>1, PerpTrades
<1>4. ASSUME NEW t \in BaseTokens, ClosePosition(caller, t) PROVE PerpInv'
  <2>1. PICK units : ManagerTrade(caller, t, units, 0)
    BY <1>4 DEF ClosePosition
  <2>. QED  BY <2>1, PerpTrades
<1>5. ASSUME UpdateSettings(caller) PROVE PerpInv'
  <2>1. world' = world /\ peak' = peak /\ abandoned' = abandoned
    BY <1>5 DEF UpdateSettings
  <2>2. SettingsSound(debt')
    <3>1. ASSUME NEW recipient, NEW fee \in Nat,
                 debt' \in updateFeeRecipient(world.set, debt, caller, recipient)
                     \cup updateIssueFee(world.set, debt, caller, fee)
                     \cup updateRedeemFee(world.set, debt, caller, fee)
          PROVE  SettingsSound(debt')
      BY <1>1, <3>1, UpdatedSettings
    <3>2. 0 \in Nat /\ NewFees \subseteq Nat
      BY PerpInputsAssumption
    <3>. QED  BY <1>5, <3>1, <3>2 DEF UpdateSettings
  <2>. QED  BY <1>1, <2>1, <2>2 DEF PerpInv
<1>6. ASSUME NEW fees \in ManagerFees, InitializeIssuance(caller, fees) PROVE PerpInv'
  <2>1. PICK r \in initializeDebtIssuance(world.set, debt, caller, fees.max, fees.issue, fees.redeem,
                                          fees.recipient) :
            world' = [world EXCEPT !.set = r.set] /\ debt' = r.debt
    BY <1>6 DEF InitializeIssuance
  <2>2. r.set \in initializeModule(world.set, IssuanceModule) /\ SettingsSound(r.debt)
    BY <1>1, <2>1, InitializedSettings
  <2>3. Sound(world', peak, abandoned)
    BY <1>1, <2>1, <2>2, ModuleCallsSound
  <2>4. peak' = peak /\ abandoned' = abandoned
    BY <1>6 DEF InitializeIssuance
  <2>. QED  BY <1>1, <2>1, <2>2, <2>3, <2>4 DEF PerpInv
<1>7. ASSUME InitializePerp(caller) PROVE PerpInv'
  <2>1. PICK r \in initializePerp(world, debt, caller) : world' = r.world /\ debt' = r.debt
    BY <1>7 DEF InitializePerp
  <2>2. PICK s \in initializeModule(world.set, PerpModule) :
            r \in {[world |-> [world EXCEPT !.set = s], debt |-> registered] :
                       registered \in try(registerToIssuanceModule(s, debt, PerpModule), debt)}
    BY <2>1 DEF initializePerp
  <2>3. PICK e \in try(registerToIssuanceModule(s, debt, PerpModule), debt) :
            r.world = [world EXCEPT !.set = s] /\ r.debt = e
    BY <2>2
  <2>4. Sound(world', peak, abandoned)
    BY <1>1, <2>1, <2>2, <2>3, ModuleCallsSound
  <2>5. SettingsSound(debt')
    BY <1>1, <2>1, <2>3, HookedSettings
  <2>6. peak' = peak /\ abandoned' = abandoned
    BY <1>7 DEF InitializePerp
  <2>. QED  BY <1>1, <2>4, <2>5, <2>6 DEF PerpInv
<1>8. ASSUME NEW m \in Modules, AddModule(caller, m) PROVE PerpInv'
  <2>1. PICK s \in addModule(world.set, caller, m) : world' = [world EXCEPT !.set = s]
    BY <1>8 DEF AddModule, withSet
  <2>2. Sound(world', peak, abandoned)
    BY <1>1, <2>1, ModuleCallsSound
  <2>3. peak' = peak /\ debt' = debt /\ abandoned' = abandoned
    BY <1>8 DEF AddModule
  <2>. QED  BY <1>1, <2>2, <2>3 DEF PerpInv
<1>9. ASSUME RemovePerp(caller) PROVE PerpInv'
  <2>1. PICK r \in removePerpModule(world, debt, caller) : world' = r.world /\ debt' = r.debt
    BY <1>9 DEF RemovePerp
  <2>2. PICK x \in removePerp(world) :
            r \in {[world |-> [x EXCEPT !.set = s], debt |-> unregistered] :
                       s \in removeModule(x.set, caller, PerpModule),
                       unregistered \in try(unregisterFromIssuanceModule(x.set, debt, PerpModule), debt)}
    BY <2>1 DEF removePerpModule
  <2>3. PICK s \in removeModule(x.set, caller, PerpModule),
             e \in try(unregisterFromIssuanceModule(x.set, debt, PerpModule), debt) :
            r.world = [x EXCEPT !.set = s] /\ r.debt = e
    BY <2>2
  <2>4. Sound(world', peak, abandoned \cup open(world))
    BY <1>1, <2>1, <2>2, <2>3, RemovalResult
  <2>5. SettingsSound(debt')
    BY <1>1, <2>1, <2>3, HookedSettings
  <2>6. peak' = peak /\ abandoned' = abandoned \cup open(world)
    BY <1>9 DEF RemovePerp
  <2>. QED  BY <1>1, <2>4, <2>5, <2>6 DEF PerpInv
<1>10. ASSUME RemoveIssuance(caller) PROVE PerpInv'
  <2>1. PICK s \in removeModule(world.set, caller, IssuanceModule) : world' = [world EXCEPT !.set = s]
    BY <1>10 DEF RemoveIssuance, withSet
  <2>2. Sound(world', peak, abandoned)
    BY <1>1, <2>1, ModuleCallsSound
  <2>3. SettingsSound(debt')
    BY <1>10, ClearedSettings DEF RemoveIssuance, removeDebtIssuance, Require
  <2>4. peak' = peak /\ abandoned' = abandoned
    BY <1>10 DEF RemoveIssuance
  <2>. QED  BY <1>1, <2>2, <2>3, <2>4 DEF PerpInv
<1>. QED
  BY <1>2, <1>3, <1>4, <1>5, <1>6, <1>7, <1>8, <1>9, <1>10, PerpTrades DEF ManagerNext

LEMMA PerpStep ==
    ASSUME PerpInv, [Next]_vars
    PROVE  PerpInv'
<1>1. CASE HolderNext
  BY <1>1, PerpHolders
<1>2. CASE MarketNext
  BY <1>2, PerpMarkets
<1>3. CASE \E caller \in Managers \ {ZeroAddress} : ManagerNext(caller)
  BY <1>3, PerpManager
<1>4. CASE UNCHANGED vars
  BY <1>4 DEF vars, PerpInv
<1>. QED  BY <1>1, <1>2, <1>3, <1>4 DEF Next

LEMMA PerpInvLists ==
    ASSUME PerpInv
    PROVE  PositionsListed
<1>1. Listing(world.positions) /\ DOMAIN world.positions = 1 .. Len(world.positions)
  BY DEF PerpInv, Sound, World, Listing
<1>. QED  BY <1>1 DEF PositionsListed, PerpInv, Sound, OnlyDustUnlisted, Listing

\* PerpV2LeverageModuleV2.sol's list of positions, through any order of issues,
\* redemptions, trades, liquidations, changes of settings and removals: it
\* names no market twice, stays within maxPerpPositionsPerSet, and misses only
\* markets whose balance is dust, or that were open when the module was removed.
THEOREM PositionsAlwaysListed == Spec => []PositionsListed
<1>1. Init => PerpInv
  BY PerpInit
<1>2. PerpInv /\ [Next]_vars => PerpInv'
  BY PerpStep
<1>3. PerpInv => PositionsListed
  BY PerpInvLists
<1>. QED  BY <1>1, <1>2, <1>3, PTL DEF Spec
=============================================================================

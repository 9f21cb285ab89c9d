---------------------------- MODULE MCIndexSystem ----------------------------
(***************************************************************************)
(* Small values for IndexSystem: two components, one of them the quote     *)
(* asset, and prices around one.                                           *)
(***************************************************************************)
EXTENDS IndexSystem, TLC

CONSTANTS comp, usdc

MCTokens == {comp, usdc}
MCModules == {IssuanceModule, StreamingModule, AuctionModule}

MCOneUnitEach == {comp :> 2 @@ usdc :> 2}
MCThreeAndTwo == {comp :> 3 @@ usdc :> 2}
MCFiveEach == {comp :> 5 @@ usdc :> 5}

price(adapter, initial, slope, isDecreasing, max, min) ==
    [adapter |-> adapter, initialPrice |-> initial, scalingFactor |-> slope,
     timeCoefficient |-> 1, bucketSize |-> 1, isDecreasing |-> isDecreasing,
     maxPrice |-> max, minPrice |-> min]

MCParPrice == {price("constant", 9, 0, TRUE, 0, 0)}
MCUnitPrice == {price("constant", 2, 0, TRUE, 0, 0)}
MCFallingPrice == {price("linear", 5, 2, TRUE, 6, 2)}

\* The curves in use here are the constant and the linear one.
MCNoCurve == [x \in Words |-> 0]

MCNoFee == {[fee |-> 0, maxFee |-> 1]}
MCYearlyFee == {[fee |-> 1, maxFee |-> 3]}
=============================================================================

------------------------- MODULE StreamingFeeModule -------------------------
(***************************************************************************)
(* contracts/protocol/modules/v1/StreamingFeeModule.sol: a yearly fee      *)
(* taken by minting sets and scaling every position down.  Its state is    *)
(* the record f, feeStates of the one set.  A call's outcome is the pair   *)
(* [set, fees] of new states.                                              *)
(***************************************************************************)
EXTENDS Position

CONSTANTS StreamingModule,
          OneYear,        \* ONE_YEAR_IN_SECONDS
          Recipients      \* accounts that can receive the fee

ASSUME OneYearAssumption == OneYear \in Nat \ {0}

\* delete feeStates[set]
noFees == [streamingFeePercentage |-> 0, maxStreamingFeePercentage |-> 0,
           lastStreamingFeeTimestamp |-> 0, feeRecipient |-> ZeroAddress]

FeeState == [streamingFeePercentage : Nat, maxStreamingFeePercentage : Nat,
             lastStreamingFeeTimestamp : Nat, feeRecipient : Recipients \cup {ZeroAddress}]

calculateStreamingFee(f, now) ==
    ((now - f.lastStreamingFeeTimestamp) * f.streamingFeePercentage) \div OneYear

\* The percentage of the old supply: the recipient owns less of the new one.
calculateStreamingFeeInflationOfOldSupply(s, feePercentage) ==
    preciseMul(feePercentage, s.totalSupply)

\* The quantity that makes the recipient own feePercentage of the new supply.
calculateStreamingFeeInflation(s, feePercentage) ==
    (feePercentage * s.totalSupply) \div (PreciseUnit - feePercentage)

\* The manager's and the protocol's share are minted, together feeQuantity.
mintManagerAndProtocolFee(s, feeQuantity) == mint(s, StreamingModule, feeQuantity)

\* Positions are scaled down less than the supply grows.
editMultiplierForFeeRoundsUp(s, inflationFee) ==
    editPositionMultiplier(s, StreamingModule,
        preciseMulCeil(s.positionMultiplier, PreciseUnit - inflationFee))

editMultiplierForFee(s, inflationFee) ==
    editPositionMultiplier(s, StreamingModule,
        preciseMulInt(s.positionMultiplier, PreciseUnit - inflationFee))

\* Fees are minted and positions scaled down; from 100% on the accrual reverts.
accrue(s, f, now) ==
    LET inflation == calculateStreamingFee(f, now)
        minted == mintManagerAndProtocolFee(s, calculateStreamingFeeInflation(s, inflation))
    IN  IF f.streamingFeePercentage = 0 THEN {s}
        ELSE IF inflation >= PreciseUnit THEN {}
        ELSE UNION {editMultiplierForFee(t, inflation) : t \in minted}

accrueFee(s, f, now) ==
    {[set |-> t, fees |-> [f EXCEPT !.lastStreamingFeeTimestamp = now]] :
        t \in IF validAndInitializedSet(s, StreamingModule) THEN accrue(s, f, now) ELSE {}}

initializeFees(s, f, caller, fee, maxFee, recipient, now) ==
    {[set |-> t, fees |-> [streamingFeePercentage |-> fee, maxStreamingFeePercentage |-> maxFee,
                           lastStreamingFeeTimestamp |-> now, feeRecipient |-> recipient]] :
        t \in IF /\ onlyManager(s, caller)
                 /\ validAndPendingSet(s, StreamingModule)
                 /\ recipient # ZeroAddress
                 /\ maxFee < PreciseUnit
                 /\ fee <= maxFee
              THEN initializeModule(s, StreamingModule)
              ELSE {}}

\* Fees accrue at the old rate up to now before the new rate applies.
updateStreamingFee(s, f, caller, newFee, now) ==
    {[r EXCEPT !.fees.streamingFeePercentage = newFee] :
        r \in IF /\ onlyManager(s, caller)
                 /\ newFee < f.maxStreamingFeePercentage
              THEN accrueFee(s, f, now)
              ELSE {}}

updateFeeRecipient(s, f, caller, recipient) ==
    Require(/\ onlyManager(s, caller)
            /\ validAndInitializedSet(s, StreamingModule)
            /\ recipient # ZeroAddress,
            [f EXCEPT !.feeRecipient = recipient])
=============================================================================

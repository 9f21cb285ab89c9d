--------------------------- MODULE FeeModuleUtils ---------------------------
(***************************************************************************)
(* utils/common/feeModuleUtils.ts: what the tests expect of a streaming    *)
(* fee accrual.                                                            *)
(***************************************************************************)
EXTENDS MathUtils

CONSTANT OneYear   \* ONE_YEAR_IN_SECONDS

\* streamingFee is the rate read from the fee module, or the one passed in.
getStreamingFee(previousAccrueTimestamp, recentAccrueTimestamp, streamingFee) ==
    quotient((recentAccrueTimestamp - previousAccrueTimestamp) * streamingFee, OneYear)

getStreamingFeeInflationAmount(inflationPercent, totalSupply) ==
    quotient(inflationPercent * totalSupply, PreciseUnit - inflationPercent)

\* preFeeUnits is a function from components to units.
getPostFeePositionUnits(preFeeUnits, inflationPercent) ==
    [c \in DOMAIN preFeeUnits |->
        IF preFeeUnits[c] >= 0
        THEN preciseMul(preFeeUnits[c], PreciseUnit - inflationPercent)
        ELSE preciseMulCeilInt(preFeeUnits[c], PreciseUnit - inflationPercent)]
=============================================================================

----------------------- MODULE NavIssuanceModuleUtils -----------------------
(***************************************************************************)
(* utils/common/navIssuanceModuleUtils.ts: what the tests expect of an     *)
(* issue or a redemption at net asset value.  The supply and the valuation *)
(* that getExpectedSetTokenIssueQuantity reads from the chain are its      *)
(* arguments here.                                                         *)
(***************************************************************************)
EXTENDS MathUtils

\* What is left of a quantity after both fees, each rounded down by itself.
getExpectedPostFeeQuantity(quantity, managerFee, protocolDirectFee) ==
    quantity - preciseMul(quantity, managerFee) - preciseMul(quantity, protocolDirectFee)

\* The rounding on the contracts when units go from real to virtual and back.
roundDownPositionUnit(unit, multiplier) == preciseDiv(preciseMul(unit, multiplier), multiplier)

getExpectedIssuePositionMultiplier(previousMultiplier, previousSupply, currentSupply) ==
    LET inflation == preciseDivCeil(currentSupply - previousSupply, currentSupply)
    IN  preciseMul(previousMultiplier, PreciseUnit - inflation)

getExpectedSetTokenIssueQuantity(valuation, supply, baseUnits, quantity, managerFee, directFee, premium) ==
    LET subFees == getExpectedPostFeeQuantity(quantity, managerFee, directFee)
        subFeesAndPremium == subFees - preciseMul(subFees, premium)
        normalized == preciseDiv(subFeesAndPremium, baseUnits)
        denominator == preciseMul(supply, valuation) + preciseDiv(subFees, baseUnits) - normalized
    IN  preciseDiv(preciseMul(normalized, supply), denominator)

getExpectedIssuePositionUnit(previousUnits, quantity, previousSupply, currentSupply, multiplier, managerFee, directFee) ==
    LET subFees == getExpectedPostFeeQuantity(quantity, managerFee, directFee)
        numerator == preciseMul(previousSupply, previousUnits) + subFees
    IN  roundDownPositionUnit(preciseDiv(numerator, currentSupply), multiplier)

\* The value of the redeemed sets less the premium, in normalized units.
redeemValueSubPremium(quantity, valuation, premium) ==
    LET value == preciseMul(valuation, quantity)
    IN  value - preciseMulCeil(value, premium)

\* Fees are taken before the quantity is brought to the reserve's decimals.
getExpectedReserveRedeemQuantity(quantity, valuation, baseUnits, managerFee, directFee, premium) ==
    preciseMul(getExpectedPostFeeQuantity(redeemValueSubPremium(quantity, valuation, premium),
                                          managerFee, directFee),
               baseUnits)

getExpectedRedeemPositionMultiplier(previousMultiplier, previousSupply, currentSupply) ==
    LET deflation == preciseDiv(previousSupply - currentSupply, currentSupply)
    IN  preciseMul(previousMultiplier, PreciseUnit + deflation)

getExpectedRedeemPositionUnit(previousUnits, quantity, valuation, baseUnits, previousSupply, currentSupply, multiplier, premium) ==
    LET reserve == preciseMul(redeemValueSubPremium(quantity, valuation, premium), baseUnits)
        numerator == preciseMul(previousSupply, previousUnits) - reserve
    IN  roundDownPositionUnit(preciseDiv(numerator, currentSupply), multiplier)
=============================================================================

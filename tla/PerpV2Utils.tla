----------------------------- MODULE PerpV2Utils -----------------------------
(***************************************************************************)
(* utils/common/perpV2Utils.ts: how the tests lever a set up and what they *)
(* expect its issue, redemption and leverage to be.  What the functions    *)
(* read from the module and the fixture are their arguments: the module's  *)
(* account info, the supply, positions as a sequence, and the fixture's    *)
(* getSwapQuote and getSpotPrice.                                          *)
(***************************************************************************)
EXTENDS MathUtils, SequencesExt

CONSTANTS CollateralScale,  \* 10^12 for USDC
          OneDay            \* ONE_DAY_IN_SECONDS

toUSDCDecimals(quantity) == quotient(quantity, CollateralScale)

\* The units that leverUp trades, and the bound it sets on the quote: two
\* percent from the spot price, whatever slippage it is called with.
leverUp(collateralBalance, totalSupply, spotPrice, leverageRatio, isLong) ==
    LET base == preciseDiv(collateralBalance * leverageRatio, spotPrice)
        unit == preciseDiv(base, totalSupply)
        estimated == preciseMul(base, spotPrice)
        allowedSlippage == preciseMul(estimated, quotient(2 * PreciseUnit, 100))
    IN  [baseTradeQuantityUnit |-> IF isLong THEN unit ELSE -unit,
         receiveQuoteQuantityUnit |->
             preciseDiv(IF isLong THEN estimated + allowedSlippage ELSE estimated - allowedSlippage,
                        totalSupply)]

\* idealQuote plus expectedSlippage, on either side.
calculateUSDCTransferInPreciseUnits(account, totalSupply, setQuantity, positions, swapQuote, spotPrice) ==
    LET total == account.collateralBalance + account.owedRealizedPnl + account.netQuoteBalance
                     + account.pendingFundingPayments
        quoteOf(position) ==
            LET base == preciseMul(position.baseUnit, setQuantity)
                isLong == base >= 0
                deltaQuote == swapQuote[position.baseToken, IF isLong THEN base ELSE -base, isLong]
                idealQuote == preciseMul(base, spotPrice[position.baseToken])
                expectedSlippage == IF isLong THEN deltaQuote - idealQuote
                                    ELSE (IF idealQuote < 0 THEN -idealQuote ELSE idealQuote) - deltaQuote
            IN  idealQuote + expectedSlippage
    IN  preciseMul(preciseDiv(total, totalSupply), setQuantity)
            + FoldLeft(LAMBDA sum, position : sum + quoteOf(position), 0, positions)

calculateUSDCTransferIn(account, totalSupply, setQuantity, positions, swapQuote, spotPrice) ==
    toUSDCDecimals(calculateUSDCTransferInPreciseUnits(
                       account, totalSupply, setQuantity, positions, swapQuote, spotPrice))

\* Each position closed in proportion; the sign of the result is dropped.
calculateUSDCTransferOutPreciseUnits(account, totalSupply, setQuantity, positions, swapQuote) ==
    LET magnitude(x) == IF x < 0 THEN -x ELSE x
        collateral == account.collateralBalance + account.owedRealizedPnl + account.pendingFundingPayments
        realizedPnl(position) ==
            LET unit == preciseDiv(position.baseBalance, totalSupply)
                base == magnitude(preciseMul(unit, setQuantity))
                isLong == unit >= 0
                closeRatio == preciseDiv(base, magnitude(position.baseBalance))
                reducedOpenNotional == preciseMul(position.quoteBalance, closeRatio)
                deltaQuote == swapQuote[position.baseToken, base, ~isLong]
            IN  IF isLong THEN reducedOpenNotional + deltaQuote ELSE reducedOpenNotional - deltaQuote
    IN  magnitude(preciseMul(preciseDiv(collateral, totalSupply), setQuantity)
                      + FoldLeft(LAMBDA sum, position : sum + realizedPnl(position), 0, positions))

calculateUSDCTransferOut(account, totalSupply, setQuantity, positions, swapQuote) ==
    toUSDCDecimals(calculateUSDCTransferOutPreciseUnits(
                       account, totalSupply, setQuantity, positions, swapQuote))

calculateExternalPositionUnit(account, totalSupply) ==
    toUSDCDecimals(preciseDiv(account.collateralBalance, totalSupply))

\* The magnitude of what a position is owed or owes, signed by who pays whom:
\* below the index price, where the premium is negative, the longs receive.
getNetFundingGrowth(baseBalance, twPremium) ==
    LET growth == preciseMul(baseBalance, quotient(twPremium, OneDay))
        fundingGrowth == IF growth < 0 THEN -growth ELSE growth
    IN  IF (baseBalance > 0) = (twPremium < 0) THEN fundingGrowth ELSE -fundingGrowth

getUSDCDeltaDueToFundingGrowth(totalSupply, setQuantity, baseBalance, twPremium) ==
    preciseMul(preciseDiv(getNetFundingGrowth(baseBalance, twPremium), totalSupply), setQuantity)

totalCollateralValue(account) ==
    account.collateralBalance + account.owedRealizedPnl + account.pendingFundingPayments

calculateLeverageRatios(account, positions, indexPrice) ==
    [i \in DOMAIN positions |->
        LET positionValue == preciseMul(indexPrice[positions[i].baseToken], positions[i].baseBalance)
        IN  preciseDiv(positionValue,
                       positionValue + totalCollateralValue(account) + positions[i].quoteBalance)]

\* imRatio has the precision of PreciseUnit here and six decimals in the code.
calculateMaxIssueQuantity(account, totalSupply, slippage, imRatio, unrealizedPnl, totalDebtValue, totalAbsPositionValue) ==
    LET loss == IF unrealizedPnl >= 0 THEN 0 ELSE unrealizedPnl
        availableDebt == preciseDiv(totalCollateralValue(account) + loss, imRatio) - totalDebtValue
        withSlippage == availableDebt - preciseDiv(preciseMul(availableDebt, slippage), imRatio)
    IN  preciseMul(preciseDiv(withSlippage, totalAbsPositionValue), totalSupply)
=============================================================================

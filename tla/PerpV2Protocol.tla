--------------------------- MODULE PerpV2Protocol ---------------------------
(***************************************************************************)
(* Perpetual Protocol V2 as the leverage module calls it (external; its    *)
(* contracts are not part of the repository): the vault, the clearing      *)
(* house, the account balance and the quoter, for the one trader that is   *)
(* the set.  The state is a record p:                                      *)
(*   vault         collateral deposited, in the collateral's decimals      *)
(*   owed          realized profit and loss not yet settled into the vault *)
(*   base, quote   open position and open notional of each market          *)
(*   twPremium     premium accumulated since the market was last settled   *)
(*   price         the market's mid price                                  *)
(* Amounts other than the vault's are in precise units.                    *)
(***************************************************************************)
EXTENDS PreciseUnitMath, FiniteSetsExt

CONSTANTS BaseTokens,       \* the markets
          CollateralScale,  \* 10^(18 - decimals) of the collateral token
          OneDay,           \* seconds a premium is paid over
          Spread,           \* distance of bid and ask from the mid price
          ImRatio, MmRatio  \* initial and maintenance margin

ASSUME PerpProtocolAssumption ==
    /\ CollateralScale \in Nat \ {0} /\ OneDay \in Nat \ {0}
    /\ Spread \in 0 .. (PreciseUnit - 1)
    /\ ImRatio \in 1 .. PreciseUnit /\ MmRatio \in 0 .. ImRatio

noAccount(price) ==
    [vault |-> 0, owed |-> 0, base |-> [t \in BaseTokens |-> 0],
     quote |-> [t \in BaseTokens |-> 0], twPremium |-> [t \in BaseTokens |-> 0], price |-> price]

fromPreciseUnitToDecimals(amount) == truncDiv(amount, CollateralScale)

toPreciseUnitsFromDecimals(amount) == amount * CollateralScale
-----------------------------------------------------------------------------
(* Account balance. *)

\* Positive when the trader pays.
getPendingFundingPayment(p, t) == truncDiv(preciseMulInt(p.base[t], p.twPremium[t]), OneDay)

getAllPendingFundingPayment(p) ==
    MapThenSumSet(LAMBDA t : getPendingFundingPayment(p, t), BaseTokens)

getTotalPositionValue(p, t) == preciseMulInt(p.base[t], p.price[t])

getTotalAbsPositionValue(p) ==
    MapThenSumSet(LAMBDA t : abs(getTotalPositionValue(p, t)), BaseTokens)

getUnrealizedPnl(p) ==
    MapThenSumSet(LAMBDA t : getTotalPositionValue(p, t) + p.quote[t], BaseTokens)

getTotalDebtValue(p) ==
    MapThenSumSet(LAMBDA t : abs(p.quote[t]), {t \in BaseTokens : p.quote[t] < 0})
        + MapThenSumSet(LAMBDA t : abs(getTotalPositionValue(p, t)), {t \in BaseTokens : p.base[t] < 0})

getTotalCollateralValue(p) ==
    toPreciseUnitsFromDecimals(p.vault) + p.owed - getAllPendingFundingPayment(p)

getAccountValue(p) == getTotalCollateralValue(p) + getUnrealizedPnl(p)

getFreeCollateral(p) ==
    Min({getTotalCollateralValue(p), getAccountValue(p)}) - preciseMulCeil(ImRatio, getTotalAbsPositionValue(p))

isLiquidatable(p) == getAccountValue(p) < preciseMul(MmRatio, getTotalAbsPositionValue(p))
-----------------------------------------------------------------------------
(* Clearing house and quoter. *)

\* Quote paid for, or received for, an amount of base.
swap(p, t, amount, isBuy) ==
    Require(amount > 0,
        IF isBuy THEN preciseMulCeil(amount, preciseMulCeil(p.price[t], PreciseUnit + Spread))
        ELSE preciseMul(amount, preciseMul(p.price[t], PreciseUnit - Spread)))

settleFunding(p, t) ==
    [p EXCEPT !.owed = @ - getPendingFundingPayment(p, t), !.twPremium[t] = 0]

\* What an exchange against the open position realizes of its notional.
realizedPnl(p, t, exchangedBase, exchangedQuote) ==
    LET open == abs(p.base[t])
        amount == abs(exchangedBase)
    IN  IF p.base[t] = 0 \/ ~signsDiffer(p.base[t], exchangedBase) THEN 0
        ELSE IF amount <= open
        THEN preciseMulInt(p.quote[t], preciseDiv(amount, open)) + exchangedQuote
        ELSE p.quote[t] + preciseMulInt(exchangedQuote, preciseDiv(open, amount))

\* A bound of zero is no bound.  Margin is checked unless the position shrinks.
openPosition(p, t, amount, isBuy, bound) ==
    UNION {LET exchangedBase == IF isBuy THEN amount ELSE -amount
               exchangedQuote == IF isBuy THEN -deltaQuote ELSE deltaQuote
               settled == settleFunding(p, t)
               realized == realizedPnl(p, t, exchangedBase, exchangedQuote)
               traded == [settled EXCEPT !.owed = @ + realized, !.base[t] = @ + exchangedBase,
                                         !.quote[t] = @ + exchangedQuote - realized]
           IN  Require(/\ bound # 0 => IF isBuy THEN deltaQuote <= bound ELSE deltaQuote >= bound
                       /\ abs(traded.base[t]) > abs(p.base[t]) => getFreeCollateral(traded) >= 0,
                       [perp |-> traded, deltaQuote |-> deltaQuote])
               : deltaQuote \in swap(p, t, amount, isBuy)}

\* Anyone closes a position of an account below its maintenance margin.
liquidate(p, t) ==
    {r.perp : r \in IF isLiquidatable(p)
                    THEN openPosition(p, t, abs(p.base[t]), p.base[t] < 0, 0) ELSE {}}
-----------------------------------------------------------------------------
(* Vault. *)

depositCollateral(p, amount) == [p EXCEPT !.vault = @ + amount]

\* Funding and owed profit are settled first; what is below the collateral's
\* decimals is lost.
withdrawCollateral(p, amount) ==
    Require(fromPreciseUnitToDecimals(getFreeCollateral(p)) >= amount,
        [p EXCEPT !.vault = @ + fromPreciseUnitToDecimals(p.owed - getAllPendingFundingPayment(p)) - amount,
                  !.owed = 0, !.twPremium = [t \in BaseTokens |-> 0]])
=============================================================================

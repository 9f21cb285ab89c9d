----------------------- MODULE PerpV2LeverageModuleV2 -----------------------
(***************************************************************************)
(* contracts/protocol/modules/v2/PerpV2LeverageModuleV2.sol (with          *)
(* PerpV2Positions and PerpV2LibraryV2): a set whose external position of  *)
(* the collateral token is an account at Perpetual Protocol V2.  The state *)
(* is a record w: the set, its account perp and positions, the module's    *)
(* list of the markets the set has a position in.  The set is allowed and  *)
(* maxPerpPositionsPerSet is a constant.                                   *)
(***************************************************************************)
EXTENDS Position, AddressArrayUtils, PerpV2Protocol, SequencesExt

CONSTANTS PerpModule,
          CollateralToken,
          TradeFee,               \* the protocol's fee on traded quote
          MaxPerpPositionsPerSet

ASSUME PerpModuleAssumption ==
    /\ PerpModule \in Modules
    /\ CollateralToken \in Tokens
    /\ TradeFee \in 0 .. PreciseUnit
-----------------------------------------------------------------------------
(* Views. *)

getNetQuoteBalance(w) == FoldLeft(LAMBDA sum, t : sum + w.perp.quote[t], 0, w.positions)

getPositionNotionalInfo(w) ==
    [i \in DOMAIN w.positions |->
        [baseToken |-> w.positions[i], baseBalance |-> w.perp.base[w.positions[i]],
         quoteBalance |-> w.perp.quote[w.positions[i]]]]

getPositionUnitInfo(w) ==
    [i \in DOMAIN w.positions |->
        [baseToken |-> w.positions[i],
         baseUnit |-> preciseDivInt(w.perp.base[w.positions[i]], w.set.totalSupply)]]

getAccountInfo(w) ==
    [collateralBalance |-> toPreciseUnitsFromDecimals(w.perp.vault), owedRealizedPnl |-> w.perp.owed,
     pendingFundingPayments |-> -getAllPendingFundingPayment(w.perp),
     netQuoteBalance |-> getNetQuoteBalance(w)]

\* Realized profit and loss not yet settled is left out.
partialAccountValueForgetsOwed(w) ==
    LET account == getAccountInfo(w)
    IN  preciseDivInt(account.collateralBalance + account.pendingFundingPayments + account.netQuoteBalance,
                      w.set.totalSupply)

\* Funding accrued since the last settlement is left out.
partialAccountValueForgetsFunding(w) ==
    LET account == getAccountInfo(w)
    IN  preciseDivInt(account.collateralBalance + account.owedRealizedPnl + account.netQuoteBalance,
                      w.set.totalSupply)

calculatePartialAccountValuePositionUnit(w) ==
    LET account == getAccountInfo(w)
    IN  preciseDivInt(account.collateralBalance + account.owedRealizedPnl
                          + account.pendingFundingPayments + account.netQuoteBalance,
                      w.set.totalSupply)
-----------------------------------------------------------------------------
(* The list of positions. *)

\* A short position counts as none.
hasLongBalance(w, t) == preciseDivInt(w.perp.base[t], w.set.totalSupply) > 1

\* A balance that rounds to at most one unit counts as none.
hasBaseBalance(w, t) ==
    LET unit == preciseDivInt(w.perp.base[t], w.set.totalSupply) IN unit > 1 \/ unit < -1

dropIfClosed(w, t) ==
    IF hasBaseBalance(w, t) THEN {w}
    ELSE {[w EXCEPT !.positions = list] : list \in removeStorage(w.positions, t)}

updatePositionList(w, t) ==
    IF contains(w.positions, t) THEN dropIfClosed(w, t)
    ELSE Require(Len(w.positions) < MaxPerpPositionsPerSet, [w EXCEPT !.positions = Append(@, t)])

\* The loop runs over a copy of the list, so every removal finds its token.
syncPositionList(w) ==
    LET synced[i \in 0 .. Len(w.positions)] ==
            IF i = 0 THEN {w} ELSE UNION {dropIfClosed(x, w.positions[i]) : x \in synced[i - 1]}
    IN  synced[Len(w.positions)]
-----------------------------------------------------------------------------
(* Collateral. *)

deposit(w, quantity) ==
    Require(privileged(w.set, PerpModule) /\ quantity <= w.set.held[CollateralToken],
        [w EXCEPT !.set.held[CollateralToken] = @ - quantity,
                  !.perp = depositCollateral(@, quantity)])

withdraw(w, quantity) ==
    IF quantity = 0 THEN {w}
    ELSE {[w EXCEPT !.perp = perp, !.set.held[CollateralToken] = @ + quantity] :
             perp \in IF privileged(w.set, PerpModule)
                      THEN withdrawCollateral(w.perp, quantity) ELSE {}}

withSet(w, sets) == {[w EXCEPT !.set = s] : s \in sets}

updateExternalPositionUnit(w) ==
    withSet(w, editExternalPosition(w.set, PerpModule, CollateralToken, PerpModule,
        fromPreciseUnitToDecimals(
            preciseDivInt(toPreciseUnitsFromDecimals(w.perp.vault), w.set.totalSupply))))

\* Both positions follow the collateral that has moved.
updatePositions(w, initialBalance) ==
    UNION {updateExternalPositionUnit(x) :
        x \in withSet(w, calculateAndEditDefaultPosition(
                             w.set, PerpModule, CollateralToken, w.set.totalSupply, initialBalance))}

Deposit(w, caller, units) ==
    IF /\ onlyManagerAndValidSet(w.set, PerpModule, caller)
       /\ w.set.totalSupply > 0
       /\ units > 0 /\ units <= getDefaultPositionRealUnit(w.set, CollateralToken)
    THEN UNION {updatePositions(x, w.set.held[CollateralToken]) :
                    x \in deposit(w, preciseMul(units, w.set.totalSupply))}
    ELSE {}

Withdraw(w, caller, units) ==
    IF /\ onlyManagerAndValidSet(w.set, PerpModule, caller)
       /\ w.set.totalSupply > 0
       /\ units > 0
    THEN UNION {updatePositions(x, w.set.held[CollateralToken]) :
                    x \in withdraw(w, preciseMulCeil(units, w.set.totalSupply))}
    ELSE {}
-----------------------------------------------------------------------------
(* Trades. *)

\* The fee leaves the account and then the set.
accrueProtocolFee(w, exchangedQuantity) ==
    LET fee == fromPreciseUnitToDecimals(preciseMul(exchangedQuantity, TradeFee))
    IN  UNION {withSet(x, payProtocolFeeFromSetToken(x.set, PerpModule, CollateralToken, fee)) :
                   x \in withdraw(w, fee)}

\* Selling exactly the position unit sells the whole balance.
baseNotional(w, t, units) ==
    IF units = -preciseDivInt(w.perp.base[t], w.set.totalSupply) THEN -w.perp.base[t]
    ELSE preciseMulInt(units, w.set.totalSupply)

executeTrade(w, t, baseQuantity, bound) ==
    {[world |-> [w EXCEPT !.perp = r.perp], deltaQuote |-> r.deltaQuote] :
        r \in openPosition(w.perp, t, abs(baseQuantity), baseQuantity > 0, bound)}

simulateTrade(w, t, baseQuantity) ==
    {[world |-> w, deltaQuote |-> deltaQuote] :
        deltaQuote \in swap(w.perp, t, abs(baseQuantity), baseQuantity > 0)}

Trade(w, caller, t, units, boundUnits) ==
    IF /\ onlyManagerAndValidSet(w.set, PerpModule, caller)
       /\ w.set.totalSupply > 0
       /\ units \in Int \ {0}
    THEN UNION {UNION {updatePositionList(x, t) : x \in accrueProtocolFee(r.world, r.deltaQuote)} :
                    r \in executeTrade(w, t, baseNotional(w, t, units),
                                       preciseMul(boundUnits, w.set.totalSupply))}
    ELSE {}

\* The sets' share of one position, bought or sold at the set's account or
\* only asked for; the outcome's value counts what the sets pay or are paid.
tradeShare(o, t, quantity, isIssue, isSimulation) ==
    LET unit == preciseDivInt(o.world.perp.base[t], o.world.set.totalSupply)
        base == preciseMulInt(unit, quantity)
        directed == IF isIssue THEN base ELSE -base
    IN  {[world |-> r.world,
          value |-> IF base >= 0 THEN o.value + r.deltaQuote ELSE o.value - r.deltaQuote] :
            r \in IF isSimulation THEN simulateTrade(o.world, t, directed)
                  ELSE executeTrade(o.world, t, directed, 0)}

\* The sets' share of the account: of its collateral, profit, funding and
\* quote, and what their share of every position trades for.
tradeShares(w, quantity, isIssue, isSimulation) ==
    LET traded[i \in 0 .. Len(w.positions)] ==
            IF i = 0
            THEN {[world |-> w,
                   value |-> preciseMulInt(calculatePartialAccountValuePositionUnit(w), quantity)]}
            ELSE UNION {tradeShare(o, w.positions[i], quantity, isIssue, isSimulation) : o \in traded[i - 1]}
    IN  traded[Len(w.positions)]

\* Issued sets are rounded up before, and all down by, the collateral's decimals.
executePositionTrades(w, quantity, isIssue, isSimulation) ==
    LET unitOf(value) ==
            IF value <= 0 THEN 0
            ELSE fromPreciseUnitToDecimals(
                     IF isIssue THEN preciseDivCeilInt(value, quantity) ELSE preciseDivInt(value, quantity))
    IN  UNION {{[world |-> o.world, unit |-> unitOf(o.value)] :
                    o \in tradeShares(x, quantity, isIssue, isSimulation)} :
                   x \in IF w.set.totalSupply > 0 /\ quantity > 0 THEN syncPositionList(w) ELSE {}}
-----------------------------------------------------------------------------
(* Hooks the issuance module calls. *)

\* moduleIssueHook and moduleRedeemHook.
preHook(w, quantity, isIssue) ==
    IF w.set.totalSupply = 0 \/ ~hasExternalPosition(w.set, CollateralToken) THEN {w}
    ELSE UNION {withSet(r.world, editExternalPositionUnit(
                            r.world.set, PerpModule, CollateralToken, PerpModule, r.unit)) :
                    r \in executePositionTrades(w, quantity, isIssue, FALSE)}

\* A negative unit does not convert to an unsigned one.
componentIssueHook(w, quantity) ==
    LET unit == getExternalPositionRealUnit(w.set, CollateralToken, PerpModule)
    IN  IF unit < 0 THEN {} ELSE deposit(w, preciseMulCeil(quantity, unit))

componentRedeemHook(w, quantity) ==
    LET unit == getExternalPositionRealUnit(w.set, CollateralToken, PerpModule)
    IN  IF unit < 0 THEN {} ELSE withdraw(w, preciseMul(quantity, unit))

\* The new unit instead of its change.
getAdjustmentIsNewUnit(w, quantity, isIssue) ==
    {[world |-> r.world, equity |-> r.unit] : r \in executePositionTrades(w, quantity, isIssue, TRUE)}

\* The change of unit that an issue or a redemption would make.  Without a
\* listed position the new unit is taken to be zero.
getAdjustment(w, quantity, isIssue) ==
    LET formatted(unit) ==
            IF CollateralToken \in w.set.components
            THEN unit - getExternalPositionRealUnit(w.set, CollateralToken, PerpModule) ELSE 0
    IN  IF w.positions = <<>> THEN {[world |-> w, equity |-> formatted(0)]}
        ELSE {[world |-> r.world, equity |-> formatted(r.unit)] :
                  r \in executePositionTrades(w, quantity, isIssue, TRUE)}
-----------------------------------------------------------------------------
(* Removal.  The account's value, not its positions, decides. *)

removePerp(w) ==
    Require(/\ w.set.totalSupply > 0
            /\ fromPreciseUnitToDecimals(preciseDivInt(getAccountValue(w.perp), w.set.totalSupply)) <= 1,
            [w EXCEPT !.positions = <<>>])
-----------------------------------------------------------------------------
(* contracts/protocol-viewers/PerpV2LeverageModuleViewer.sol: what a user  *)
(* is told about a levered set.                                            *)

calculateTotalCollateralValue(w) ==
    LET account == getAccountInfo(w)
    IN  account.collateralBalance + account.owedRealizedPnl + account.pendingFundingPayments

\* What is owed for the position is left out of the account's value.
leverageRatioWithoutQuote(position, indexPrice, collateral) ==
    LET positionValue == preciseMulInt(indexPrice, position.baseBalance)
    IN  preciseDivInt(positionValue, positionValue + collateral)

calculateCurrentLeverageRatio(position, indexPrice, collateral) ==
    LET positionValue == preciseMulInt(indexPrice, position.baseBalance)
    IN  preciseDivInt(positionValue, positionValue + collateral + position.quoteBalance)

\* Without a position there is no limit, and the code answers with the
\* largest number; a negative amount reverts.
getMaximumSetTokenIssueAmount(w, slippage) ==
    LET positionValue == getTotalAbsPositionValue(w.perp)
        pnl == getUnrealizedPnl(w.perp)
        collateral == calculateTotalCollateralValue(w) + IF pnl >= 0 THEN 0 ELSE pnl
        available == preciseDivInt(collateral, ImRatio) - getTotalDebtValue(w.perp)
        withSlippage == available - preciseDivInt(preciseMulInt(available, slippage), ImRatio)
    IN  Require(positionValue > 0 /\ withSlippage >= 0,
                preciseMul(preciseDiv(withSlippage, positionValue), w.set.totalSupply))
=============================================================================

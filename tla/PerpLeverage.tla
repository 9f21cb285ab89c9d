---------------------------- MODULE PerpLeverage ----------------------------
(***************************************************************************)
(* A SetToken levered at Perpetual Protocol V2, issued and redeemed        *)
(* through SlippageIssuanceModule.  Holders, the manager, liquidators and  *)
(* the markets act in any order; each action is one transaction.           *)
(***************************************************************************)
EXTENDS SlippageIssuanceModule

CONSTANTS InitialUnits,      \* units the set is created with
          IssueQuantities, RedeemQuantities,
          Limits,            \* [subset of Tokens -> amount] a caller may pass
          DepositUnits, WithdrawUnits,
          LeverageRatios,    \* positions are opened as the tests do, with leverUp
          BaseUnits,         \* other quantities traded
          Prices,            \* [BaseTokens -> price]
          Premiums,          \* premium a market accumulates at once
          ManagerFees,       \* [max, issue, redeem, recipient] the issuance module starts with
          NewFees,
          Recipients,
          MaxFlows, MaxTrades, MaxMoves   \* bounds

ASSUME PerpLeverageAssumption ==
    /\ Modules = {PerpModule, IssuanceModule} /\ PerpModule # IssuanceModule
    /\ CollateralToken \in DOMAIN InitialUnits
    /\ Prices \subseteq [BaseTokens -> Nat \ {0}]
    /\ ZeroAddress \notin Recipients
    /\ ProtocolFeeSplit \in 0 .. PreciseUnit

\* Quantities and fees are unsigned, and the number of positions has a limit.
ASSUME PerpInputsAssumption ==
    /\ IssueQuantities \subseteq Nat /\ RedeemQuantities \subseteq Nat /\ NewFees \subseteq Nat
    /\ \A fees \in ManagerFees : fees.max \in Nat /\ fees.issue \in Nat /\ fees.redeem \in Nat
    /\ MaxPerpPositionsPerSet \in Nat

VARIABLES
    world,      \* the set, its account and the module's list of positions
    debt,       \* the issuance module's settings
    trades,     \* the manager's deposits, withdrawals, trades and settings so far (bounded)
    flows,      \* issues and redemptions so far (bounded)
    moves,      \* moves of the markets so far (bounded)
    peak,       \* largest supply so far (history variable)
    abandoned   \* markets the module forgot when it was removed (history variable)

vars == <<world, debt, trades, flows, moves, peak, abandoned>>

Init ==
    /\ \E manager \in Managers \ {ZeroAddress}, price \in Prices :
           world = [set |-> newSetToken(InitialUnits, Modules, manager),
                    perp |-> noAccount(price), positions |-> <<>>]
    /\ debt = noSettings({})
    /\ trades = 0 /\ flows = 0 /\ moves = 0 /\ peak = 0
    /\ abandoned = {}

supply == world.set.totalSupply
open(w) == {t \in BaseTokens : w.perp.base[t] # 0}
-----------------------------------------------------------------------------
(* Holders. *)

Issue(quantity, limits) ==
    /\ world' \in issueWithSlippage(debt, world, quantity, limits)
    /\ flows < MaxFlows /\ flows' = flows + 1
    /\ peak' = IF world'.set.totalSupply > peak THEN world'.set.totalSupply ELSE peak
    /\ UNCHANGED <<debt, trades, moves, abandoned>>

Redeem(quantity, limits) ==
    /\ world' \in redeemWithSlippage(debt, world, quantity, limits)
    /\ flows < MaxFlows /\ flows' = flows + 1
    /\ UNCHANGED <<debt, trades, moves, peak, abandoned>>

\* Anyone may ask; the module drops closed positions from its list on the way.
AskUnits(quantity, isIssue) ==
    /\ \E r \in getRequiredComponentUnitsOffChain(debt, world, quantity, isIssue) : world' = r.world
    /\ UNCHANGED <<debt, trades, flows, moves, peak, abandoned>>
-----------------------------------------------------------------------------
(* The markets. *)

MovePrice(price) ==
    /\ moves < MaxMoves /\ moves' = moves + 1
    /\ world.perp.price # price
    /\ world' = [world EXCEPT !.perp.price = price]
    /\ UNCHANGED <<debt, trades, flows, peak, abandoned>>

\* Time passes while the mark price is off the index price.
AccruePremium(t, premium) ==
    /\ moves < MaxMoves /\ moves' = moves + 1
    /\ world' = [world EXCEPT !.perp.twPremium[t] = @ + premium]
    /\ UNCHANGED <<debt, trades, flows, peak, abandoned>>

Liquidate(t) ==
    /\ \E perp \in liquidate(world.perp, t) : world' = [world EXCEPT !.perp = perp]
    /\ UNCHANGED <<debt, trades, flows, moves, peak, abandoned>>
-----------------------------------------------------------------------------
(* The manager. *)

Ref == INSTANCE PerpV2Utils

ManagerDeposit(caller, units) ==
    /\ trades < MaxTrades /\ trades' = trades + 1
    /\ world' \in Deposit(world, caller, units)
    /\ UNCHANGED <<debt, flows, moves, peak, abandoned>>

ManagerWithdraw(caller, units) ==
    /\ trades < MaxTrades /\ trades' = trades + 1
    /\ world' \in Withdraw(world, caller, units)
    /\ UNCHANGED <<debt, flows, moves, peak, abandoned>>

ManagerTrade(caller, t, units, bound) ==
    /\ trades < MaxTrades /\ trades' = trades + 1
    /\ world' \in Trade(world, caller, t, units, bound)
    /\ UNCHANGED <<debt, flows, moves, peak, abandoned>>

LeverUp(caller, t, ratio, isLong) ==
    /\ supply > 0
    /\ LET lever == Ref!leverUp(getAccountInfo(world).collateralBalance, supply,
                                world.perp.price[t], ratio, isLong)
       IN  ManagerTrade(caller, t, lever.baseTradeQuantityUnit, lever.receiveQuoteQuantityUnit)

ClosePosition(caller, t) ==
    /\ supply > 0
    /\ ManagerTrade(caller, t, -preciseDivInt(world.perp.base[t], supply), 0)

UpdateSettings(caller) ==
    /\ \/ \E recipient \in Recipients : debt' \in updateFeeRecipient(world.set, debt, caller, recipient)
       \/ \E fee \in NewFees : debt' \in updateIssueFee(world.set, debt, caller, fee)
       \/ \E fee \in NewFees : debt' \in updateRedeemFee(world.set, debt, caller, fee)
    /\ trades < MaxTrades /\ trades' = trades + 1
    /\ UNCHANGED <<world, flows, moves, peak, abandoned>>

InitializeIssuance(caller, fees) ==
    /\ \E r \in initializeDebtIssuance(world.set, debt, caller, fees.max, fees.issue, fees.redeem, fees.recipient) :
           world' = [world EXCEPT !.set = r.set] /\ debt' = r.debt
    /\ UNCHANGED <<trades, flows, moves, peak, abandoned>>

InitializePerp(caller) ==
    /\ \E r \in initializePerp(world, debt, caller) : world' = r.world /\ debt' = r.debt
    /\ UNCHANGED <<trades, flows, moves, peak, abandoned>>

AddModule(caller, m) ==
    /\ world' \in withSet(world, addModule(world.set, caller, m))
    /\ UNCHANGED <<debt, trades, flows, moves, peak, abandoned>>

RemovePerp(caller) ==
    /\ \E r \in removePerpModule(world, debt, caller) : world' = r.world /\ debt' = r.debt
    /\ abandoned' = abandoned \cup open(world)
    /\ UNCHANGED <<trades, flows, moves, peak>>

RemoveIssuance(caller) ==
    /\ world' \in withSet(world, removeModule(world.set, caller, IssuanceModule))
    /\ debt' \in removeDebtIssuance(debt)
    /\ UNCHANGED <<trades, flows, moves, peak, abandoned>>
-----------------------------------------------------------------------------
HolderNext ==
    \/ \E quantity \in IssueQuantities, limits \in Limits : Issue(quantity, limits)
    \/ \E quantity \in RedeemQuantities, limits \in Limits : Redeem(quantity, limits)
    \/ \E quantity \in IssueQuantities, isIssue \in BOOLEAN : AskUnits(quantity, isIssue)

MarketNext ==
    \/ \E price \in Prices : MovePrice(price)
    \/ \E t \in BaseTokens, premium \in Premiums : AccruePremium(t, premium)
    \/ \E t \in BaseTokens : Liquidate(t)

ManagerNext(caller) ==
    \/ \E units \in DepositUnits : ManagerDeposit(caller, units)
    \/ \E units \in WithdrawUnits : ManagerWithdraw(caller, units)
    \/ \E t \in BaseTokens, units \in BaseUnits : ManagerTrade(caller, t, units, 0)
    \/ \E t \in BaseTokens, ratio \in LeverageRatios, isLong \in BOOLEAN : LeverUp(caller, t, ratio, isLong)
    \/ \E t \in BaseTokens : ClosePosition(caller, t)
    \/ UpdateSettings(caller)
    \/ \E fees \in ManagerFees : InitializeIssuance(caller, fees)
    \/ InitializePerp(caller)
    \/ \E m \in Modules : AddModule(caller, m)
    \/ RemovePerp(caller)
    \/ RemoveIssuance(caller)

Next ==
    \/ HolderNext
    \/ MarketNext
    \/ \E caller \in Managers \ {ZeroAddress} : ManagerNext(caller)

Spec == Init /\ [][Next]_vars
-----------------------------------------------------------------------------
levered(w) ==
    /\ w.set.moduleStates[PerpModule] = "INITIALIZED"
    /\ w.set.totalSupply > 0
    /\ hasExternalPosition(w.set, CollateralToken)

externalUnit(w) == getExternalPositionRealUnit(w.set, CollateralToken, PerpModule)

\* The account's value at mid prices, as far as the listed markets make it up.
listedValue(w, list) ==
    getTotalCollateralValue(w.perp)
        + FoldLeft(LAMBDA sum, t : sum + w.perp.quote[t] + getTotalPositionValue(w.perp, t), 0, list)

\* What the roundings of one issue or redemption of a quantity may cost.
roundedOff(w, quantity) ==
    (quantity \div PreciseUnit + 2)
        * (2 * CollateralScale + 2 + MapThenSumSet(LAMBDA t : w.perp.price[t] \div PreciseUnit + 2, BaseTokens))

\* Whoever issues or redeems bears the spread of the trades it causes: the
\* account's value at mid prices keeps its proportion to the supply, up to
\* rounding.  A redemption from an account in debt, which the module turns
\* into a payment of nothing, is the exception it makes.
PerpValueNotDiluted ==
    [][LET before == supply
           after == world'.set.totalSupply
       IN  /\ after # before /\ levered(world)
           /\ after > before \/ externalUnit(world') > 0
           => (listedValue(world', world'.positions) + roundedOff(world, abs(after - before))) * before
                  >= listedValue(world, world'.positions) * after]_vars
-----------------------------------------------------------------------------
(* The formulas the tests expect results with. *)

swapQuote ==
    [t \in BaseTokens, amount \in Nat, isBuy \in BOOLEAN |->
        CHOOSE quote \in swap(world.perp, t, amount, isBuy) : TRUE]

spotPrice == world.perp.price

near(a, b, distance) == abs(a - b) <= distance

listSynced(w) == \A i \in DOMAIN w.positions : hasBaseBalance(w, w.positions[i])

\* The unit an issue or a redemption leaves behind is the tests' transfer per
\* set, for any mix of long and short positions, owed profit and funding; a
\* redemption differs by the rounded ratio in which the tests close a position.
\* A deposit or a withdrawal leaves the vault's balance per set.
TransfersMatchReference ==
    [][levered(world) /\ listSynced(world) =>
        LET quantity == abs(world'.set.totalSupply - supply)
            account == getAccountInfo(world)
            in == Ref!calculateUSDCTransferInPreciseUnits(
                      account, supply, quantity, getPositionUnitInfo(world), swapQuote, spotPrice)
            out == Ref!calculateUSDCTransferOut(
                       account, supply, quantity, getPositionNotionalInfo(world), swapQuote)
            closing == FoldLeft(LAMBDA sum, t : sum + abs(world.perp.quote[t]) \div PreciseUnit + 2, 0, world.positions)
        IN  IF world'.set.totalSupply > supply
            THEN externalUnit(world') > 0 =>
                     /\ externalUnit(world') - Ref!toUSDCDecimals(Ref!preciseDiv(in, quantity)) \in {0, 1}
                     /\ near(preciseMulCeil(quantity, externalUnit(world')),
                             Ref!calculateUSDCTransferIn(account, supply, quantity, getPositionUnitInfo(world),
                                                         swapQuote, spotPrice),
                             quantity \div PreciseUnit + 2)
            ELSE IF world'.set.totalSupply < supply
            THEN externalUnit(world') > 0 =>
                     near(preciseMul(quantity, externalUnit(world')), out,
                          closing \div CollateralScale + quantity \div PreciseUnit + 3)
            ELSE world.set.held # world'.set.held =>
                     externalUnit(world') = Ref!calculateExternalPositionUnit(getAccountInfo(world'), supply)]_vars

\* What a user is told before issuing or redeeming is what the transaction then
\* moves, although the one asks the quoter and the other trades: for every
\* quantity, fee and mix of positions that is still in the module's list.
PreviewMatchesTransfer ==
    \A quantity \in IssueQuantities, isIssue \in BOOLEAN :
        levered(world) /\ world.positions # <<>> =>
            \A told \in getRequiredComponentUnitsOffChain(debt, world, quantity, isIssue) :
                LET total == calculateTotalFees(debt, quantity, isIssue).totalQuantity
                IN  \A x \in IF isIssue THEN callModulePreIssueHooks(debt, world, total)
                             ELSE callModulePreRedeemHooks(debt, world, total) :
                        told.equity = equityOf(calculateRequiredComponentIssuanceUnits(x.set, total, isIssue))

\* The viewer's leverage ratios and its limit on issuing, and the funding the
\* module counts as pending, are what the tests compute from the account (the
\* limit for positions worth at least one unit of quote: below, it is a number
\* beyond any supply).
ViewMatchesReference ==
    levered(world) =>
        LET account == getAccountInfo(world)
            info == getPositionNotionalInfo(world)
            ratios == Ref!calculateLeverageRatios(account, info, spotPrice)
            growth == MapThenSumSet(
                LAMBDA t : Ref!getUSDCDeltaDueToFundingGrowth(supply, supply, world.perp.base[t], world.perp.twPremium[t]),
                BaseTokens)
        IN  /\ \A i \in DOMAIN info :
                   calculateCurrentLeverageRatio(info[i], spotPrice[info[i].baseToken],
                                                 calculateTotalCollateralValue(world)) = ratios[i]
            /\ getTotalAbsPositionValue(world.perp) >= PreciseUnit =>
               \A amount \in getMaximumSetTokenIssueAmount(world, Spread) :
                   amount = Ref!calculateMaxIssueQuantity(
                                account, supply, Spread, ImRatio, getUnrealizedPnl(world.perp),
                                getTotalDebtValue(world.perp), getTotalAbsPositionValue(world.perp))
            /\ near(account.pendingFundingPayments, growth,
                    MapThenSumSet(LAMBDA t : abs(world.perp.base[t]) \div PreciseUnit + 4, BaseTokens)
                        + supply \div PreciseUnit)

\* Issuing and redeeming scale the markets in the list and no other.  The list
\* names a market once, is within its limit, and a market missing from it was
\* dust when it was dropped: less than two units of the largest supply so far.
\* The exception is a position abandoned when the module was removed from a
\* set whose account was worth nothing.
PositionsListed ==
    /\ \A i, j \in DOMAIN world.positions : world.positions[i] = world.positions[j] => i = j
    /\ Len(world.positions) <= MaxPerpPositionsPerSet
    /\ \A t \in BaseTokens \ abandoned :
           contains(world.positions, t) \/ abs(world.perp.base[t]) * PreciseUnit < 2 * peak + PreciseUnit
=============================================================================

----------------------------- MODULE NavIssuance -----------------------------
(***************************************************************************)
(* One SetToken issued and redeemed two ways: for all its components       *)
(* through BasicIssuanceModule, and for one reserve asset at the oracle's  *)
(* price through CustomOracleNAVIssuanceModule.  Holders, the manager and  *)
(* the oracle act in any order; each action is one transaction.            *)
(***************************************************************************)
EXTENDS BasicIssuanceModule, CustomOracleNAVIssuanceModule

CONSTANTS InitialUnits,                 \* units the set is created with
          IssueQuantities, RedeemQuantities, \* sets issued and redeemed for components
          ReserveQuantities,            \* reserve sent for sets
          SetQuantities,                \* sets redeemed for reserve
          MinReceives,                  \* least amounts a caller accepts
          Prices,                       \* [Tokens -> price] the oracle may quote
          NavSettings,                  \* settings the module may start with
          NewPremiums, NewFees,         \* percentages the manager may change to
          MaxIssued, MaxFlows           \* bounds

ASSUME NavModulesAssumption ==
    /\ Modules = {IssuanceModule, NavModule}
    /\ IssuanceModule # NavModule

ASSUME NavInputsAssumption ==
    /\ \A units \in InitialUnits :
           DOMAIN units \subseteq Tokens /\ \A c \in DOMAIN units : units[c] \in Nat \ {0}
    /\ IssueQuantities \subseteq Nat /\ RedeemQuantities \subseteq Nat
    /\ ReserveQuantities \subseteq Nat /\ SetQuantities \subseteq Nat
    /\ Prices \subseteq [Tokens -> Nat \ {0}]
    /\ {FeeShare, DirectFee} \subseteq [issue : Nat, redeem : Nat]
    /\ NewPremiums \subseteq Nat /\ NewFees \subseteq Nat

\* The argument of initialize has the struct's types.
ASSUME NavSettingsAssumption == NavSettings \subseteq NAVIssuanceSettings

VARIABLES
    set,        \* the SetToken's state
    nav,        \* CustomOracleNAVIssuanceModule's state for it
    prices,     \* what the oracle quotes, in the master quote asset
    issued,     \* quantity issued for components so far (history variable)
    flows       \* transactions at net asset value so far (history variable)

vars == <<set, nav, prices, issued, flows>>

Init ==
    /\ \E units \in InitialUnits, manager \in Managers \ {ZeroAddress} :
           set = newSetToken(units, Modules, manager)
    /\ nav = noNavSettings
    /\ prices \in Prices
    /\ issued = 0
    /\ flows = 0
-----------------------------------------------------------------------------
(* Holders. *)

BasicIssue(quantity) ==
    /\ set' \in issue(set, quantity)
    /\ issued' = issued + quantity
    /\ issued' <= MaxIssued
    /\ UNCHANGED <<nav, prices, flows>>

BasicRedeem(quantity) ==
    /\ set' \in redeem(set, quantity)
    /\ UNCHANGED <<nav, prices, issued, flows>>

IssueForReserve(c, quantity, minReceive) ==
    /\ set' \in issueForReserve(set, nav, prices, c, quantity, minReceive)
    /\ flows < MaxFlows /\ flows' = flows + 1
    /\ UNCHANGED <<nav, prices, issued>>

RedeemForReserve(c, quantity, minReceive) ==
    /\ set' \in redeemForReserve(set, nav, prices, c, quantity, minReceive)
    /\ flows < MaxFlows /\ flows' = flows + 1
    /\ UNCHANGED <<nav, prices, issued>>

\* The oracle's feeds move.
UpdatePrices ==
    /\ prices' \in Prices
    /\ UNCHANGED <<set, nav, issued, flows>>
-----------------------------------------------------------------------------
(* The manager. *)

AddReserveAsset(caller, c) ==
    /\ nav' \in addReserveAsset(set, nav, caller, c)
    /\ UNCHANGED <<set, prices, issued, flows>>

RemoveReserveAsset(caller, c) ==
    /\ nav' \in removeReserveAsset(set, nav, caller, c)
    /\ UNCHANGED <<set, prices, issued, flows>>

EditPremium(caller, premium) ==
    /\ nav' \in editPremium(set, nav, caller, premium)
    /\ UNCHANGED <<set, prices, issued, flows>>

EditManagerFee(caller, fee, side) ==
    /\ nav' \in editManagerFee(set, nav, caller, fee, side)
    /\ UNCHANGED <<set, prices, issued, flows>>

EditFeeRecipient(caller, recipient) ==
    /\ nav' \in editNavFeeRecipient(set, nav, caller, recipient)
    /\ UNCHANGED <<set, prices, issued, flows>>

InitializeIssuance(caller) ==
    /\ set' \in initializeIssuance(set, caller)
    /\ UNCHANGED <<nav, prices, issued, flows>>

InitializeNav(caller, settings) ==
    /\ \E r \in initializeNav(set, nav, caller, settings) : set' = r.set /\ nav' = r.nav
    /\ UNCHANGED <<prices, issued, flows>>

AddModule(caller, m) ==
    /\ set' \in addModule(set, caller, m)
    /\ UNCHANGED <<nav, prices, issued, flows>>

\* The set calls the module's removeModule; BasicIssuanceModule's reverts.
RemoveModule(caller, m) ==
    /\ m = NavModule
    /\ set' \in removeModule(set, caller, m)
    /\ nav' = removeNav(nav)
    /\ UNCHANGED <<prices, issued, flows>>
-----------------------------------------------------------------------------
HolderNext ==
    \/ \E quantity \in IssueQuantities : BasicIssue(quantity)
    \/ \E quantity \in RedeemQuantities : BasicRedeem(quantity)
    \/ \E c \in Tokens, quantity \in ReserveQuantities, minReceive \in MinReceives :
           IssueForReserve(c, quantity, minReceive)
    \/ \E c \in Tokens, quantity \in SetQuantities, minReceive \in MinReceives :
           RedeemForReserve(c, quantity, minReceive)

ManagerNext(caller) ==
    \/ \E c \in Tokens : AddReserveAsset(caller, c) \/ RemoveReserveAsset(caller, c)
    \/ \E premium \in NewPremiums : EditPremium(caller, premium)
    \/ \E fee \in NewFees, side \in {"issue", "redeem"} : EditManagerFee(caller, fee, side)
    \/ \E recipient \in NavRecipients : EditFeeRecipient(caller, recipient)
    \/ InitializeIssuance(caller)
    \/ \E settings \in NavSettings : InitializeNav(caller, settings)
    \/ \E m \in Modules : AddModule(caller, m) \/ RemoveModule(caller, m)

Next ==
    \/ HolderNext
    \/ \E caller \in Managers \ {ZeroAddress} : ManagerNext(caller)
    \/ UpdatePrices

Spec == Init /\ [][Next]_vars
-----------------------------------------------------------------------------
TypeOK ==
    /\ set \in SetTokenState
    /\ nav \in NAVIssuanceSettings
    /\ prices \in [Tokens -> Nat \ {0}]
    /\ issued \in Nat /\ flows \in Nat

\* The claims of all sets together, unrounded, stay covered by what the set
\* holds, up to one unit for every set issued for components: issues and
\* redemptions at net asset value move the multiplier, the supply and the
\* reserve's unit by separately rounded amounts and add no claim of their own.
ShortfallBounded ==
    \A c \in Tokens :
        set.virtualUnit[c] * set.positionMultiplier * set.totalSupply
            <= PreciseUnit * (set.held[c] * PreciseUnit + issued)

\* What one set is worth, in the master quote asset.
valuation(s) == calculateSetTokenValuation(s, prices, MasterQuoteAsset)

\* The units of c that the roundings of one transaction may cost each set: a
\* fraction of a token spread over the supply, the fractions dropped from the
\* multiplier and from the virtual unit, and one for each of the two units.
roundedOff(s, c) ==
    preciseDivCeil(1, s.totalSupply) + preciseMulCeil(s.positionMultiplier, 1)
        + preciseMulCeil(s.virtualUnit[c], 1) + 2

\* While prices stand still no transaction lowers what a set is worth by more
\* than these roundings: whoever issues or redeems at net asset value, at
\* whatever fee and premium, does so at nobody else's expense.
NavNotDiluted ==
    [][prices' = prices /\ set'.totalSupply > 0 =>
        LET rounding == MapThenSumSet(
                LAMBDA c : preciseMulCeil(preciseDivCeil(roundedOff(set', c), BaseUnit[c]), prices[c]),
                Tokens)
        IN  \A before \in valuation(set), after \in valuation(set') : after + rounding >= before]_vars

\* The array of reserve assets and the mapping that the checks read name the
\* same assets, each once, and a removed module leaves no setting and no asset
\* behind that its next initialization would meet.
ReserveAssetsIndexed ==
    /\ nav.isReserveAsset = {nav.reserveAssets[i] : i \in DOMAIN nav.reserveAssets}
    /\ \A i, j \in DOMAIN nav.reserveAssets : nav.reserveAssets[i] = nav.reserveAssets[j] => i = j
    /\ set.moduleStates[NavModule] # "INITIALIZED" => nav = noNavSettings
-----------------------------------------------------------------------------
(* The formulas the tests expect results with. *)

Ref == INSTANCE NavIssuanceModuleUtils

near(a, b, distance) == abs(a - b) <= distance

\* On every issue that the supply allows and that leaves a multiplier, the
\* module and the tests' formulas agree within the rounding that separates
\* them: fees split with the protocol are rounded apart and may leave one more
\* or less; for the same net quantity the sets minted are the same; the
\* multiplier taken through a rounded inflation is lower by a fraction.
IssueMatchesReference ==
    \A c \in nav.isReserveAsset, quantity \in ReserveQuantities :
        \A info \in createIssuanceInfo(set, nav, prices, c, quantity),
           value \in calculateSetTokenValuation(set, prices, c) :
            set.totalSupply >= nav.minSetTokenSupply /\ info.newPositionMultiplier > 0 =>
            LET fee == nav.managerFees.issue
                supply == set.totalSupply
                net == Ref!getExpectedPostFeeQuantity(quantity, fee, DirectFee.issue)
                minted == Ref!getExpectedSetTokenIssueQuantity(
                              value, supply, BaseUnit[c], quantity, fee, DirectFee.issue, nav.premiumPercentage)
                multiplier == Ref!getExpectedIssuePositionMultiplier(
                                  set.positionMultiplier, supply, info.newSetTokenSupply)
                unit == Ref!getExpectedIssuePositionUnit(
                            getDefaultPositionRealUnit(set, c), quantity, supply, info.newSetTokenSupply,
                            info.newPositionMultiplier, fee, DirectFee.issue)
            IN  /\ near(net, info.fees.netFlowQuantity, 1)
                /\ net = info.fees.netFlowQuantity => minted = info.setTokenQuantity
                /\ multiplier <= info.newPositionMultiplier
                /\ info.newPositionMultiplier
                       <= multiplier + preciseMulCeil(set.positionMultiplier, 1) + 1
                /\ near(unit, info.newReservePositionUnit,
                        preciseDivCeil(1, info.newSetTokenSupply) + preciseDivCeil(1, info.newPositionMultiplier))

\* The same for every redemption the supply allows, into an asset of no more decimals than the set
\* and with fees of no more than the whole: the tests take fees and premium before, the module
\* after the value is brought to the reserve's decimals, which makes a difference of up to three.
RedeemMatchesReference ==
    \A c \in nav.isReserveAsset, quantity \in SetQuantities :
        \A info \in createRedemptionInfo(set, nav, prices, c, quantity),
           value \in calculateSetTokenValuation(set, prices, c) :
            info.newSetTokenSupply >= nav.minSetTokenSupply /\ BaseUnit[c] <= PreciseUnit
                /\ nav.managerFees.redeem + DirectFee.redeem <= PreciseUnit =>
            LET fee == nav.managerFees.redeem
                supply == set.totalSupply
                net == Ref!getExpectedReserveRedeemQuantity(
                           quantity, value, BaseUnit[c], fee, DirectFee.redeem, nav.premiumPercentage)
                multiplier == Ref!getExpectedRedeemPositionMultiplier(
                                  set.positionMultiplier, supply, info.newSetTokenSupply)
                unit == Ref!getExpectedRedeemPositionUnit(
                            getDefaultPositionRealUnit(set, c), quantity, value, BaseUnit[c], supply,
                            info.newSetTokenSupply, info.newPositionMultiplier, nav.premiumPercentage)
            IN  /\ near(net, info.fees.netFlowQuantity, 3)
                /\ multiplier <= info.newPositionMultiplier
                /\ info.newPositionMultiplier
                       <= multiplier + preciseMulCeil(set.positionMultiplier, 1) + 1
                /\ near(unit, info.newReservePositionUnit,
                        preciseDivCeil(1, info.newSetTokenSupply) + preciseDivCeil(1, info.newPositionMultiplier))

\* Both: the quantities, multipliers and units of the module are those the
\* tests expect, on issues and on redemptions.
FlowsMatchReference == IssueMatchesReference /\ RedeemMatchesReference
=============================================================================

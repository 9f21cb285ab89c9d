-------------------- MODULE CustomOracleNAVIssuanceModule --------------------
(***************************************************************************)
(* contracts/protocol/modules/v1/CustomOracleNAVIssuanceModule.sol: sets   *)
(* minted for, and redeemed into, a single reserve asset at the value the  *)
(* oracle gives the set.  Every other position is diluted or concentrated  *)
(* by moving the position multiplier.                                      *)
(*                                                                         *)
(* The state is the record n, navIssuanceSettings of the one set with      *)
(* isReserveAsset as the set of assets it is true of.  The manager's hooks *)
(* are external and run before anything is read: they can only refuse.     *)
(* Paying with ether wraps it in the module first and unwraps it last; the *)
(* set sees the same transfers of WETH.                                    *)
(*                                                                         *)
(* contracts/protocol/SetValuer.sol comes first: what one set is worth.    *)
(* Prices come from the PriceOracle in the master quote asset and are an   *)
(* input, the function prices; BaseUnit gives each token's 10^decimals.    *)
(***************************************************************************)
EXTENDS Position, FiniteSetsExt, AddressArrayUtils

CONSTANTS BaseUnit,           \* [Tokens -> positive]
          MasterQuoteAsset

ASSUME BaseUnitAssumption == BaseUnit \in [Tokens -> Nat \ {0}]

getTotalComponentRealUnits(s, c) ==
    getDefaultPositionRealUnit(s, c)
        + MapThenSumSet(LAMBDA m : getExternalPositionRealUnit(s, c, m), s.externalPositionModules[c])

\* A debt counts against the set; a set worth less than nothing reverts in
\* toUint256.
calculateSetTokenValuation(s, prices, quoteAsset) ==
    LET value(c) ==
            preciseMulInt(preciseDivInt(getTotalComponentRealUnits(s, c), BaseUnit[c]), prices[c])
        inMaster == MapThenSumSet(value, s.components)
        valuation == IF quoteAsset = MasterQuoteAsset THEN inMaster
                     ELSE preciseDivInt(inMaster, prices[quoteAsset])
    IN  Require(valuation \in Nat, valuation)
-----------------------------------------------------------------------------

CONSTANTS NavModule,
          FeeShare,        \* [issue, redeem]: the protocol's share of the manager's fee
          DirectFee,       \* [issue, redeem]: the protocol's own fee
          NavRecipients

NAVIssuanceSettings ==
    [reserveAssets : Seq(Tokens), isReserveAsset : SUBSET Tokens,
     feeRecipient : NavRecipients \cup {ZeroAddress},
     managerFees : [issue : Nat, redeem : Nat], maxManagerFee : Nat,
     premiumPercentage : Nat, maxPremiumPercentage : Nat, minSetTokenSupply : Nat]

\* delete navIssuanceSettings[set]
noNavSettings ==
    [reserveAssets |-> <<>>, isReserveAsset |-> {}, feeRecipient |-> ZeroAddress,
     managerFees |-> [issue |-> 0, redeem |-> 0], maxManagerFee |-> 0,
     premiumPercentage |-> 0, maxPremiumPercentage |-> 0, minSetTokenSupply |-> 0]
-----------------------------------------------------------------------------
(* Fees and quantities.  side is "issue" or "redeem". *)

\* The manager's fee percentage is split with the protocol, whose own comes
\* on top; a quantity smaller than its fees reverts.
getFees(n, quantity, side) ==
    LET managerFee == n.managerFees[side]
        share == preciseMul(FeeShare[side], managerFee)
        protocolFees == preciseMul(share + DirectFee[side], quantity)
        managerFees == preciseMul(managerFee - share, quantity)
    IN  Require(share <= managerFee /\ protocolFees + managerFees <= quantity,
            [protocolFees |-> protocolFees, managerFee |-> managerFees,
             netFlowQuantity |-> quantity - protocolFees - managerFees])

\* The minter is credited with everything sent, fees included.
getSetTokenMintQuantityPreFee(s, n, prices, c, fees) ==
    LET sent == preciseDiv(fees.netFlowQuantity + fees.protocolFees + fees.managerFee, BaseUnit[c])
    IN  {preciseDiv(preciseMul(sent, s.totalSupply), preciseMul(s.totalSupply, valuation)) :
            valuation \in {v \in calculateSetTokenValuation(s, prices, c) :
                               preciseMul(s.totalSupply, v) > 0}}

\* The premium stays with the holders: it is not credited to the minter, and
\* the minted sets share in it.
getSetTokenMintQuantity(s, n, prices, c, fees) ==
    LET netFees == preciseDiv(fees.netFlowQuantity, BaseUnit[c])
        premiumValue == preciseMul(fees.netFlowQuantity, n.premiumPercentage)
        netFeesAndPremium == preciseDiv(fees.netFlowQuantity - premiumValue, BaseUnit[c])
        denominator(valuation) ==
            preciseMul(s.totalSupply, valuation) + netFees - netFeesAndPremium
    IN  {preciseDiv(preciseMul(netFeesAndPremium, s.totalSupply), denominator(valuation)) :
            valuation \in {v \in calculateSetTokenValuation(s, prices, c) : denominator(v) > 0}}

\* Redeemers get the premium back.
getRedeemReserveQuantityIgnoresPremium(s, n, prices, c, quantity) ==
    {preciseMul(preciseMul(quantity, valuation), BaseUnit[c]) :
        valuation \in calculateSetTokenValuation(s, prices, c)}

getRedeemReserveQuantity(s, n, prices, c, quantity) ==
    LET prePremium(valuation) == preciseMul(preciseMul(quantity, valuation), BaseUnit[c])
    IN  {prePremium(valuation) - preciseMulCeil(prePremium(valuation), n.premiumPercentage) :
            valuation \in calculateSetTokenValuation(s, prices, c)}

\* All positions together stay what they were.
getPositionMultiplier(s, newSupply) ==
    truncDiv(s.positionMultiplier * s.totalSupply, newSupply)

getIssuePositionUnit(s, c, netFlow, newSupply) ==
    preciseDiv(preciseMul(getDefaultPositionRealUnit(s, c), s.totalSupply) + netFlow, newSupply)

\* The fees that leave the set with the reserve are not counted.
getRedeemPositionUnitForgetsFees(s, c, fees, newSupply) ==
    LET existing == preciseMul(getDefaultPositionRealUnit(s, c), s.totalSupply)
    IN  Require(existing >= fees.netFlowQuantity,
                preciseDiv(existing - fees.netFlowQuantity, newSupply))

getRedeemPositionUnit(s, c, fees, newSupply) ==
    LET existing == preciseMul(getDefaultPositionRealUnit(s, c), s.totalSupply)
        outflow == fees.netFlowQuantity + fees.protocolFees + fees.managerFee
    IN  Require(existing >= outflow, preciseDiv(existing - outflow, newSupply))
-----------------------------------------------------------------------------
(* Issuance and redemption. *)

\* A negative default unit would revert in toUint256.
createIssuanceInfo(s, n, prices, c, quantity) ==
    UNION {{[fees |-> fees, setTokenQuantity |-> minted,
             newSetTokenSupply |-> s.totalSupply + minted,
             newPositionMultiplier |-> getPositionMultiplier(s, s.totalSupply + minted),
             newReservePositionUnit |->
                 getIssuePositionUnit(s, c, fees.netFlowQuantity, s.totalSupply + minted)] :
                minted \in {q \in getSetTokenMintQuantity(s, n, prices, c, fees) :
                                s.totalSupply + q > 0 /\ getDefaultPositionRealUnit(s, c) >= 0}}
           : fees \in getFees(n, quantity, "issue")}

createRedemptionInfo(s, n, prices, c, quantity) ==
    LET newSupply == s.totalSupply - quantity
    IN  UNION {{[fees |-> fees, setTokenQuantity |-> quantity, newSetTokenSupply |-> newSupply,
                 newPositionMultiplier |-> getPositionMultiplier(s, newSupply),
                 newReservePositionUnit |-> unit] :
                    unit \in IF newSupply > 0 /\ getDefaultPositionRealUnit(s, c) >= 0
                             THEN getRedeemPositionUnit(s, c, fees, newSupply) ELSE {}}
               : fees \in UNION {getFees(n, preFee, "redeem") :
                             preFee \in getRedeemReserveQuantity(s, n, prices, c, quantity)}}

validateCommon(s, n, c, quantity) ==
    validAndInitializedSet(s, NavModule) /\ quantity > 0 /\ c \in n.isReserveAsset

\* The multiplier first, then the reserve's unit under the new multiplier.
updatePositions(s, c, info) ==
    UNION {editDefaultPosition(t, NavModule, c, info.newReservePositionUnit)
           : t \in editPositionMultiplier(s, NavModule, info.newPositionMultiplier)}

issueForReserve(s, n, prices, c, quantity, minReceive) ==
    UNION {UNION {mint(t, NavModule, info.setTokenQuantity)
                  : t \in updatePositions(transferFrom(s, c, info.fees.netFlowQuantity), c, info)}
           : info \in {i \in createIssuanceInfo(s, n, prices, c, quantity) :
                 /\ validateCommon(s, n, c, quantity)
                 /\ s.totalSupply >= n.minSetTokenSupply
                 /\ i.setTokenQuantity >= minReceive}}

redeemForReserve(s, n, prices, c, quantity, minReceive) ==
    LET paid(t, info) ==
            UNION {UNION {strictInvokeTransfer(v, NavModule, c, info.fees.managerFee)
                          : v \in payProtocolFeeFromSetToken(u, NavModule, c, info.fees.protocolFees)}
                   : u \in strictInvokeTransfer(t, NavModule, c, info.fees.netFlowQuantity)}
    IN  UNION {UNION {updatePositions(t, c, info)
                      : t \in UNION {paid(b, info) : b \in burn(s, NavModule, quantity)}}
               : info \in {i \in createRedemptionInfo(s, n, prices, c, quantity) :
                     /\ validateCommon(s, n, c, quantity)
                     /\ i.newSetTokenSupply >= n.minSetTokenSupply
                     /\ i.fees.netFlowQuantity >= minReceive}}
-----------------------------------------------------------------------------
(* Settings. *)

addReserveAsset(s, n, caller, c) ==
    Require(onlyManagerAndValidSet(s, NavModule, caller) /\ c \notin n.isReserveAsset,
            [n EXCEPT !.reserveAssets = Append(@, c), !.isReserveAsset = @ \cup {c}])

\* The mapping keeps the asset.
removeReserveAssetKeepsFlag(s, n, caller, c) ==
    {[n EXCEPT !.reserveAssets = array] :
        array \in IF onlyManagerAndValidSet(s, NavModule, caller) /\ c \in n.isReserveAsset
                  THEN remove(n.reserveAssets, c) ELSE {}}

removeReserveAsset(s, n, caller, c) ==
    {[n EXCEPT !.reserveAssets = array, !.isReserveAsset = @ \ {c}] :
        array \in IF onlyManagerAndValidSet(s, NavModule, caller) /\ c \in n.isReserveAsset
                  THEN remove(n.reserveAssets, c) ELSE {}}

editPremium(s, n, caller, premium) ==
    Require(onlyManagerAndValidSet(s, NavModule, caller) /\ premium <= n.maxPremiumPercentage,
            [n EXCEPT !.premiumPercentage = premium])

editManagerFee(s, n, caller, fee, side) ==
    Require(onlyManagerAndValidSet(s, NavModule, caller) /\ fee <= n.maxManagerFee,
            [n EXCEPT !.managerFees[side] = fee])

editNavFeeRecipient(s, n, caller, recipient) ==
    Require(onlyManagerAndValidSet(s, NavModule, caller) /\ recipient # ZeroAddress,
            [n EXCEPT !.feeRecipient = recipient])

\* An asset given twice, or one still marked, is refused.
initializeNav(s, n, caller, settings) ==
    LET assets == settings.reserveAssets
        listed == {assets[i] : i \in DOMAIN assets}
    IN  {[set |-> t, nav |-> [settings EXCEPT !.isReserveAsset = n.isReserveAsset \cup listed]] :
            t \in IF /\ onlyManager(s, caller)
                     /\ validAndPendingSet(s, NavModule)
                     /\ assets # <<>>
                     /\ settings.maxManagerFee < PreciseUnit
                     /\ settings.maxPremiumPercentage < PreciseUnit
                     /\ settings.managerFees.issue <= settings.maxManagerFee
                     /\ settings.managerFees.redeem <= settings.maxManagerFee
                     /\ settings.premiumPercentage <= settings.maxPremiumPercentage
                     /\ settings.feeRecipient # ZeroAddress
                     /\ settings.minSetTokenSupply > 0
                     /\ listed \cap n.isReserveAsset = {}
                     /\ \A i, j \in DOMAIN assets : assets[i] = assets[j] => i = j
                  THEN initializeModule(s, NavModule)
                  ELSE {}}

\* Only the listed assets can be unmarked.
removeNav(n) ==
    [noNavSettings EXCEPT !.isReserveAsset =
        n.isReserveAsset \ {n.reserveAssets[i] : i \in DOMAIN n.reserveAssets}]
=============================================================================

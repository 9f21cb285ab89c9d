------------------------- MODULE DebtIssuanceModule -------------------------
(***************************************************************************)
(* contracts/protocol/modules/v1/DebtIssuanceModule.sol: the settings, the *)
(* fees and the units that issuing a set with external positions takes.    *)
(* The state is the record d, issuanceSettings of the one set, with        *)
(* isModuleHook as the set of modules it is true of.  There is no manager  *)
(* hook.                                                                   *)
(***************************************************************************)
EXTENDS Position, AddressArrayUtils, FiniteSetsExt

CONSTANTS IssuanceModule,
          ProtocolFeeSplit   \* the protocol's share of issue and redeem fees

\* delete issuanceSettings[set], but for isModuleHook: a mapping survives it.
noSettings(isModuleHook) ==
    [maxManagerFee |-> 0, managerIssueFee |-> 0, managerRedeemFee |-> 0,
     feeRecipient |-> ZeroAddress, moduleIssuanceHooks |-> <<>>, isModuleHook |-> isModuleHook]
-----------------------------------------------------------------------------
(* Manager. *)

updateFeeRecipient(s, d, caller, newFeeRecipient) ==
    Require(/\ onlyManagerAndValidSet(s, IssuanceModule, caller)
            /\ newFeeRecipient # ZeroAddress /\ newFeeRecipient # d.feeRecipient,
            [d EXCEPT !.feeRecipient = newFeeRecipient])

updateIssueFee(s, d, caller, newIssueFee) ==
    Require(/\ onlyManagerAndValidSet(s, IssuanceModule, caller)
            /\ newIssueFee <= d.maxManagerFee /\ newIssueFee # d.managerIssueFee,
            [d EXCEPT !.managerIssueFee = newIssueFee])

updateRedeemFee(s, d, caller, newRedeemFee) ==
    Require(/\ onlyManagerAndValidSet(s, IssuanceModule, caller)
            /\ newRedeemFee <= d.maxManagerFee /\ newRedeemFee # d.managerRedeemFee,
            [d EXCEPT !.managerRedeemFee = newRedeemFee])

initializeDebtIssuance(s, d, caller, maxManagerFee, issueFee, redeemFee, feeRecipient) ==
    {[set |-> initialized,
      debt |-> [d EXCEPT !.maxManagerFee = maxManagerFee, !.managerIssueFee = issueFee,
                         !.managerRedeemFee = redeemFee, !.feeRecipient = feeRecipient,
                         !.moduleIssuanceHooks = <<>>]] :
        initialized \in IF /\ onlyManager(s, caller) /\ validAndPendingSet(s, IssuanceModule)
                           /\ issueFee <= maxManagerFee /\ redeemFee <= maxManagerFee
                        THEN initializeModule(s, IssuanceModule) ELSE {}}

removeDebtIssuance(d) == Require(d.moduleIssuanceHooks = <<>>, noSettings(d.isModuleHook))
-----------------------------------------------------------------------------
(* Modules that hook into issuance. *)

registerToIssuanceModule(s, d, m) ==
    Require(onlyModule(s, m) /\ validAndInitializedSet(s, IssuanceModule) /\ m \notin d.isModuleHook,
        [d EXCEPT !.moduleIssuanceHooks = Append(@, m), !.isModuleHook = @ \cup {m}])

unregisterFromIssuanceModule(s, d, m) ==
    {[d EXCEPT !.moduleIssuanceHooks = hooks, !.isModuleHook = @ \ {m}] :
        hooks \in IF onlyModule(s, m) /\ validAndInitializedSet(s, IssuanceModule) /\ m \in d.isModuleHook
                  THEN removeStorage(d.moduleIssuanceHooks, m) ELSE {}}

\* try ... catch: a call that reverts changes nothing.
try(outcomes, otherwise) == IF outcomes = {} THEN {otherwise} ELSE outcomes
-----------------------------------------------------------------------------
(* Quantities. *)

calculateTotalFees(d, quantity, isIssue) ==
    LET rate == IF isIssue THEN d.managerIssueFee ELSE d.managerRedeemFee
        totalFee == preciseMul(rate, quantity)
        protocolFee == preciseMul(totalFee, ProtocolFeeSplit)
    IN  [totalQuantity |-> IF isIssue THEN quantity + totalFee ELSE quantity - totalFee,
         managerFee |-> totalFee - protocolFee, protocolFee |-> protocolFee]

externalUnits(s, c) == {<<m, getExternalPositionRealUnit(s, c, m)>> : m \in s.externalPositionModules[c]}

\* Equity and debt of a component, in units.
getTotalIssuanceUnits(s, c) ==
    [equity |-> getDefaultPositionRealUnit(s, c)
                    + MapThenSumSet(LAMBDA u : u[2], {u \in externalUnits(s, c) : u[2] > 0}),
     debt |-> MapThenSumSet(LAMBDA u : -u[2], {u \in externalUnits(s, c) : u[2] <= 0})]

\* Issuers are rounded against both ways: equity up and debt down, and the
\* reverse on redemption.
calculateRequiredComponentIssuanceUnits(s, quantity, isIssue) ==
    [c \in s.components |->
        LET units == getTotalIssuanceUnits(s, c)
        IN  IF isIssue
            THEN [equity |-> preciseMulCeil(units.equity, quantity), debt |-> preciseMul(units.debt, quantity)]
            ELSE [equity |-> preciseMul(units.equity, quantity), debt |-> preciseMulCeil(units.debt, quantity)]]

\* The manager's part; ERC20 mints nothing to the zero address.
mintManagerFee(d, s, fee) ==
    IF fee = 0 THEN {s}
    ELSE IF d.feeRecipient = ZeroAddress THEN {} ELSE mint(s, IssuanceModule, fee)

\* The protocol's part is only minted along with the manager's.
resolveFees(d, s, fees) ==
    UNION {IF fees.managerFee > 0 /\ fees.protocolFee > 0
           THEN mint(t, IssuanceModule, fees.protocolFee) ELSE {t} :
               t \in mintManagerFee(d, s, fees.managerFee)}
=============================================================================

----------------------- MODULE SlippageIssuanceModule -----------------------
(***************************************************************************)
(* contracts/protocol/modules/v1/SlippageIssuanceModule.sol, with the      *)
(* parts of DebtIssuanceModule that call the hooks of other modules.  The  *)
(* one module that hooks in is PerpV2LeverageModuleV2, so issuing a set    *)
(* trades on its account.  Worlds are those of that module.                *)
(***************************************************************************)
EXTENDS DebtIssuanceModule, PerpV2LeverageModuleV2

callModulePreHooks(d, w, quantity, isIssue) ==
    LET called[i \in 0 .. Len(d.moduleIssuanceHooks)] ==
            IF i = 0 THEN {w} ELSE UNION {preHook(x, quantity, isIssue) : x \in called[i - 1]}
    IN  called[Len(d.moduleIssuanceHooks)]

callModulePreIssueHooks(d, w, quantity) == callModulePreHooks(d, w, quantity, TRUE)

callModulePreRedeemHooks(d, w, quantity) == callModulePreHooks(d, w, quantity, FALSE)

hasPerpPosition(w, c) == c = CollateralToken /\ PerpModule \in w.set.externalPositionModules[c]

transferIn(s, quantities) ==
    [s EXCEPT !.held = [c \in Tokens |-> @[c] + IF c \in DOMAIN quantities THEN quantities[c] ELSE 0]]

transferOut(s, quantities) ==
    Require(\A c \in DOMAIN quantities : quantities[c] > 0 => quantities[c] <= s.held[c],
        [s EXCEPT !.held = [c \in Tokens |-> @[c] - IF c \in DOMAIN quantities THEN quantities[c] ELSE 0]])

\* The external hook of a component runs only if any of it moves.
executeExternalPositionHooks(w, quantity, isIssue, quantities) ==
    IF \E c \in DOMAIN quantities : quantities[c] > 0 /\ hasPerpPosition(w, c)
    THEN IF isIssue THEN componentIssueHook(w, quantity) ELSE componentRedeemHook(w, quantity)
    ELSE {w}

resolveEquityPositions(w, quantity, isIssue, quantities) ==
    IF isIssue
    THEN executeExternalPositionHooks([w EXCEPT !.set = transferIn(@, quantities)],
                                      quantity, isIssue, quantities)
    ELSE UNION {withSet(x, transferOut(x.set, quantities)) :
                    x \in executeExternalPositionHooks(w, quantity, isIssue, quantities)}

\* The perpetual module's hook does nothing about debt.
resolveDebtPositions(w, isIssue, quantities) ==
    IF isIssue THEN withSet(w, transferOut(w.set, quantities))
    ELSE {[w EXCEPT !.set = transferIn(@, quantities)]}

equityOf(required) == [c \in DOMAIN required |-> required[c].equity]
debtOf(required) == [c \in DOMAIN required |-> required[c].debt]

validateTokenTransferLimits(limits, required, isIssue) ==
    \A c \in DOMAIN limits :
        /\ c \in DOMAIN required
        /\ IF isIssue THEN limits[c] >= required[c].equity ELSE limits[c] <= required[c].equity

issueWithSlippage(d, w, setQuantity, limits) ==
    LET fees == calculateTotalFees(d, setQuantity, TRUE)
        required(x) == calculateRequiredComponentIssuanceUnits(x.set, fees.totalQuantity, TRUE)
        hooked == IF validAndInitializedSet(w.set, IssuanceModule) /\ setQuantity > 0
                  THEN callModulePreIssueHooks(d, w, fees.totalQuantity) ELSE {}
        charged == UNION {IF validateTokenTransferLimits(limits, required(x), TRUE)
                          THEN resolveEquityPositions(x, fees.totalQuantity, TRUE, equityOf(required(x)))
                          ELSE {} : x \in hooked}
        lent == UNION {resolveDebtPositions(x, TRUE, debtOf(required(x))) : x \in charged}
    IN  UNION {withSet(x, UNION {mint(s, IssuanceModule, setQuantity) : s \in resolveFees(d, x.set, fees)}) :
                   x \in lent}

\* A fee of more than the quantity reverts.
redeemWithSlippage(d, w, setQuantity, limits) ==
    LET fees == calculateTotalFees(d, setQuantity, FALSE)
        required(x) == calculateRequiredComponentIssuanceUnits(x.set, fees.totalQuantity, FALSE)
        hooked == IF validAndInitializedSet(w.set, IssuanceModule) /\ setQuantity > 0 /\ fees.totalQuantity >= 0
                  THEN callModulePreRedeemHooks(d, w, fees.totalQuantity) ELSE {}
        burnt == UNION {withSet(x, burn(x.set, IssuanceModule, setQuantity)) : x \in hooked}
        repaid == UNION {IF validateTokenTransferLimits(limits, required(x), FALSE)
                         THEN resolveDebtPositions(x, FALSE, debtOf(required(x))) ELSE {} : x \in burnt}
        paid == UNION {resolveEquityPositions(x, fees.totalQuantity, FALSE, equityOf(required(x))) : x \in repaid}
    IN  UNION {withSet(x, resolveFees(d, x.set, fees)) : x \in paid}
-----------------------------------------------------------------------------
(* What issuing or redeeming would move, asked off chain. *)

adjust(o, quantity, isIssue) ==
    {[world |-> r.world, equity |-> o.equity + r.equity] : r \in getAdjustment(o.world, quantity, isIssue)}

calculateAdjustments(d, w, quantity, isIssue) ==
    LET adjusted[i \in 0 .. Len(d.moduleIssuanceHooks)] ==
            IF i = 0 THEN {[world |-> w, equity |-> 0]}
            ELSE UNION {adjust(o, quantity, isIssue) : o \in adjusted[i - 1]}
    IN  adjusted[Len(d.moduleIssuanceHooks)]

getRequiredComponentUnitsOffChain(d, w, setQuantity, isIssue) ==
    LET quantity == calculateTotalFees(d, setQuantity, isIssue).totalQuantity
        adjusted(x, c, adjustment) ==
            getTotalIssuanceUnits(x.set, c).equity + IF c = CollateralToken THEN adjustment ELSE 0
    IN  {[world |-> a.world,
          equity |-> [c \in w.set.components |->
                         IF isIssue THEN preciseMulCeil(adjusted(a.world, c, a.equity), quantity)
                         ELSE preciseMul(adjusted(a.world, c, a.equity), quantity)]] :
            a \in {b \in calculateAdjustments(d, w, quantity, isIssue) :
                      quantity >= 0 /\ \A c \in w.set.components : adjusted(b.world, c, b.equity) >= 0}}
-----------------------------------------------------------------------------
(* The perpetual module's calls of the issuance module. *)

initializePerp(w, d, caller) ==
    UNION {{[world |-> [w EXCEPT !.set = s], debt |-> registered] :
                registered \in try(registerToIssuanceModule(s, d, PerpModule), d)} :
               s \in IF /\ onlyManager(w.set, caller) /\ validAndPendingSet(w.set, PerpModule)
                        /\ w.set.moduleStates[IssuanceModule] = "INITIALIZED"
                     THEN initializeModule(w.set, PerpModule) ELSE {}}

\* SetToken.removeModule calls the module first and forgets it then.
removePerpModule(w, d, caller) ==
    UNION {{[world |-> [x EXCEPT !.set = s], debt |-> unregistered] :
                s \in removeModule(x.set, caller, PerpModule),
                unregistered \in try(unregisterFromIssuanceModule(x.set, d, PerpModule), d)} :
               x \in removePerp(w)}
=============================================================================

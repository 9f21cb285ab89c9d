------------------------- MODULE BasicIssuanceModule -------------------------
(***************************************************************************)
(* contracts/protocol/modules/v1/BasicIssuanceModule.sol: minting a set    *)
(* against its components and redeeming it for them.  The manager's        *)
(* pre-issue hook is external: it can refuse an issue, which the model     *)
(* covers by the issue not happening.                                      *)
(***************************************************************************)
EXTENDS Position

CONSTANT IssuanceModule

onlyDefaultPositions(s) == \A c \in s.components : ~hasExternalPosition(s, c)

\* Rounded up: the issuer covers the fraction.
getRequiredComponentUnitsForIssue(s, quantity) ==
    [c \in Tokens |-> IF c \in s.components
                      THEN preciseMulCeil(getDefaultPositionRealUnit(s, c), quantity)
                      ELSE 0]

issue(s, quantity) ==
    LET required == getRequiredComponentUnitsForIssue(s, quantity)
        funded == [s EXCEPT !.held = [c \in Tokens |-> s.held[c] + required[c]]]
    IN  IF /\ validAndInitializedSet(s, IssuanceModule)
           /\ quantity > 0
           /\ onlyDefaultPositions(s)
        THEN mint(funded, IssuanceModule, quantity)
        ELSE {}

\* Rounded up instead of down: small redemptions would drain the set.
redeemedUnitsRoundedUp(s, quantity) ==
    [c \in Tokens |-> IF c \in s.components
                      THEN preciseMulCeil(quantity, getDefaultPositionRealUnit(s, c))
                      ELSE 0]

redeemedUnits(s, quantity) ==
    [c \in Tokens |-> IF c \in s.components
                      THEN preciseMul(quantity, getDefaultPositionRealUnit(s, c))
                      ELSE 0]

\* The set is burned first; a component the set holds too little of reverts
\* the whole redemption.
redeem(s, quantity) ==
    LET redeemed == redeemedUnits(s, quantity)
    IN  {[t EXCEPT !.held = [c \in Tokens |-> t.held[c] - redeemed[c]]] :
            t \in IF /\ validAndInitializedSet(s, IssuanceModule)
                     /\ quantity > 0
                     /\ onlyDefaultPositions(s)
                     /\ \A c \in Tokens : redeemed[c] <= s.held[c]
                  THEN burn(s, IssuanceModule, quantity)
                  ELSE {}}

initializeIssuance(s, caller) ==
    IF onlyManager(s, caller) /\ validAndPendingSet(s, IssuanceModule)
    THEN initializeModule(s, IssuanceModule)
    ELSE {}
=============================================================================

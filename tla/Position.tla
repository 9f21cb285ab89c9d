------------------------------ MODULE Position ------------------------------
(***************************************************************************)
(* contracts/protocol/lib/Position.sol (and PositionV2.sol, the same code  *)
(* deployed as a linked library): the only way the modules edit a set's    *)
(* positions, and what keeps components, units and external modules in     *)
(* step with each other.                                                   *)
(***************************************************************************)
EXTENDS SetToken

hasDefaultPosition(s, c) == getDefaultPositionRealUnit(s, c) > 0

hasExternalPosition(s, c) == s.externalPositionModules[c] # {}

editDefaultPosition(s, caller, c, newUnit) ==
    LET found == hasDefaultPosition(s, c)
        listed ==
            IF ~found /\ newUnit > 0 /\ ~hasExternalPosition(s, c)
                THEN addComponent(s, caller, c)
            ELSE IF found /\ newUnit = 0 /\ ~hasExternalPosition(s, c)
                THEN removeComponent(s, caller, c)
            ELSE {s}
    IN  UNION {editDefaultPositionUnit(t, caller, c, newUnit) : t \in listed}

\* newUnit # 0: the component and the module are listed if they were not.
openExternalPosition(s, caller, c, m, newUnit) ==
    LET withComponent ==
            IF c \notin s.components THEN addComponent(s, caller, c) ELSE {s}
        withModule ==
            UNION {IF c \notin s.components \/ m \notin t.externalPositionModules[c]
                   THEN addExternalPositionModule(t, caller, c, m) ELSE {t}
                       : t \in withComponent}
    IN  UNION {editExternalPositionUnit(t, caller, c, m, newUnit) : t \in withModule}

\* newUnit = 0: the module goes, and with the last position the component.
closeExternalPosition(s, caller, c, m) ==
    LET modules == s.externalPositionModules[c]
        isLast == getDefaultPositionRealUnit(s, c) = 0 /\ \E only \in modules : modules = {only}
        delisted ==
            IF ~isLast THEN {s}
            ELSE IF modules = {m} THEN removeComponent(s, caller, c) ELSE {}
    IN  IF getExternalPositionRealUnit(s, c, m) = 0 THEN {s}
        ELSE UNION {removeExternalPositionModule(t, caller, c, m) : t \in delisted}

editExternalPosition(s, caller, c, m, newUnit) ==
    IF newUnit # 0 THEN openExternalPosition(s, caller, c, m, newUnit)
    ELSE closeExternalPosition(s, caller, c, m)

getDefaultTotalNotional(supply, unit) == preciseMul(supply, unit)

getDefaultPositionUnit(supply, totalNotional) == preciseDiv(totalNotional, supply)

\* What the set holds beyond its tracked positions does not count towards
\* the new unit.  Reverts when the set held less than its positions track,
\* and on a zero supply.
calculateDefaultEditPositionUnit(supply, pre, post, unit) ==
    LET airdropped == pre - preciseMul(unit, supply)
    IN  Require(airdropped >= 0 /\ post >= airdropped /\ supply > 0,
                getDefaultPositionUnit(supply, post - airdropped))

calculateAndEditDefaultPosition(s, caller, c, supply, previousBalance) ==
    LET unit == getDefaultPositionRealUnit(s, c)
        newUnits ==
            IF s.held[c] > 0
            THEN calculateDefaultEditPositionUnit(supply, previousBalance, s.held[c], unit)
            ELSE {0}
    IN  IF unit < 0 THEN {}
        ELSE UNION {editDefaultPosition(s, caller, c, u) : u \in newUnits}
-----------------------------------------------------------------------------
(* contracts/protocol/lib/ModuleBase.sol: the checks every module's entry  *)
(* points make about the set they are called with.                         *)

validAndInitializedSet(s, m) == s.isSet /\ s.moduleStates[m] = "INITIALIZED"

validAndPendingSet(s, m) == s.isSet /\ s.moduleStates[m] = "PENDING"

onlyManagerAndValidSet(s, m, caller) == onlyManager(s, caller) /\ validAndInitializedSet(s, m)

\* The protocol's fee leaves the set in the token it was earned in.
payProtocolFeeFromSetToken(s, m, token, quantity) == strictInvokeTransfer(s, m, token, quantity)
=============================================================================
